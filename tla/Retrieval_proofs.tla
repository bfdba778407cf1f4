---------------------------- MODULE Retrieval_proofs ----------------------------
(****************************************************************************)
(* Proofs about Chunking and Retrieval, for documents of any length and     *)
(* form, any sizes, queries and limits: what cutting a document keeps, how  *)
(* long the pieces are, and what a search shows of them.                    *)
(*                                                                          *)
(* The chunker is a loop over blocks with a loop over windows in it, written *)
(* as recursive functions.  Recursion says that such a function exists, and *)
(* LeastNumber stands for induction: it is applied to the set of the turns  *)
(* after which a fact about the loop would be wrong.                        *)
(****************************************************************************)
EXTENDS Retrieval, FiniteSetTheorems, WellFoundedInduction, TLAPS

-----------------------------------------------------------------------------
(* Numbers and recursion. *)

\* A set of natural numbers that is not empty has a least one.
LEMMA LeastNumber ==
    ASSUME NEW T \in SUBSET Nat, T # {}
    PROVE  \E n \in T : \A m \in T : n <= m
<1> DEFINE Below == {0..n : n \in T}
<1>1. Below \subseteq FiniteSubsetsOf(Nat) /\ Below # {}
  <2>1. ASSUME NEW k \in T PROVE 0..k \in FiniteSubsetsOf(Nat)
    <3>1. k \in Int /\ 0 \in Int /\ 0..k \in SUBSET Nat
      OBVIOUS
    <3>2. QED
      BY <3>1, FS_Interval DEF FiniteSubsetsOf
  <2>2. QED
    BY <2>1
<1>2. PICK s \in Below : \A r \in Below : <<r, s>> \notin StrictSubsetOrdering(Nat)
  <2> HIDE DEF Below
  <2>1. QED
    BY <1>1, FS_StrictSubsetOrderingWellFounded, WFMin
<1>3. PICK n \in T : s = 0..n
  BY <1>2
<1>4. ASSUME NEW m \in T, m < n
      PROVE  FALSE
  <2>1. 0..m \in Below /\ <<0..m, 0..n>> \notin StrictSubsetOrdering(Nat)
    BY <1>2, <1>3
  <2>2. 0..m \in SUBSET Nat /\ 0..n \in SUBSET Nat /\ 0..m \subseteq 0..n /\ n \in 0..n /\ n \notin 0..m
    BY <1>4
  <2>3. QED
    BY <2>1, <2>2 DEF StrictSubsetOrdering
<1>5. QED
  BY <1>4

\* A bounded set of natural numbers has a greatest one.
LEMMA GreatestNumber ==
    ASSUME NEW b \in Nat, NEW T \in SUBSET (0..b), T # {}
    PROVE  \E n \in T : \A m \in T : m <= n
<1> DEFINE Rest == {r \in 0..b : b - r \in T}
<1>1. Rest \subseteq Nat /\ Rest # {}
  <2>1. PICK n \in T : TRUE
    OBVIOUS
  <2>2. b - n \in 0..b /\ b - (b - n) = n
    BY <2>1
  <2>3. b - n \in Rest
    BY <2>1, <2>2
  <2>4. Rest # {}
    <3> HIDE DEF Rest
    <3>1. QED
      BY <2>3
  <2>5. QED
    BY <2>4
<1>2. PICK r \in Rest : \A q \in Rest : r <= q
  <2> HIDE DEF Rest
  <2>1. QED
    BY <1>1, LeastNumber
<1>3. ASSUME NEW m \in T PROVE m <= b - r
  <2>1. m \in 0..b /\ b - m \in 0..b /\ b - (b - m) = m
    OBVIOUS
  <2>2. b - m \in Rest
    BY <2>1
  <2>3. r <= b - m /\ r \in Nat
    <3> HIDE DEF Rest
    <3>1. QED
      BY <1>1, <1>2, <2>2
  <2>4. QED
    BY <2>1, <2>3
<1>4. QED
  BY <1>2, <1>3

LEMMA MinIs ==
    ASSUME NEW T \in SUBSET Nat, T # {}
    PROVE  Min(T) \in T /\ \A m \in T : Min(T) <= m
<1>1. \E n \in T : \A m \in T : n <= m
  BY LeastNumber
<1>2. QED
  BY <1>1 DEF Min

LEMMA MinOfTwo ==
    ASSUME NEW a \in Int, NEW b \in Int
    PROVE  /\ Min({a, b}) \in Int
           /\ Min({a, b}) = IF a <= b THEN a ELSE b
<1>1. \E n \in {a, b} : \A m \in {a, b} : n <= m
  OBVIOUS
<1>2. Min({a, b}) \in {a, b} /\ \A m \in {a, b} : Min({a, b}) <= m
  BY <1>1 DEF Min
<1>3. QED
  BY <1>2

LEMMA MaxOfTwo ==
    ASSUME NEW a \in Int, NEW b \in Int
    PROVE  Max({a, b}) = IF a <= b THEN b ELSE a
<1>1. \E n \in {a, b} : \A m \in {a, b} : n >= m
  OBVIOUS
<1>2. Max({a, b}) \in {a, b} /\ \A m \in {a, b} : Max({a, b}) >= m
  BY <1>1 DEF Max
<1>3. QED
  BY <1>2

LEMMA MaxIs ==
    ASSUME NEW b \in Nat, NEW T \in SUBSET (0..b), T # {}
    PROVE  Max(T) \in T /\ \A m \in T : m <= Max(T)
<1>1. \E n \in T : \A m \in T : n >= m
  BY GreatestNumber
<1>2. Max(T) \in T /\ \A m \in T : Max(T) >= m
  BY <1>1 DEF Max
<1>3. QED
  BY <1>2

\* A function over 0..n is defined by its value at 0 and that at i in terms of
\* the one before.
Steps(n, V) == [(1..n) \X V -> V]
LEMMA Recursion ==
    ASSUME NEW V, NEW base \in V, NEW n \in Nat, NEW step \in Steps(n, V)
    PROVE  \E f \in [0..n -> V] : f[0] = base /\ \A i \in 1..n : f[i] = step[<<i, f[i - 1]>>]
<1> DEFINE Runs(k) == {f \in [0..k -> V] : f[0] = base /\ \A i \in 1..k : f[i] = step[<<i, f[i - 1]>>]}
           Stuck == {k \in 0..n : Runs(k) = {}}
<1>1. SUFFICES ASSUME Runs(n) = {} PROVE FALSE
  OBVIOUS
<1>2. Stuck \in SUBSET Nat /\ Stuck # {}
  <2> HIDE DEF Runs
  <2>1. n \in 0..n
    OBVIOUS
  <2>2. QED
    BY <1>1, <2>1
<1>3. PICK k \in Stuck : \A m \in Stuck : k <= m
  <2> HIDE DEF Stuck
  <2>1. QED
    BY <1>2, LeastNumber
<1>4. [i \in 0..0 |-> base] \in Runs(0)
  OBVIOUS
<1>5. k # 0 /\ k - 1 \in 0..n /\ k - 1 \notin Stuck
  <2>1. k # 0
    <3> HIDE DEF Runs
    <3>1. QED
      BY <1>3, <1>4
  <2>2. k - 1 \in 0..n /\ ~(k <= k - 1)
    BY <2>1, <1>3
  <2> HIDE DEF Stuck
  <2>3. QED
    BY <1>3, <2>1, <2>2
<1>6. PICK f \in Runs(k - 1) : TRUE
  BY <1>5
<1>7. [i \in 0..k |-> IF i = k THEN step[<<k, f[k - 1]>>] ELSE f[i]] \in Runs(k)
  <2> DEFINE g == [i \in 0..k |-> IF i = k THEN step[<<k, f[k - 1]>>] ELSE f[i]]
  <2>1. k \in 1..n /\ f \in [0..(k - 1) -> V] /\ f[0] = base /\ \A i \in 1..(k - 1) : f[i] = step[<<i, f[i - 1]>>]
    BY <1>3, <1>5, <1>6
  <2>2. f[k - 1] \in V /\ <<k, f[k - 1]>> \in (1..n) \X V
    BY <2>1
  <2>3. step[<<k, f[k - 1]>>] \in V
    BY <2>2 DEF Steps
  <2>4. g \in [0..k -> V] /\ g[0] = base /\ g[k] = step[<<k, f[k - 1]>>] /\ \A i \in 0..(k - 1) : g[i] = f[i]
    BY <2>1, <2>3
  <2>5. ASSUME NEW i \in 1..k PROVE g[i] = step[<<i, g[i - 1]>>]
    <3>1. CASE i = k
      <4>1. k - 1 \in 0..(k - 1)
        BY <2>1
      <4>2. QED
        BY <4>1, <2>4, <3>1
    <3>2. CASE i # k
      <4>1. i \in 1..(k - 1) /\ i \in 0..(k - 1) /\ i - 1 \in 0..(k - 1)
        BY <3>2, <2>1
      <4>2. QED
        BY <4>1, <2>1, <2>4
    <3>3. QED
      BY <3>1, <3>2
  <2>6. QED
    BY <2>4, <2>5
<1>8. QED
  BY <1>3, <1>7

-----------------------------------------------------------------------------
(* Texts. *)

Char == Nat \X Nat
Text == Seq(Char)

\* Characters of a document stand in the order of their block, and in it.
Earlier(c, e) == c[1] < e[1] \/ (c[1] = e[1] /\ c[2] < e[2])

\* w can follow what is known, K, of the characters A: each of its characters
\* comes after all that are earlier.
Fits(A, K, w) ==
    \A p \in DOMAIN w : w[p] # NL =>
        \A c \in A : Earlier(c, w[p]) => c \in K \/ \E q \in 1..(p - 1) : w[q] = c

LEMMA TextIs ==
    ASSUME NEW w \in Text
    PROVE  /\ Len(w) \in Nat /\ DOMAIN w = 1..Len(w)
           /\ \A p \in 1..Len(w) : w[p] \in Char
           /\ Range(w) \subseteq Char /\ Range(w) = {w[p] : p \in 1..Len(w)}
           /\ CharsOf(w) = {w[p] : p \in 1..Len(w)} \ {NL}
<1>1. Len(w) \in Nat /\ DOMAIN w = 1..Len(w) /\ \A p \in 1..Len(w) : w[p] \in Char
  BY DEF Text
<1>2. QED
  BY <1>1 DEF Range, CharsOf

LEMMA ConcatIs ==
    ASSUME NEW u \in Text, NEW v \in Text
    PROVE  /\ u \o v \in Text /\ Len(u \o v) = Len(u) + Len(v)
           /\ \A p \in 1..Len(u) : (u \o v)[p] = u[p]
           /\ \A p \in 1..Len(v) : (u \o v)[Len(u) + p] = v[p]
           /\ \A p \in 1..(Len(u) + Len(v)) : p \in 1..Len(u) \/ p - Len(u) \in 1..Len(v)
           /\ CharsOf(u \o v) = CharsOf(u) \cup CharsOf(v)
<1>1. Len(u) \in Nat /\ Len(v) \in Nat
  BY TextIs
<1>2. /\ u \o v \in Text /\ Len(u \o v) = Len(u) + Len(v)
      /\ \A p \in 1..Len(u) : (u \o v)[p] = u[p]
      /\ \A p \in 1..Len(v) : (u \o v)[Len(u) + p] = v[p]
  BY <1>1 DEF Text
<1>3. \A p \in 1..(Len(u) + Len(v)) : p \in 1..Len(u) \/ p - Len(u) \in 1..Len(v)
  BY <1>1
<1>4. ASSUME NEW c
      PROVE  c \in CharsOf(u \o v) <=> c \in CharsOf(u) \cup CharsOf(v)
  <2>1. c \in CharsOf(u) <=> c # NL /\ \E p \in 1..Len(u) : u[p] = c
    BY TextIs
  <2>2. c \in CharsOf(v) <=> c # NL /\ \E p \in 1..Len(v) : v[p] = c
    BY TextIs
  <2>3. c \in CharsOf(u \o v) <=> c # NL /\ \E p \in 1..(Len(u) + Len(v)) : (u \o v)[p] = c
    <3> DEFINE t == u \o v
    <3>1. t \in Text /\ Len(t) = Len(u) + Len(v)
      BY <1>2
    <3> HIDE DEF t
    <3>2. c \in CharsOf(t) <=> c # NL /\ \E p \in 1..(Len(u) + Len(v)) : t[p] = c
      BY <3>1, TextIs
    <3>3. QED
      BY <3>2 DEF t
  <2>4. (\E p \in 1..(Len(u) + Len(v)) : (u \o v)[p] = c)
          => (\E p \in 1..Len(u) : u[p] = c) \/ (\E p \in 1..Len(v) : v[p] = c)
    <3>1. SUFFICES ASSUME NEW p \in 1..(Len(u) + Len(v)), (u \o v)[p] = c
                   PROVE  (\E q \in 1..Len(u) : u[q] = c) \/ (\E q \in 1..Len(v) : v[q] = c)
      OBVIOUS
    <3>2. CASE p \in 1..Len(u)
      BY <1>2, <3>1, <3>2
    <3>3. CASE p - Len(u) \in 1..Len(v)
      <4>1. Len(u) + (p - Len(u)) = p
        BY <1>1
      <4>2. QED
        BY <1>2, <3>1, <3>3, <4>1
    <3>4. QED
      BY <1>3, <3>2, <3>3
  <2>5. \A p \in 1..Len(u) : p \in 1..(Len(u) + Len(v))
    BY <1>1
  <2>6. \A p \in 1..Len(v) : Len(u) + p \in 1..(Len(u) + Len(v))
    BY <1>1
  <2>7. (\E p \in 1..Len(u) : u[p] = c) => \E p \in 1..(Len(u) + Len(v)) : (u \o v)[p] = c
    BY <1>2, <2>5
  <2>8. (\E p \in 1..Len(v) : v[p] = c) => \E p \in 1..(Len(u) + Len(v)) : (u \o v)[p] = c
    BY <1>2, <2>6
  <2>9. QED
    BY <2>1, <2>2, <2>3, <2>4, <2>7, <2>8
<1>5. QED
  BY <1>2, <1>3, <1>4

LEMMA FitsMore ==
    ASSUME NEW A, NEW K, NEW L, NEW w, Fits(A, K, w), K \cap A \subseteq L
    PROVE  Fits(A, L, w)
BY DEF Fits

LEMMA FitsConcat ==
    ASSUME NEW A, NEW K, NEW u \in Text, NEW v \in Text, NL \notin A,
           Fits(A, K, u), Fits(A, K \cup CharsOf(u), v)
    PROVE  Fits(A, K, u \o v)
<1>1. SUFFICES ASSUME NEW p \in 1..(Len(u) + Len(v)), (u \o v)[p] # NL,
                      NEW c \in A, Earlier(c, (u \o v)[p])
               PROVE  c \in K \/ \E q \in 1..(p - 1) : (u \o v)[q] = c
  <2>1. DOMAIN (u \o v) = 1..(Len(u) + Len(v))
    BY ConcatIs, TextIs
  <2>2. QED
    BY <2>1 DEF Fits
<1>2. Len(u) \in Nat /\ Len(v) \in Nat /\ DOMAIN u = 1..Len(u) /\ DOMAIN v = 1..Len(v)
  BY TextIs
<1>3. CASE p \in 1..Len(u)
  <2>1. (u \o v)[p] = u[p]
    BY <1>3, ConcatIs
  <2>2. c \in K \/ \E q \in 1..(p - 1) : u[q] = c
    BY <1>1, <1>2, <1>3, <2>1 DEF Fits
  <2>3. \A q \in 1..(p - 1) : q \in 1..Len(u) /\ (u \o v)[q] = u[q]
    <3>1. \A q \in 1..(p - 1) : q \in 1..Len(u)
      BY <1>2, <1>3
    <3>2. QED
      BY <3>1, ConcatIs
  <2>4. QED
    BY <2>2, <2>3
<1>4. CASE p - Len(u) \in 1..Len(v)
  <2> DEFINE r == p - Len(u)
  <2>1. (u \o v)[p] = v[r]
    <3>1. Len(u) + r = p
      BY <1>2
    <3> HIDE DEF r
    <3>2. (u \o v)[Len(u) + r] = v[r]
      BY <1>4, ConcatIs DEF r
    <3>3. QED
      BY <3>1, <3>2
  <2>2. c \in K \cup CharsOf(u) \/ \E q \in 1..(r - 1) : v[q] = c
    <3>1. r \in DOMAIN v /\ v[r] # NL /\ Earlier(c, v[r])
      BY <1>1, <1>2, <1>4, <2>1
    <3> HIDE DEF r
    <3>2. QED
      BY <3>1 DEF Fits
  <2>3. CASE c \in CharsOf(u)
    <3>1. PICK q \in 1..Len(u) : u[q] = c
      BY <2>3, TextIs
    <3>2. q \in 1..(p - 1) /\ (u \o v)[q] = c
      BY <1>2, <1>4, <3>1, ConcatIs
    <3>3. QED
      BY <3>2
  <2>4. ASSUME NEW q \in 1..(r - 1), v[q] = c
        PROVE  \E x \in 1..(p - 1) : (u \o v)[x] = c
    <3>1. q \in 1..Len(v) /\ Len(u) + q \in 1..(p - 1)
      BY <1>2, <1>4
    <3>2. (u \o v)[Len(u) + q] = c
      BY <2>4, <3>1, ConcatIs
    <3>3. QED
      BY <3>1, <3>2
  <2>5. QED
    BY <2>2, <2>3, <2>4
<1>5. QED
  BY <1>2, <1>3, <1>4

LEMMA JoinIs ==
    ASSUME NEW u \in Text, NEW v \in Text
    PROVE  /\ Join(u, v) \in Text
           /\ CharsOf(Join(u, v)) = CharsOf(u) \cup CharsOf(v)
           /\ Len(u) <= Len(Join(u, v)) /\ Len(v) <= Len(Join(u, v))
           /\ Len(Join(u, v)) <= Len(u) + Len(v) + 2
           /\ u = <<>> => Join(u, v) = v
           /\ v = <<>> => Join(u, v) = u
           /\ u # <<>> /\ v # <<>> => Join(u, v) = (u \o Blank) \o v
<1>1. <<>> \in Text /\ Len(<<>>) = 0 /\ CharsOf(<<>>) = {}
  BY DEF Text, CharsOf, Range
<1>2. Blank \in Text /\ Len(Blank) = 2 /\ CharsOf(Blank) = {}
  <2>1. Blank \in Text /\ Len(Blank) = 2 /\ Blank[1] = NL /\ Blank[2] = NL
    BY DEF Blank, NL, Text, Char
  <2>2. \A p \in 1..2 : Blank[p] = NL
    BY <2>1
  <2> HIDE DEF Blank
  <2>3. QED
    BY <2>1, <2>2, TextIs
<1>3. Len(u) \in Nat /\ Len(v) \in Nat
  BY TextIs
<1>4. CASE u = <<>>
  BY <1>1, <1>3, <1>4 DEF Join
<1>5. CASE u # <<>> /\ v = <<>>
  BY <1>1, <1>3, <1>5 DEF Join
<1>6. CASE u # <<>> /\ v # <<>>
  <2>1. Join(u, v) = (u \o Blank) \o v
    BY <1>6 DEF Join
  <2>2. u \o Blank \in Text /\ Len(u \o Blank) = Len(u) + 2 /\ CharsOf(u \o Blank) = CharsOf(u)
    <3>1. u \o Blank \in Text /\ Len(u \o Blank) = Len(u) + Len(Blank)
          /\ CharsOf(u \o Blank) = CharsOf(u) \cup CharsOf(Blank)
      BY <1>2, ConcatIs
    <3>2. CharsOf(u) \cup {} = CharsOf(u)
      OBVIOUS
    <3>3. QED
      BY <1>2, <3>1, <3>2
  <2>3. /\ (u \o Blank) \o v \in Text
        /\ Len((u \o Blank) \o v) = Len(u) + 2 + Len(v)
        /\ CharsOf((u \o Blank) \o v) = CharsOf(u) \cup CharsOf(v)
    <3> DEFINE t == u \o Blank
    <3> HIDE DEF t
    <3>1. t \in Text /\ Len(t) = Len(u) + 2 /\ CharsOf(t) = CharsOf(u)
      BY <2>2 DEF t
    <3>2. t \o v \in Text /\ Len(t \o v) = Len(t) + Len(v) /\ CharsOf(t \o v) = CharsOf(t) \cup CharsOf(v)
      BY <3>1, ConcatIs
    <3>3. QED
      BY <3>1, <3>2 DEF t
  <2>4. QED
    BY <1>3, <1>6, <2>1, <2>3
<1>7. QED
  BY <1>4, <1>5, <1>6

LEMMA FitsJoin ==
    ASSUME NEW A, NEW K, NEW u \in Text, NEW v \in Text, NL \notin A,
           Fits(A, K, u), Fits(A, K \cup CharsOf(u), v)
    PROVE  Fits(A, K, Join(u, v))
<1>1. CASE u = <<>>
  <2>1. CharsOf(u) = {}
    BY <1>1 DEF CharsOf, Range
  <2>2. K \cup CharsOf(u) = K /\ Join(u, v) = v
    BY <1>1, <2>1, JoinIs
  <2>3. QED
    BY <2>2
<1>2. CASE u # <<>> /\ v = <<>>
  BY <1>2, JoinIs
<1>3. CASE u # <<>> /\ v # <<>>
  <2>1. Blank \in Text /\ Fits(A, K \cup CharsOf(u), Blank)
    BY DEF Blank, NL, Text, Char, Fits
  <2>2. u \o Blank \in Text /\ Fits(A, K, u \o Blank)
    BY <2>1, ConcatIs, FitsConcat
  <2>3. CharsOf(u \o Blank) = CharsOf(u)
    <3>1. \A p \in DOMAIN Blank : Blank[p] = NL
      BY DEF Blank
    <3>2. CharsOf(Blank) = {}
      BY <3>1 DEF CharsOf, Range
    <3>3. CharsOf(u \o Blank) = CharsOf(u) \cup CharsOf(Blank)
      BY <2>1, ConcatIs
    <3>4. QED
      BY <3>2, <3>3
  <2>4. Fits(A, K, (u \o Blank) \o v)
    BY <2>2, <2>3, FitsConcat
  <2>5. QED
    BY <1>3, <2>4, JoinIs
<1>4. QED
  BY <1>1, <1>2, <1>3

LEMMA SubIs ==
    ASSUME NEW s \in Text, NEW a \in Nat, NEW z \in Nat, 1 <= a, a <= z + 1, z <= Len(s)
    PROVE  /\ SubSeq(s, a, z) \in Text /\ Len(SubSeq(s, a, z)) = z - a + 1
           /\ \A p \in 1..(z - a + 1) : SubSeq(s, a, z)[p] = s[a - 1 + p]
           /\ CharsOf(SubSeq(s, a, z)) = {s[p] : p \in a..z} \ {NL}
<1> DEFINE t == SubSeq(s, a, z)
<1>1. /\ t \in Text /\ Len(t) = z - a + 1
      /\ \A p \in 1..(z - a + 1) : t[p] = s[a - 1 + p]
  BY DEF Text
<1> HIDE DEF t
<1>2. CharsOf(t) = {t[p] : p \in 1..(z - a + 1)} \ {NL}
  BY <1>1, TextIs
<1>3. \A p \in 1..(z - a + 1) : a - 1 + p \in a..z
  OBVIOUS
<1>4. \A p \in a..z : p - a + 1 \in 1..(z - a + 1) /\ a - 1 + (p - a + 1) = p
  OBVIOUS
<1>5. {t[p] : p \in 1..(z - a + 1)} \subseteq {s[p] : p \in a..z}
  BY <1>1, <1>3
<1>6. {s[p] : p \in a..z} \subseteq {t[p] : p \in 1..(z - a + 1)}
  <2>1. ASSUME NEW p \in a..z PROVE s[p] \in {t[x] : x \in 1..(z - a + 1)}
    <3>1. t[p - a + 1] = s[p] /\ p - a + 1 \in 1..(z - a + 1)
      BY <1>1, <1>4
    <3>2. QED
      BY <3>1
  <2>2. QED
    BY <2>1
<1>7. QED
  BY <1>1, <1>2, <1>5, <1>6 DEF t

\* Only blank lines are stripped, at both ends.
LEMMA StripIs ==
    ASSUME NEW s \in Text
    PROVE  /\ Strip(s) \in Text
           /\ CharsOf(Strip(s)) = CharsOf(s)
           /\ Len(Strip(s)) <= Len(s)
           /\ Strip(s) = <<>> <=> CharsOf(s) = {}
           /\ \A A, K : NL \notin A /\ Fits(A, K, s) => Fits(A, K, Strip(s))
           /\ CharsOf(s) # {} =>
                 \E a \in 1..Len(s), z \in 1..Len(s) :
                    /\ a <= z /\ Strip(s) = SubSeq(s, a, z)
                    /\ \A p \in 1..Len(s) : s[p] # NL => p \in a..z
<1> DEFINE kept == {i \in DOMAIN s : s[i] # NL}
<1>1. Len(s) \in Nat /\ DOMAIN s = 1..Len(s) /\ CharsOf(s) = {s[p] : p \in 1..Len(s)} \ {NL}
  BY TextIs
<1>2. kept \subseteq 0..Len(s) /\ kept \subseteq 1..Len(s) /\ (kept = {} <=> CharsOf(s) = {})
  <2>1. kept \subseteq 0..Len(s) /\ kept \subseteq 1..Len(s)
    BY <1>1
  <2>2. kept = {} <=> \A p \in 1..Len(s) : s[p] = NL
    BY <1>1
  <2>3. CharsOf(s) = {} <=> \A p \in 1..Len(s) : s[p] = NL
    BY <1>1
  <2> HIDE DEF kept
  <2>4. QED
    BY <2>1, <2>2, <2>3
<1>3. CASE kept = {}
  <2>1. Strip(s) = <<>>
    BY <1>3 DEF Strip
  <2>2. <<>> \in Text /\ Len(<<>>) = 0 /\ CharsOf(<<>>) = {} /\ \A A, K : Fits(A, K, <<>>)
    BY DEF Text, CharsOf, Range, Fits
  <2> HIDE DEF kept
  <2>3. CharsOf(s) = {}
    BY <1>2, <1>3
  <2>4. \A A, K : Fits(A, K, Strip(s))
    BY <2>1, <2>2
  <2>5. Strip(s) \in Text /\ CharsOf(Strip(s)) = {} /\ Len(Strip(s)) <= Len(s)
    BY <1>1, <2>1, <2>2
  <2>6. QED
    BY <2>1, <2>3, <2>4, <2>5
<1>4. CASE kept # {}
  <2> DEFINE a == Min(kept)
             z == Max(kept)
             t == SubSeq(s, a, z)
  <2>1. Strip(s) = t
    BY <1>4 DEF Strip
  <2>2. /\ a \in kept /\ \A p \in kept : a <= p
        /\ z \in kept /\ \A p \in kept : p <= z
    <3> HIDE DEF kept
    <3>1. kept \in SUBSET Nat /\ kept \in SUBSET (0..Len(s))
      BY <1>1, <1>2
    <3>2. QED
      BY <1>1, <1>4, <3>1, MinIs, MaxIs
  <2>3. a \in 1..Len(s) /\ z \in 1..Len(s) /\ a <= z /\ \A p \in 1..Len(s) : s[p] # NL => p \in a..z
    <3>1. a \in 1..Len(s) /\ z \in 1..Len(s) /\ a <= z
      <4> HIDE DEF kept, a, z
      <4>1. QED
        BY <1>1, <1>2, <2>2
    <3>2. \A p \in 1..Len(s) : s[p] # NL => p \in kept
      BY <1>1
    <3> HIDE DEF kept, a, z
    <3>3. QED
      BY <1>1, <2>2, <3>1, <3>2
  <2> HIDE DEF a, z
  <2>4. /\ t \in Text /\ Len(t) = z - a + 1
        /\ \A p \in 1..(z - a + 1) : t[p] = s[a - 1 + p]
        /\ CharsOf(t) = {s[p] : p \in a..z} \ {NL}
    BY <1>1, <2>3, SubIs
  <2> HIDE DEF t
  <2>5. CharsOf(t) = CharsOf(s) /\ Len(t) <= Len(s)
    <3>1. \A p \in a..z : p \in 1..Len(s)
      BY <1>1, <2>3
    <3>2. {s[p] : p \in a..z} \ {NL} = {s[p] : p \in 1..Len(s)} \ {NL}
      BY <2>3, <3>1
    <3>3. QED
      BY <1>1, <2>3, <2>4, <3>2
  <2>6. t # <<>> /\ CharsOf(s) # {}
    BY <1>1, <1>2, <1>4, <2>3, <2>4
  <2>7. ASSUME NEW A, NEW K, NL \notin A, Fits(A, K, s)
        PROVE  Fits(A, K, t)
    <3>1. SUFFICES ASSUME NEW p \in 1..(z - a + 1), t[p] # NL, NEW c \in A, Earlier(c, t[p])
                   PROVE  c \in K \/ \E q \in 1..(p - 1) : t[q] = c
      <4>1. DOMAIN t = 1..(z - a + 1)
        BY <2>4, TextIs
      <4>2. QED
        BY <4>1 DEF Fits
    <3>2. a - 1 + p \in 1..Len(s) /\ t[p] = s[a - 1 + p]
      BY <1>1, <2>3, <2>4
    <3>3. c \in K \/ \E q \in 1..((a - 1 + p) - 1) : s[q] = c
      BY <1>1, <2>7, <3>1, <3>2 DEF Fits
    <3>4. ASSUME NEW q \in 1..((a - 1 + p) - 1), s[q] = c
          PROVE  \E x \in 1..(p - 1) : t[x] = c
      <4>1. q \in a..z
        <5>1. q \in 1..Len(s) /\ c # NL
          BY <1>1, <2>3, <2>7, <3>4
        <5>2. QED
          BY <2>3, <3>4, <5>1
      <4>2. q - a + 1 \in 1..(p - 1) /\ q - a + 1 \in 1..(z - a + 1) /\ a - 1 + (q - a + 1) = q
        BY <1>1, <2>3, <3>4, <4>1
      <4>3. t[q - a + 1] = c
        BY <2>4, <3>4, <4>2
      <4>4. QED
        BY <4>2, <4>3
    <3>5. QED
      BY <3>3, <3>4
  <2>8. \E x \in 1..Len(s), y \in 1..Len(s) :
           /\ x <= y /\ t = SubSeq(s, x, y)
           /\ \A p \in 1..Len(s) : s[p] # NL => p \in x..y
    BY <2>3 DEF t
  <2> HIDE DEF kept
  <2>9. QED
    BY <2>1, <2>4, <2>5, <2>6, <2>7, <2>8
<1>5. QED
  BY <1>3, <1>4

LEMMA OverlapIs ==
    ASSUME NEW s \in Text, overlap \in Nat \ {0}
    PROVE  /\ GetOverlap(s) \in Text /\ Len(GetOverlap(s)) <= overlap
           /\ CharsOf(GetOverlap(s)) \subseteq CharsOf(s)
<1>1. Len(s) \in Nat
  BY TextIs
<1>2. CASE Len(s) > overlap
  <2> DEFINE a == Len(s) - overlap + 1
  <2>1. a \in Nat /\ 1 <= a /\ a <= Len(s) + 1 /\ Len(s) - a + 1 = overlap
    BY <1>1, <1>2
  <2>2. GetOverlap(s) = SubSeq(s, a, Len(s))
    BY <1>2 DEF GetOverlap
  <2> HIDE DEF a
  <2>3. /\ SubSeq(s, a, Len(s)) \in Text /\ Len(SubSeq(s, a, Len(s))) = overlap
        /\ CharsOf(SubSeq(s, a, Len(s))) = {s[p] : p \in a..Len(s)} \ {NL}
    BY <1>1, <2>1, SubIs
  <2>4. \A p \in a..Len(s) : p \in 1..Len(s)
    BY <1>1, <2>1
  <2>5. CharsOf(s) = {s[p] : p \in 1..Len(s)} \ {NL}
    BY TextIs
  <2>6. QED
    BY <2>2, <2>3, <2>4, <2>5
<1>3. CASE ~(Len(s) > overlap)
  BY <1>1, <1>3 DEF GetOverlap
<1>4. QED
  BY <1>2, <1>3

-----------------------------------------------------------------------------
(* The sliding window. *)

\* The sizes a document is cut with.
Sizes ==
    /\ overlap \in Nat \ {0} /\ target \in Nat \ {0} /\ max \in Nat
    /\ target <= max

LEMMA CutIs ==
    ASSUME Sizes, NEW start \in Nat, NEW breaks \in SUBSET (Nat \X (1..4))
    PROVE  Cut(start, breaks) \in Nat /\ start < Cut(start, breaks) /\ Cut(start, breaks) <= start + max
<1> DEFINE within == {b \in breaks : start < b[1] /\ b[1] <= start + max}
           late == {b \in within : b[1] >= start + target}
           top == {b \in late : \A c \in late : c[2] <= b[2]}
<1>1. ASSUME NEW S \in SUBSET within, S # {}
      PROVE  /\ {b[1] : b \in S} \in SUBSET (0..(start + max)) /\ {b[1] : b \in S} # {}
             /\ \A x \in {b[1] : b \in S} : x \in Nat /\ start < x /\ x <= start + max
  <2>1. \A b \in S : b[1] \in Nat /\ start < b[1] /\ b[1] <= start + max
    BY <1>1
  <2>2. start + max \in Nat
    BY DEF Sizes
  <2>3. QED
    BY <1>1, <2>1, <2>2
<1>2. CASE late # {}
  <2> DEFINE ranks == {c[2] : c \in late}
  <2>1. ranks \in SUBSET (0..4) /\ ranks # {} /\ 4 \in Nat
    <3>1. \A c \in late : c[2] \in 1..4
      OBVIOUS
    <3> HIDE DEF late
    <3>2. QED
      BY <1>2, <3>1
  <2>2. PICK r \in ranks : \A q \in ranks : q <= r
    <3> HIDE DEF ranks
    <3>1. QED
      BY <2>1, GreatestNumber
  <2>3. top # {}
    <3> HIDE DEF late
    <3>1. PICK c \in late : c[2] = r
      OBVIOUS
    <3>2. \A e \in late : e[2] <= c[2]
      BY <2>2, <3>1
    <3>3. QED
      BY <3>2
  <2>4. top \in SUBSET within
    OBVIOUS
  <2>5. Cut(start, breaks) = Min({b[1] : b \in top})
    BY <1>2 DEF Cut
  <2> HIDE DEF top, within, late
  <2> DEFINE P == {b[1] : b \in top}
  <2>6. /\ P \in SUBSET (0..(start + max)) /\ P # {}
        /\ \A x \in P : x \in Nat /\ start < x /\ x <= start + max
    BY <1>1, <2>3, <2>4
  <2> HIDE DEF P
  <2>7. P \in SUBSET Nat
    BY <2>6
  <2>8. Min(P) \in P
    BY <2>6, <2>7, MinIs
  <2>9. Cut(start, breaks) = Min(P)
    BY <2>5 DEF P
  <2>10. QED
    BY <2>6, <2>8, <2>9
<1>3. CASE within # {} /\ late = {}
  <2>1. Cut(start, breaks) = Max({b[1] : b \in within})
    BY <1>3 DEF Cut
  <2> DEFINE P == {b[1] : b \in within}
  <2>2. /\ P \in SUBSET (0..(start + max)) /\ P # {}
        /\ \A x \in P : x \in Nat /\ start < x /\ x <= start + max
    <3> HIDE DEF within, late
    <3>1. QED
      BY <1>1, <1>3
  <2> HIDE DEF P
  <2>3. Max(P) \in P
    <3>1. start + max \in Nat
      BY DEF Sizes
    <3>2. QED
      BY <2>2, <3>1, MaxIs
  <2>4. Cut(start, breaks) = Max(P)
    BY <2>1 DEF P
  <2>5. QED
    BY <2>2, <2>3, <2>4
<1>4. CASE within = {}
  <2>1. late = {}
    BY <1>4
  <2>2. Cut(start, breaks) = start + max
    BY <1>4, <2>1 DEF Cut
  <2>3. QED
    BY <2>2 DEF Sizes
<1>5. QED
  BY <1>2, <1>3, <1>4

LEMMA WindowEndIs ==
    ASSUME Sizes, NEW text \in Text, NEW start \in 0..Len(text), NEW breaks \in SUBSET (Nat \X (1..4))
    PROVE  /\ WindowEnd(start, text, breaks) \in 0..Len(text)
           /\ start < Len(text) => start < WindowEnd(start, text, breaks)
           /\ start = Len(text) => WindowEnd(start, text, breaks) = Len(text)
           /\ WindowEnd(start, text, breaks) <= start + max
<1>1. Len(text) \in Nat /\ start \in Nat
  BY TextIs
<1>2. Cut(start, breaks) \in Nat /\ start < Cut(start, breaks) /\ Cut(start, breaks) <= start + max
  BY <1>1, CutIs
<1>3. CASE start + target >= Len(text)
  BY <1>1, <1>3 DEF WindowEnd, Sizes
<1>4. CASE ~(start + target >= Len(text))
  <2>1. WindowEnd(start, text, breaks) = IF Cut(start, breaks) <= Len(text) THEN Cut(start, breaks) ELSE Len(text)
    BY <1>1, <1>2, <1>4, MinOfTwo DEF WindowEnd
  <2>2. start # Len(text)
    BY <1>1, <1>4 DEF Sizes
  <2>3. QED
    BY <1>1, <1>2, <2>1, <2>2 DEF Sizes
<1>5. QED
  BY <1>3, <1>4

\* The windows of a text follow each other without a gap and without end, but
\* that of the text; each has the end of the one before in front of it.
LEMMA SlideIs ==
    ASSUME Sizes, NEW text \in Text, text # <<>>, NEW breaks \in SUBSET (Nat \X (1..4))
    PROVE  \E end \in [0..Len(text) -> 0..Len(text)], last \in 1..Len(text) :
              /\ end[0] = 0 /\ end[last] = Len(text)
              /\ \A k \in 1..last : end[k - 1] < end[k] /\ end[k] <= end[k - 1] + max
              /\ Slide(text, breaks) =
                    [k \in 1..last |-> (IF k = 1 THEN <<>> ELSE GetOverlap(SubSeq(text, end[k - 2] + 1, end[k - 1])))
                                         \o SubSeq(text, end[k - 1] + 1, end[k])]
<1> DEFINE L == Len(text)
<1>1. L \in Nat \ {0}
  BY DEF Text
<1> DEFINE step == [x \in (1..L) \X (0..L) |-> WindowEnd(x[2], text, breaks)]
           end == CHOOSE g : g = [k \in 0..Len(text) |-> IF k = 0 THEN 0 ELSE WindowEnd(g[k - 1], text, breaks)]
           final == Min({k \in 1..Len(text) : end[k] = Len(text)})
<1>2. Slide(text, breaks) =
         [k \in 1..final |-> (IF k = 1 THEN <<>> ELSE GetOverlap(SubSeq(text, end[(k - 1) - 1] + 1, end[k - 1])))
                               \o SubSeq(text, end[k - 1] + 1, end[k])]
  BY DEF Slide
<1>3. /\ end \in [0..L -> 0..L] /\ end[0] = 0
      /\ \A k \in 1..L : end[k] = WindowEnd(end[k - 1], text, breaks)
  <2>1. step \in Steps(L, 0..L)
    <3>1. ASSUME NEW x \in (1..L) \X (0..L) PROVE WindowEnd(x[2], text, breaks) \in 0..L
      <4>1. x[2] \in 0..Len(text)
        OBVIOUS
      <4>2. QED
        BY <4>1, WindowEndIs
    <3>2. QED
      BY <3>1 DEF Steps
  <2>2. PICK f \in [0..L -> 0..L] : f[0] = 0 /\ \A i \in 1..L : f[i] = step[<<i, f[i - 1]>>]
    <3> DEFINE V == 0..L
    <3>1. 0 \in V /\ L \in Nat /\ step \in Steps(L, V)
      BY <1>1, <2>1
    <3> HIDE DEF step, L, V
    <3>2. \E f \in [0..L -> V] : f[0] = 0 /\ \A i \in 1..L : f[i] = step[<<i, f[i - 1]>>]
      BY <3>1, Recursion
    <3>3. QED
      BY <3>2 DEF V
  <2>3. \A i \in 1..L : f[i] = WindowEnd(f[i - 1], text, breaks)
    <3>1. TAKE i \in 1..L
    <3>2. f[i - 1] \in 0..L
      BY <1>1, <2>2
    <3>3. <<i, f[i - 1]>> \in (1..L) \X (0..L)
      BY <3>2
    <3>4. QED
      BY <2>2, <3>3
  <2>4. f = [k \in 0..L |-> IF k = 0 THEN 0 ELSE WindowEnd(f[k - 1], text, breaks)]
    BY <1>1, <2>2, <2>3
  <2>5. end = [k \in 0..L |-> IF k = 0 THEN 0 ELSE WindowEnd(end[k - 1], text, breaks)]
    BY <2>4
  <2> HIDE DEF end
  <2>6. end[0] = 0 /\ \A k \in 1..L : end[k] = WindowEnd(end[k - 1], text, breaks)
    BY <1>1, <2>5
  <2> DEFINE Astray == {k \in 0..L : end[k] \notin 0..L}
  <2>7. Astray = {}
    <3>1. SUFFICES ASSUME Astray # {} PROVE FALSE
      OBVIOUS
    <3>2. Astray \in SUBSET Nat
      BY <1>1
    <3>3. PICK k \in Astray : \A m \in Astray : k <= m
      <4> HIDE DEF Astray
      <4>1. QED
        BY <3>1, <3>2, LeastNumber
    <3>4. k # 0
      BY <1>1, <2>6, <3>3
    <3>5. k \in 1..L /\ k - 1 \in 0..L /\ k - 1 \notin Astray
      BY <1>1, <3>3, <3>4
    <3>6. end[k - 1] \in 0..Len(text)
      BY <3>5
    <3>7. end[k] \in 0..Len(text)
      BY <2>6, <3>5, <3>6, WindowEndIs
    <3>8. QED
      BY <3>3, <3>7
  <2>8. end \in [0..L -> 0..L]
    BY <2>5, <2>7
  <2>9. QED
    BY <2>6, <2>8
<1> HIDE DEF end
<1>4. \A k \in 1..L : /\ k - 1 \in 0..L /\ end[k - 1] \in 0..L /\ end[k] \in 0..L
                      /\ end[k - 1] < L => end[k - 1] < end[k]
                      /\ end[k - 1] = L => end[k] = L
                      /\ end[k] <= end[k - 1] + max
  <2>1. TAKE k \in 1..L
  <2>2. k - 1 \in 0..L /\ end[k - 1] \in 0..L /\ end[k] \in 0..L
    BY <1>1, <1>3
  <2>3. QED
    BY <1>3, <2>2, WindowEndIs
<1> HIDE DEF L
<1>5. \A k \in 0..L : k <= end[k]
  <2> DEFINE Slow == {k \in 0..L : ~(k <= end[k])}
  <2>1. SUFFICES ASSUME Slow # {} PROVE FALSE
    OBVIOUS
  <2>2. Slow \in SUBSET Nat
    BY <1>1
  <2>3. PICK k \in Slow : \A m \in Slow : k <= m
    <3> HIDE DEF Slow
    <3>1. QED
      BY <2>1, <2>2, LeastNumber
  <2>4. k \in 1..L /\ k - 1 \in 0..L /\ k - 1 \notin Slow
    BY <1>1, <1>3, <2>3
  <2>5. k - 1 <= end[k - 1]
    BY <2>4
  <2>6. k <= end[k]
    BY <1>1, <1>4, <2>4, <2>5
  <2>7. QED
    BY <2>3, <2>6
<1> DEFINE Ends == {k \in 1..Len(text) : end[k] = Len(text)}
<1>6. Ends \in SUBSET Nat /\ Ends # {}
  <2>1. L \in 1..L /\ end[L] = L
    <3>1. L \in 1..L /\ L \in 0..L
      BY <1>1
    <3>2. L <= end[L] /\ end[L] \in 0..L
      BY <1>3, <1>5, <3>1
    <3>3. QED
      BY <1>1, <3>1, <3>2
  <2>2. L \in Ends
    BY <2>1 DEF L
  <2>3. Ends \in SUBSET Nat
    BY <1>1
  <2> HIDE DEF Ends
  <2>4. QED
    BY <2>2, <2>3
<1>7. final \in Ends /\ \A m \in Ends : final <= m
  <2> HIDE DEF Ends
  <2>1. Min(Ends) \in Ends /\ \A m \in Ends : Min(Ends) <= m
    BY <1>6, MinIs
  <2>2. QED
    BY <2>1 DEF Ends
<1> HIDE DEF final
<1>8. final \in 1..L /\ end[final] = L
  BY <1>7 DEF L
<1>9. ASSUME NEW k \in 1..final
      PROVE  end[k - 1] < end[k] /\ end[k] <= end[k - 1] + max
  <2>1. k \in 1..L
    BY <1>1, <1>8
  <2>2. end[k - 1] # L
    <3>1. CASE k = 1
      BY <1>1, <1>3, <3>1
    <3>2. CASE k # 1
      <4>1. k - 1 \in 1..L /\ ~(final <= k - 1)
        BY <1>1, <1>8, <2>1, <3>2
      <4>2. k - 1 \notin Ends
        BY <1>7, <4>1
      <4>3. QED
        BY <4>1, <4>2 DEF L
    <3>3. QED
      BY <3>1, <3>2
  <2>3. QED
    BY <1>1, <1>4, <2>1, <2>2
<1>10. Slide(text, breaks) =
         [k \in 1..final |-> (IF k = 1 THEN <<>> ELSE GetOverlap(SubSeq(text, end[k - 2] + 1, end[k - 1])))
                               \o SubSeq(text, end[k - 1] + 1, end[k])]
  <2>1. \A k \in 1..final : (k - 1) - 1 = k - 2
    BY <1>1, <1>8
  <2>2. QED
    BY <1>2, <2>1
<1>11. QED
  BY <1>3, <1>8, <1>9, <1>10 DEF L

-----------------------------------------------------------------------------
(* Chunks one after the other. *)

\* The characters of some chunks, and of those before the kth.
Known(r) == UNION {CharsOf(r[j]) : j \in DOMAIN r}
Before(r, k) == UNION {CharsOf(r[j]) : j \in 1..(k - 1)}

\* Each chunk can follow those before it.
Orderly(A, r) == \A k \in DOMAIN r : Fits(A, Before(r, k), r[k])

LEMMA ChunksAre ==
    ASSUME NEW r \in Seq(Text)
    PROVE  /\ Len(r) \in Nat /\ DOMAIN r = 1..Len(r)
           /\ \A k \in 1..Len(r) : r[k] \in Text
           /\ \A c : c \in Known(r) <=> \E k \in 1..Len(r) : c \in CharsOf(r[k])
           /\ \A k \in 1..(Len(r) + 1) : \A c : c \in Before(r, k) <=> \E j \in 1..(k - 1) : c \in CharsOf(r[j])
           /\ Before(r, Len(r) + 1) = Known(r)
           /\ \A k \in 1..(Len(r) + 1) : Before(r, k) \subseteq Known(r)
<1>1. Len(r) \in Nat /\ DOMAIN r = 1..Len(r) /\ \A k \in 1..Len(r) : r[k] \in Text
  OBVIOUS
<1>2. \A c : c \in Known(r) <=> \E k \in 1..Len(r) : c \in CharsOf(r[k])
  BY <1>1 DEF Known
<1>3. \A k, c : c \in Before(r, k) <=> \E j \in 1..(k - 1) : c \in CharsOf(r[j])
  BY DEF Before
<1>4. Before(r, Len(r) + 1) = Known(r)
  <2>1. (Len(r) + 1) - 1 = Len(r)
    BY <1>1
  <2>2. QED
    BY <1>2, <1>3, <2>1
<1>5. \A k \in 1..(Len(r) + 1) : Before(r, k) \subseteq Known(r)
  <2>1. \A k \in 1..(Len(r) + 1) : \A j \in 1..(k - 1) : j \in 1..Len(r)
    BY <1>1
  <2>2. QED
    BY <1>2, <1>3, <2>1
<1>6. QED
  BY <1>1, <1>2, <1>3, <1>4, <1>5

\* What was known can be said again.
LEMMA KnownFits ==
    ASSUME NEW A, NL \notin A, NEW r \in Seq(Text), Orderly(A, r),
           NEW w \in Text, CharsOf(w) \subseteq Known(r)
    PROVE  Fits(A, Known(r), w)
<1>1. SUFFICES ASSUME NEW x \in Known(r), NEW c \in A, Earlier(c, x)
               PROVE  c \in Known(r)
  <2>1. \A p \in DOMAIN w : w[p] # NL => w[p] \in Known(r)
    BY TextIs
  <2>2. QED
    BY <2>1 DEF Fits
<1>2. PICK k \in 1..Len(r) : x \in CharsOf(r[k])
  BY ChunksAre
<1>3. r[k] \in Text /\ k \in DOMAIN r /\ k \in 1..(Len(r) + 1)
  BY ChunksAre
<1>4. PICK p \in 1..Len(r[k]) : r[k][p] = x /\ x # NL
  BY <1>2, <1>3, TextIs
<1>5. c \in Before(r, k) \/ \E q \in 1..(p - 1) : r[k][q] = c
  <2>1. p \in DOMAIN r[k]
    BY <1>3, TextIs
  <2>2. QED
    BY <1>1, <1>3, <1>4, <2>1 DEF Orderly, Fits
<1>6. CASE c \in Before(r, k)
  BY <1>3, <1>6, ChunksAre
<1>7. ASSUME NEW q \in 1..(p - 1), r[k][q] = c
      PROVE  c \in Known(r)
  <2>1. Len(r[k]) \in Nat
    BY <1>3, TextIs
  <2>2. q \in 1..Len(r[k]) /\ c # NL
    BY <1>4, <2>1
  <2>3. c \in CharsOf(r[k])
    BY <1>3, <1>7, <2>2, TextIs
  <2>4. QED
    BY <2>3, ChunksAre
<1>8. QED
  BY <1>5, <1>6, <1>7

LEMMA MoreChunks ==
    ASSUME NEW A, NEW r \in Seq(Text), NEW more \in Seq(Text), Orderly(A, r),
           \A i \in DOMAIN more : Fits(A, Known(r) \cup Before(more, i), more[i])
    PROVE  /\ r \o more \in Seq(Text) /\ Orderly(A, r \o more)
           /\ Known(r \o more) = Known(r) \cup Known(more)
<1> DEFINE t == r \o more
<1>1. Len(r) \in Nat /\ Len(more) \in Nat /\ DOMAIN r = 1..Len(r) /\ DOMAIN more = 1..Len(more)
  BY ChunksAre
<1>2. /\ t \in Seq(Text) /\ Len(t) = Len(r) + Len(more)
      /\ \A k \in 1..Len(r) : t[k] = r[k]
      /\ \A i \in 1..Len(more) : t[Len(r) + i] = more[i]
  BY <1>1
<1> HIDE DEF t
<1>3. Len(t) \in Nat /\ DOMAIN t = 1..Len(t)
  BY <1>2, ChunksAre
<1>4. \A k \in 1..Len(t) : k \in 1..Len(r) \/ (k - Len(r) \in 1..Len(more) /\ Len(r) + (k - Len(r)) = k)
  BY <1>1, <1>2
<1>5. \A k \in 1..Len(r) : k \in 1..Len(t) /\ k \in 1..(Len(t) + 1) /\ k \in 1..(Len(r) + 1)
  BY <1>1, <1>2
<1>6. \A i \in 1..Len(more) : Len(r) + i \in 1..Len(t) /\ Len(r) + i \in 1..(Len(t) + 1) /\ i \in 1..(Len(more) + 1)
  BY <1>1, <1>2
<1>7. ASSUME NEW c
      PROVE  c \in Known(t) <=> c \in Known(r) \cup Known(more)
  <2>1. c \in Known(r) <=> \E k \in 1..Len(r) : c \in CharsOf(r[k])
    BY ChunksAre
  <2>2. c \in Known(more) <=> \E k \in 1..Len(more) : c \in CharsOf(more[k])
    BY ChunksAre
  <2>3. c \in Known(t) <=> \E k \in 1..Len(t) : c \in CharsOf(t[k])
    BY <1>2, ChunksAre
  <2>4. (\E k \in 1..Len(t) : c \in CharsOf(t[k])) => c \in Known(r) \/ c \in Known(more)
    <3>1. SUFFICES ASSUME NEW k \in 1..Len(t), c \in CharsOf(t[k])
                   PROVE  (\E j \in 1..Len(r) : c \in CharsOf(r[j])) \/ \E j \in 1..Len(more) : c \in CharsOf(more[j])
      BY <2>1, <2>2
    <3>2. CASE k \in 1..Len(r)
      BY <1>2, <3>1, <3>2
    <3>3. CASE k - Len(r) \in 1..Len(more) /\ Len(r) + (k - Len(r)) = k
      BY <1>2, <3>1, <3>3
    <3>4. QED
      BY <1>4, <3>2, <3>3
  <2>5. c \in Known(r) => c \in Known(t)
    BY <1>2, <1>5, <2>1, <2>3
  <2>6. c \in Known(more) => c \in Known(t)
    BY <1>2, <1>6, <2>2, <2>3
  <2>7. QED
    BY <2>3, <2>4, <2>5, <2>6
<1>8. ASSUME NEW k \in 1..Len(r)
      PROVE  Fits(A, Before(t, k), t[k])
  <2>1. Fits(A, Before(r, k), r[k]) /\ t[k] = r[k]
    BY <1>1, <1>2 DEF Orderly
  <2>2. \A c : c \in Before(r, k) => c \in Before(t, k)
    <3>1. \A j \in 1..(k - 1) : j \in 1..Len(r)
      BY <1>1
    <3>2. \A j \in 1..(k - 1) : t[j] = r[j]
      BY <1>2, <3>1
    <3>3. \A c : c \in Before(r, k) => \E j \in 1..(k - 1) : c \in CharsOf(r[j])
      BY <1>5, ChunksAre
    <3>4. \A c : c \in Before(r, k) => \E j \in 1..(k - 1) : c \in CharsOf(t[j])
      BY <3>2, <3>3
    <3>5. QED
      BY <1>2, <1>5, <3>4, ChunksAre
  <2>3. QED
    BY <2>1, <2>2, FitsMore
<1>9. ASSUME NEW i \in 1..Len(more)
      PROVE  Fits(A, Before(t, Len(r) + i), t[Len(r) + i])
  <2>1. Fits(A, Known(r) \cup Before(more, i), more[i]) /\ t[Len(r) + i] = more[i]
    BY <1>1, <1>2
  <2> DEFINE k == Len(r) + i
  <2>2. k \in 1..(Len(t) + 1)
    BY <1>6
  <2>3. \A c : c \in Known(r) => c \in Before(t, k)
    <3>1. \A j \in 1..Len(r) : j \in 1..(k - 1) /\ t[j] = r[j]
      BY <1>1, <1>2
    <3> HIDE DEF k
    <3>2. \A c : c \in Known(r) => \E j \in 1..(k - 1) : c \in CharsOf(t[j])
      BY <3>1, ChunksAre
    <3>3. QED
      BY <1>2, <2>2, <3>2, ChunksAre
  <2>4. \A c : c \in Before(more, i) => c \in Before(t, k)
    <3>1. \A j \in 1..(i - 1) : j \in 1..Len(more) /\ Len(r) + j \in 1..(k - 1)
      BY <1>1
    <3>2. \A j \in 1..(i - 1) : t[Len(r) + j] = more[j]
      BY <1>2, <3>1
    <3> HIDE DEF k
    <3>3. \A c : c \in Before(more, i) => \E j \in 1..(i - 1) : c \in CharsOf(more[j])
      BY <1>6, ChunksAre
    <3>4. \A c : c \in Before(more, i) => \E j \in 1..(k - 1) : c \in CharsOf(t[j])
      BY <3>1, <3>2, <3>3
    <3>5. QED
      BY <1>2, <2>2, <3>4, ChunksAre
  <2>5. QED
    BY <2>1, <2>3, <2>4, FitsMore
<1>10. Orderly(A, t)
  <2>1. ASSUME NEW k \in 1..Len(t) PROVE Fits(A, Before(t, k), t[k])
    <3>1. CASE k \in 1..Len(r)
      BY <1>8, <3>1
    <3>2. CASE k - Len(r) \in 1..Len(more) /\ Len(r) + (k - Len(r)) = k
      <4> DEFINE i == k - Len(r)
      <4>1. i \in 1..Len(more) /\ Len(r) + i = k
        BY <3>2
      <4> HIDE DEF i
      <4>2. Fits(A, Before(t, Len(r) + i), t[Len(r) + i])
        BY <1>9, <4>1
      <4>3. QED
        BY <4>1, <4>2
    <3>3. QED
      BY <1>4, <3>1, <3>2
  <2>2. QED
    BY <1>3, <2>1 DEF Orderly
<1>11. QED
  BY <1>2, <1>7, <1>10 DEF t

LEMMA OneMoreChunk ==
    ASSUME NEW A, NEW r \in Seq(Text), NEW w \in Text, Orderly(A, r), Fits(A, Known(r), w)
    PROVE  /\ Append(r, w) \in Seq(Text) /\ Orderly(A, Append(r, w))
           /\ Known(Append(r, w)) = Known(r) \cup CharsOf(w)
<1> DEFINE more == <<w>>
<1>1. more \in Seq(Text) /\ Len(more) = 1 /\ DOMAIN more = 1..1 /\ more[1] = w /\ Append(r, w) = r \o more
  OBVIOUS
<1> HIDE DEF more
<1>2. Known(more) = CharsOf(w)
  BY <1>1 DEF Known
<1>3. \A i \in DOMAIN more : Fits(A, Known(r) \cup Before(more, i), more[i])
  <2>1. ASSUME NEW i \in 1..1 PROVE Fits(A, Known(r) \cup Before(more, i), more[i])
    BY <1>1, FitsMore
  <2>2. QED
    BY <1>1, <2>1
<1>4. /\ r \o more \in Seq(Text) /\ Orderly(A, r \o more)
      /\ Known(r \o more) = Known(r) \cup Known(more)
  BY <1>1, <1>3, MoreChunks
<1>5. QED
  BY <1>1, <1>2, <1>4

-----------------------------------------------------------------------------
(* Documents of blocks. *)

\* The characters of the first b blocks, and of those before b with the first e
\* of b.
CharsUpTo(d, b) == {c \in Char : c[1] \in 1..b /\ c[2] \in 1..d.blocks[c[1]].len}
Initial(d, b, e) ==
    {c \in Char : c[1] \in 1..(b - 1) /\ c[2] \in 1..d.blocks[c[1]].len} \cup {<<b, i>> : i \in 1..e}

Mixed(d) == d \in Document /\ ~IsTable(d)
AllChars(d) == CharsUpTo(d, Len(d.blocks))

LEMMA BlocksAre ==
    ASSUME NEW d, Mixed(d)
    PROVE  /\ d.blocks \in Seq(Block) /\ Len(d.blocks) \in Nat
           /\ \A b \in 1..Len(d.blocks) :
                 /\ d.blocks[b].len \in Nat \ {0} /\ d.blocks[b].table \in BOOLEAN
                 /\ d.blocks[b].breaks \in SUBSET (Nat \X (1..4))
           /\ NL \notin AllChars(d)
<1>1. d.blocks \in Seq(Block)
  BY DEF Mixed, Document, IsTable
<1>2. \A b \in 1..Len(d.blocks) : d.blocks[b] \in Block
  BY <1>1
<1>3. NL \notin AllChars(d)
  BY DEF NL, AllChars, CharsUpTo
<1>4. QED
  BY <1>1, <1>2, <1>3 DEF Block

LEMMA BlockText ==
    ASSUME NEW b \in Nat \ {0}, NEW len \in Nat
    PROVE  /\ TextOf(b, len) \in Text /\ Len(TextOf(b, len)) = len
           /\ \A i \in 1..len : TextOf(b, len)[i] = <<b, i>> /\ <<b, i>> # NL
           /\ CharsOf(TextOf(b, len)) = {<<b, i>> : i \in 1..len}
<1> DEFINE t == TextOf(b, len)
<1>1. t = [i \in 1..len |-> <<b, i>>]
  BY DEF TextOf
<1>2. \A i \in 1..len : <<b, i>> \in Char /\ <<b, i>> # NL
  BY DEF Char, NL
<1>3. t \in Text /\ Len(t) = len /\ \A i \in 1..len : t[i] = <<b, i>>
  BY <1>1, <1>2 DEF Text
<1> HIDE DEF t
<1>4. CharsOf(t) = {t[i] : i \in 1..len} \ {NL}
  BY <1>3, TextIs
<1>5. CharsOf(t) = {<<b, i>> : i \in 1..len}
  BY <1>2, <1>3, <1>4
<1>6. QED
  BY <1>2, <1>3, <1>5 DEF t

LEMMA CharsGrow ==
    ASSUME NEW d, Mixed(d), NEW b \in 1..Len(d.blocks)
    PROVE  /\ CharsUpTo(d, b) = CharsUpTo(d, b - 1) \cup CharsOf(TextOf(b, d.blocks[b].len))
           /\ Initial(d, b, 0) = CharsUpTo(d, b - 1)
           /\ Initial(d, b, d.blocks[b].len) = CharsUpTo(d, b)
<1>1. b \in Nat \ {0} /\ d.blocks[b].len \in Nat
  BY BlocksAre
<1>2. CharsOf(TextOf(b, d.blocks[b].len)) = {<<b, i>> : i \in 1..d.blocks[b].len}
  BY <1>1, BlockText
<1>3. CharsUpTo(d, b) = CharsUpTo(d, b - 1) \cup {<<b, i>> : i \in 1..d.blocks[b].len}
  <2>1. ASSUME NEW c \in CharsUpTo(d, b) PROVE c \in CharsUpTo(d, b - 1) \cup {<<b, i>> : i \in 1..d.blocks[b].len}
    <3>1. c = <<c[1], c[2]>> /\ c[1] \in 1..b /\ c[2] \in 1..d.blocks[c[1]].len /\ c \in Char
      BY DEF CharsUpTo, Char
    <3>2. CASE c[1] = b
      BY <3>1, <3>2
    <3>3. CASE c[1] # b
      <4>1. c[1] \in 1..(b - 1)
        BY <1>1, <3>1, <3>3
      <4>2. QED
        BY <3>1, <4>1 DEF CharsUpTo
    <3>4. QED
      BY <3>2, <3>3
  <2>2. ASSUME NEW c \in CharsUpTo(d, b - 1) PROVE c \in CharsUpTo(d, b)
    <3>1. c[1] \in 1..b
      BY <1>1 DEF CharsUpTo
    <3>2. QED
      BY <3>1 DEF CharsUpTo
  <2>3. ASSUME NEW i \in 1..d.blocks[b].len PROVE <<b, i>> \in CharsUpTo(d, b)
    BY <1>1 DEF CharsUpTo, Char
  <2>4. QED
    BY <2>1, <2>2, <2>3
<1>4. Initial(d, b, 0) = CharsUpTo(d, b - 1)
  BY DEF Initial, CharsUpTo
<1>5. Initial(d, b, d.blocks[b].len) = CharsUpTo(d, b - 1) \cup {<<b, i>> : i \in 1..d.blocks[b].len}
  BY DEF Initial, CharsUpTo
<1>6. QED
  BY <1>2, <1>3, <1>4, <1>5

\* The beginning of a document can be said whenever it is known, and what comes
\* next after it.
LEMMA BeginningFits ==
    ASSUME NEW d, Mixed(d), NEW b \in 1..Len(d.blocks), NEW e \in Nat,
           NEW K, Initial(d, b, e) \subseteq K, NEW w \in Text, CharsOf(w) \subseteq Initial(d, b, e)
    PROVE  Fits(AllChars(d), K, w)
<1>1. ASSUME NEW x \in Initial(d, b, e), NEW c \in AllChars(d), Earlier(c, x)
      PROVE  c \in K
  <2>1. /\ c \in Char /\ c[1] \in Nat /\ c[2] \in Nat /\ c = <<c[1], c[2]>>
        /\ c[1] \in 1..Len(d.blocks) /\ c[2] \in 1..d.blocks[c[1]].len
    BY DEF AllChars, CharsUpTo, Char
  <2>2. x[1] \in Nat /\ x[2] \in Nat /\ x[1] <= b /\ (x[1] = b => x[2] <= e)
    BY DEF Initial, Char
  <2>3. CASE c[1] < b
    <3>1. c[1] \in 1..(b - 1)
      BY <2>1, <2>3
    <3>2. QED
      BY <2>1, <3>1 DEF Initial
  <2>4. CASE c[1] >= b
    <3>1. c[1] = b /\ c[2] \in 1..e
      BY <1>1, <2>1, <2>2, <2>4, BlocksAre DEF Earlier
    <3>2. c \in {<<b, i>> : i \in 1..e}
      BY <2>1, <3>1
    <3>3. QED
      BY <3>2 DEF Initial
  <2>5. QED
    BY <2>1, <2>3, <2>4
<1>2. \A p \in DOMAIN w : w[p] # NL => w[p] \in Initial(d, b, e)
  BY TextIs
<1>3. QED
  BY <1>1, <1>2 DEF Fits

LEMMA ContinuationFits ==
    ASSUME NEW d, Mixed(d), NEW b \in 1..Len(d.blocks), NEW e \in Nat, NEW m \in Nat,
           NEW K, Initial(d, b, e) \subseteq K,
           NEW w \in Text, Len(w) = m, \A p \in 1..m : w[p] = <<b, e + p>>
    PROVE  Fits(AllChars(d), K, w)
<1>1. SUFFICES ASSUME NEW p \in 1..m, NEW c \in AllChars(d), Earlier(c, <<b, e + p>>)
               PROVE  c \in K \/ \E q \in 1..(p - 1) : w[q] = c
  <2>1. DOMAIN w = 1..m
    BY TextIs
  <2>2. QED
    BY <2>1 DEF Fits
<1>2. /\ c \in Char /\ c[1] \in Nat /\ c[2] \in Nat /\ c = <<c[1], c[2]>>
      /\ c[1] \in 1..Len(d.blocks) /\ c[2] \in 1..d.blocks[c[1]].len
  BY DEF AllChars, CharsUpTo, Char
<1>3. c[1] < b \/ (c[1] = b /\ c[2] < e + p)
  BY <1>1 DEF Earlier
<1>4. CASE c[1] < b
  <2>1. c[1] \in 1..(b - 1)
    BY <1>2, <1>4
  <2>2. QED
    BY <1>2, <2>1 DEF Initial
<1>5. CASE c[1] = b /\ c[2] <= e
  <2>1. c \in {<<b, i>> : i \in 1..e}
    BY <1>2, <1>5, BlocksAre
  <2>2. QED
    BY <2>1 DEF Initial
<1>6. CASE c[1] = b /\ c[2] < e + p /\ c[2] > e
  <2>1. c[2] - e \in 1..(p - 1) /\ c[2] - e \in 1..m /\ e + (c[2] - e) = c[2]
    BY <1>2, <1>6
  <2>2. w[c[2] - e] = c
    BY <1>2, <1>6, <2>1
  <2>3. QED
    BY <2>1, <2>2
<1>7. QED
  BY <1>2, <1>3, <1>4, <1>5, <1>6

-----------------------------------------------------------------------------
(* The windows of a block. *)

LEMMA EndsIncrease ==
    ASSUME NEW size \in Nat, NEW end \in [0..size -> 0..size], NEW last \in 1..size,
           end[0] = 0, \A k \in 1..last : end[k - 1] < end[k]
    PROVE  /\ \A k \in 0..last : end[k] \in Nat /\ end[k] <= size
           /\ \A j, k \in 0..last : j <= k => end[j] <= end[k]
           /\ \A k \in 1..last : \A i \in 1..end[k] : \E j \in 1..k : end[j - 1] < i /\ i <= end[j]
<1>1. \A k \in 0..last : end[k] \in Nat /\ end[k] <= size
  OBVIOUS
<1>2. ASSUME NEW j \in 0..last, NEW k \in 0..last, j <= k PROVE end[j] <= end[k]
  <2> DEFINE Down == {x \in 0..last : j <= x /\ ~(end[j] <= end[x])}
  <2>1. SUFFICES ASSUME Down # {} PROVE FALSE
    BY <1>2
  <2>2. Down \in SUBSET Nat
    OBVIOUS
  <2>3. PICK x \in Down : \A y \in Down : x <= y
    <3> HIDE DEF Down
    <3>1. QED
      BY <2>1, <2>2, LeastNumber
  <2>4. x # j /\ x \in 1..last /\ x - 1 \in 0..last /\ j <= x - 1
    <3>1. x \in Int /\ j \in Int /\ j <= x /\ x \in 0..last /\ ~(end[j] <= end[x])
      BY <2>3
    <3>2. end[j] <= end[j]
      BY <1>1
    <3>3. x # j
      BY <3>1, <3>2
    <3>4. QED
      BY <3>1, <3>3
  <2>5. x - 1 \notin Down
    BY <2>3, <2>4
  <2>6. end[j] <= end[x - 1]
    BY <2>4, <2>5
  <2>7. end[x - 1] < end[x] /\ end[j] \in Nat /\ end[x - 1] \in Nat /\ end[x] \in Nat
    BY <1>1, <2>4
  <2>8. QED
    BY <2>3, <2>6, <2>7
<1>3. ASSUME NEW k \in 1..last, NEW i \in 1..end[k]
      PROVE  \E j \in 1..k : end[j - 1] < i /\ i <= end[j]
  <2> DEFINE Over == {x \in 0..k : i <= end[x]}
  <2>1. k \in Over /\ Over \in SUBSET Nat /\ end[k] \in Nat
    <3>1. k \in 0..last /\ k \in 0..k
      OBVIOUS
    <3>2. end[k] \in Nat
      BY <1>1, <3>1
    <3>3. QED
      BY <3>1, <3>2
  <2>2. PICK j \in Over : \A y \in Over : j <= y
    <3> HIDE DEF Over
    <3>1. QED
      BY <2>1, LeastNumber
  <2>3. j # 0 /\ j \in 1..k /\ j - 1 \in 0..k /\ j - 1 \in 0..last
    <3>1. j \in 0..k /\ i <= end[j]
      BY <2>2
    <3>2. ~(i <= 0)
      BY <2>1
    <3>3. j # 0
      BY <3>1, <3>2
    <3>4. k \in Nat /\ k <= last
      OBVIOUS
    <3>5. QED
      BY <3>1, <3>3, <3>4
  <2>4. j - 1 \notin Over
    BY <2>2, <2>3
  <2>5. ~(i <= end[j - 1]) /\ end[j - 1] \in Nat
    BY <1>1, <2>3, <2>4
  <2>6. end[j - 1] < i
    BY <2>1, <2>5
  <2>7. i <= end[j]
    BY <2>2
  <2>8. QED
    BY <2>3, <2>6, <2>7
<1>4. QED
  BY <1>1, <1>2, <1>3

Windows(d, b) == Slide(TextOf(b, d.blocks[b].len), d.blocks[b].breaks)

LEMMA WindowsAre ==
    ASSUME Sizes, NEW d, Mixed(d), NEW b \in 1..Len(d.blocks)
    PROVE  /\ Windows(d, b) \in Seq(Text) /\ Len(Windows(d, b)) \in Nat \ {0}
           /\ \A k \in 1..Len(Windows(d, b)) :
                 /\ Fits(AllChars(d), CharsUpTo(d, b - 1) \cup Before(Windows(d, b), k), Windows(d, b)[k])
                 /\ \A w \in Text : CharsOf(w) \subseteq CharsUpTo(d, b - 1) \cup Before(Windows(d, b), k)
                                      => Fits(AllChars(d), CharsUpTo(d, b - 1) \cup Before(Windows(d, b), k), w)
                 /\ Len(Windows(d, b)[k]) <= max + overlap
                 /\ \A c \in CharsOf(Windows(d, b)[k]) : c[1] = b
           /\ CharsUpTo(d, b - 1) \cup Known(Windows(d, b)) = CharsUpTo(d, b)
<1> DEFINE len == d.blocks[b].len
           text == TextOf(b, len)
           A == AllChars(d)
           W == Windows(d, b)
<1>1. len \in Nat \ {0} /\ b \in Nat \ {0} /\ d.blocks[b].breaks \in SUBSET (Nat \X (1..4)) /\ NL \notin A
  BY BlocksAre
<1>2. /\ text \in Text /\ Len(text) = len
      /\ \A i \in 1..len : text[i] = <<b, i>> /\ <<b, i>> # NL
      /\ CharsOf(text) = {<<b, i>> : i \in 1..len}
  BY <1>1, BlockText
<1>2a. W = Slide(text, d.blocks[b].breaks)
  BY DEF Windows
<1> HIDE DEF text, len, W
<1>3. text # <<>>
  BY <1>1, <1>2
<1>4. PICK end \in [0..len -> 0..len], last \in 1..len :
              /\ end[0] = 0 /\ end[last] = len
              /\ \A k \in 1..last : end[k - 1] < end[k] /\ end[k] <= end[k - 1] + max
              /\ W = [k \in 1..last |-> (IF k = 1 THEN <<>> ELSE GetOverlap(SubSeq(text, end[k - 2] + 1, end[k - 1])))
                                         \o SubSeq(text, end[k - 1] + 1, end[k])]
  <2>1. W = Slide(text, d.blocks[b].breaks)
    BY <1>2a
  <2>2. PICK end \in [0..Len(text) -> 0..Len(text)], last \in 1..Len(text) :
              /\ end[0] = 0 /\ end[last] = Len(text)
              /\ \A k \in 1..last : end[k - 1] < end[k] /\ end[k] <= end[k - 1] + max
              /\ Slide(text, d.blocks[b].breaks) =
                    [k \in 1..last |-> (IF k = 1 THEN <<>> ELSE GetOverlap(SubSeq(text, end[k - 2] + 1, end[k - 1])))
                                         \o SubSeq(text, end[k - 1] + 1, end[k])]
    BY <1>1, <1>2, <1>3, SlideIs
  <2>3. end \in [0..len -> 0..len] /\ last \in 1..len
    BY <1>2
  <2>4. W = [k \in 1..last |-> (IF k = 1 THEN <<>> ELSE GetOverlap(SubSeq(text, end[k - 2] + 1, end[k - 1])))
                                 \o SubSeq(text, end[k - 1] + 1, end[k])]
    BY <2>1, <2>2, Zenon
  <2>5. end[0] = 0 /\ end[last] = len /\ \A k \in 1..last : end[k - 1] < end[k] /\ end[k] <= end[k - 1] + max
    BY <1>2, <2>2
  <2>6. QED
    BY <2>3, <2>4, <2>5, Zenon
<1>5. /\ \A k \in 0..last : end[k] \in Nat /\ end[k] <= len
      /\ \A j, k \in 0..last : j <= k => end[j] <= end[k]
      /\ \A k \in 1..last : \A i \in 1..end[k] : \E j \in 1..k : end[j - 1] < i /\ i <= end[j]
  <2>1. len \in Nat
    BY <1>1
  <2>2. QED
    BY <1>4, <2>1, EndsIncrease
<1> DEFINE raw(k) == SubSeq(text, end[k - 1] + 1, end[k])
           over(k) == IF k = 1 THEN <<>> ELSE GetOverlap(SubSeq(text, end[k - 2] + 1, end[k - 1]))
<1>6. ASSUME NEW k \in 1..last
      PROVE  /\ raw(k) \in Text /\ Len(raw(k)) = end[k] - end[k - 1] /\ Len(raw(k)) <= max
             /\ \A p \in 1..(end[k] - end[k - 1]) : raw(k)[p] = <<b, end[k - 1] + p>>
             /\ CharsOf(raw(k)) = {<<b, i>> : i \in (end[k - 1] + 1)..end[k]}
  <2> DEFINE x == end[k - 1]
             y == end[k]
  <2>1. x \in Nat /\ y \in Nat /\ x < y /\ y <= x + max /\ y <= len
    <3>1. k \in 0..last /\ k - 1 \in 0..last
      OBVIOUS
    <3>2. QED
      BY <1>4, <1>5, <3>1
  <2> HIDE DEF x, y
  <2>2. /\ SubSeq(text, x + 1, y) \in Text /\ Len(SubSeq(text, x + 1, y)) = y - (x + 1) + 1
        /\ \A p \in 1..(y - (x + 1) + 1) : SubSeq(text, x + 1, y)[p] = text[(x + 1) - 1 + p]
        /\ CharsOf(SubSeq(text, x + 1, y)) = {text[p] : p \in (x + 1)..y} \ {NL}
    <3>1. x + 1 \in Nat /\ 1 <= x + 1 /\ x + 1 <= y + 1 /\ y <= Len(text)
      BY <1>2, <2>1
    <3>2. QED
      BY <1>2, <2>1, <3>1, SubIs
  <2>3. y - (x + 1) + 1 = y - x /\ y - x <= max /\ \A p \in 1..(y - x) : (x + 1) - 1 + p = x + p
    BY <2>1 DEF Sizes
  <2>4. \A p \in 1..(y - x) : x + p \in 1..len
    BY <1>1, <2>1
  <2>5. \A p \in (x + 1)..y : p \in 1..len
    BY <1>1, <2>1
  <2>6. \A p \in 1..(y - x) : SubSeq(text, x + 1, y)[p] = <<b, x + p>>
    BY <1>2, <2>2, <2>3, <2>4
  <2>7. {text[p] : p \in (x + 1)..y} \ {NL} = {<<b, i>> : i \in (x + 1)..y}
    BY <1>2, <2>5
  <2>8. QED
    BY <2>2, <2>3, <2>6, <2>7 DEF x, y
<1>7. ASSUME NEW k \in 1..last
      PROVE  /\ over(k) \in Text /\ Len(over(k)) <= overlap
             /\ CharsOf(over(k)) \subseteq {<<b, i>> : i \in 1..end[k - 1]}
  <2>1. CASE k = 1
    <3>1. <<>> \in Text /\ Len(<<>>) = 0 /\ CharsOf(<<>>) = {}
      BY DEF Text, CharsOf, Range
    <3>2. QED
      BY <2>1, <3>1 DEF Sizes
  <2>2. CASE k # 1
    <3>1. k - 1 \in 1..last /\ (k - 1) - 1 = k - 2
      BY <2>2
    <3>2. over(k) = GetOverlap(raw(k - 1))
      BY <2>2, <3>1
    <3> HIDE DEF over, raw
    <3>3. raw(k - 1) \in Text /\ CharsOf(raw(k - 1)) = {<<b, i>> : i \in (end[(k - 1) - 1] + 1)..end[k - 1]}
      BY <1>6, <3>1
    <3>4. \A i \in (end[(k - 1) - 1] + 1)..end[k - 1] : i \in 1..end[k - 1]
      <4>1. (k - 1) - 1 \in 0..last /\ k - 1 \in 0..last
        BY <3>1
      <4>2. end[(k - 1) - 1] \in Nat /\ end[k - 1] \in Nat
        BY <1>5, <4>1
      <4>3. QED
        BY <4>2
    <3>5. /\ GetOverlap(raw(k - 1)) \in Text /\ Len(GetOverlap(raw(k - 1))) <= overlap
          /\ CharsOf(GetOverlap(raw(k - 1))) \subseteq CharsOf(raw(k - 1))
      BY <3>3, OverlapIs DEF Sizes
    <3>6. QED
      BY <3>2, <3>3, <3>4, <3>5
  <2>3. QED
    BY <2>1, <2>2
<1>8. \A k \in 1..last : W[k] = over(k) \o raw(k)
  BY <1>4
<1> HIDE DEF over, raw
<1>9. ASSUME NEW k \in 1..last
      PROVE  /\ W[k] \in Text /\ Len(W[k]) <= max + overlap
             /\ CharsOf(W[k]) = CharsOf(over(k)) \cup CharsOf(raw(k))
             /\ CharsOf(W[k]) \subseteq {<<b, i>> : i \in 1..end[k]}
             /\ {<<b, i>> : i \in (end[k - 1] + 1)..end[k]} \subseteq CharsOf(W[k])
  <2>1. /\ over(k) \o raw(k) \in Text /\ Len(over(k) \o raw(k)) = Len(over(k)) + Len(raw(k))
        /\ CharsOf(over(k) \o raw(k)) = CharsOf(over(k)) \cup CharsOf(raw(k))
    BY <1>6, <1>7, ConcatIs
  <2>2. Len(over(k)) \in Nat /\ Len(raw(k)) \in Nat
    BY <1>6, <1>7, TextIs
  <2>3. end[k - 1] \in Nat /\ end[k] \in Nat /\ end[k - 1] < end[k]
    <3>1. k \in 0..last /\ k - 1 \in 0..last
      OBVIOUS
    <3>2. QED
      BY <1>4, <1>5, <3>1
  <2>4. (\A i \in (end[k - 1] + 1)..end[k] : i \in 1..end[k]) /\ (\A i \in 1..end[k - 1] : i \in 1..end[k])
    BY <2>3
  <2>5. Len(W[k]) <= max + overlap
    <3>1. Len(W[k]) = Len(over(k)) + Len(raw(k))
      BY <1>8, <2>1
    <3>2. Len(over(k)) <= overlap /\ Len(raw(k)) <= max
      BY <1>6, <1>7
    <3>3. QED
      BY <2>2, <3>1, <3>2 DEF Sizes
  <2>6. W[k] \in Text /\ CharsOf(W[k]) = CharsOf(over(k)) \cup CharsOf(raw(k))
    BY <1>8, <2>1
  <2>7. CharsOf(raw(k)) = {<<b, i>> : i \in (end[k - 1] + 1)..end[k]}
    BY <1>6
  <2>8. CharsOf(over(k)) \subseteq {<<b, i>> : i \in 1..end[k]}
    BY <1>7, <2>4
  <2>9. QED
    BY <2>4, <2>5, <2>6, <2>7, <2>8
<1>10. W \in Seq(Text) /\ Len(W) = last
  <2>1. DOMAIN W = 1..last /\ last \in Nat
    BY <1>1, <1>4
  <2>2. W = [k \in 1..last |-> W[k]]
    BY <1>4
  <2>3. W \in [1..last -> Text]
    BY <1>9, <2>2
  <2>4. QED
    BY <2>1, <2>3
<1>11. ASSUME NEW k \in 1..(last + 1)
       PROVE  CharsUpTo(d, b - 1) \cup Before(W, k) = Initial(d, b, end[k - 1])
  <2>1. \A c : c \in Before(W, k) <=> \E j \in 1..(k - 1) : c \in CharsOf(W[j])
    BY <1>10, ChunksAre
  <2>2. k - 1 \in 0..last
    OBVIOUS
  <2>3. ASSUME NEW j \in 1..(k - 1), NEW c \in CharsOf(W[j])
        PROVE  c \in {<<b, i>> : i \in 1..end[k - 1]}
    <3>1. j \in 1..last /\ j \in 0..last /\ j <= k - 1
      BY <2>2
    <3>2. end[j] <= end[k - 1] /\ end[j] \in Nat /\ end[k - 1] \in Nat
      BY <1>5, <2>2, <3>1
    <3>3. PICK i \in 1..end[j] : c = <<b, i>>
      BY <1>9, <2>3, <3>1
    <3>4. i \in 1..end[k - 1]
      BY <3>2
    <3>5. QED
      BY <3>3, <3>4
  <2>4. ASSUME NEW i \in 1..end[k - 1]
        PROVE  <<b, i>> \in Before(W, k)
    <3>1. k - 1 # 0 /\ k - 1 \in 1..last
      <4>1. k - 1 # 0
        <5>1. CASE k - 1 = 0
          <6>1. end[k - 1] = 0
            BY <1>4, <5>1
          <6>2. QED
            BY <6>1
        <5>2. QED
          BY <5>1
      <4>2. QED
        BY <2>2, <4>1
    <3>2. PICK j \in 1..(k - 1) : end[j - 1] < i /\ i <= end[j]
      BY <1>5, <3>1
    <3>3. j \in 1..last /\ j \in 0..last /\ j - 1 \in 0..last
      BY <3>1
    <3>4. end[j - 1] \in Nat /\ end[j] \in Nat
      BY <1>5, <3>3
    <3>5. i \in (end[j - 1] + 1)..end[j]
      BY <3>2, <3>4
    <3>6. <<b, i>> \in CharsOf(W[j])
      BY <1>9, <3>3, <3>5
    <3>7. QED
      BY <2>1, <3>6
  <2>5. Before(W, k) = {<<b, i>> : i \in 1..end[k - 1]}
    BY <2>1, <2>3, <2>4
  <2>6. QED
    BY <2>5 DEF Initial, CharsUpTo
<1>12. ASSUME NEW k \in 1..last
       PROVE  /\ Fits(A, CharsUpTo(d, b - 1) \cup Before(W, k), W[k])
              /\ \A w \in Text : CharsOf(w) \subseteq CharsUpTo(d, b - 1) \cup Before(W, k)
                                   => Fits(A, CharsUpTo(d, b - 1) \cup Before(W, k), w)
  <2> DEFINE K == Initial(d, b, end[k - 1])
  <2>1. CharsUpTo(d, b - 1) \cup Before(W, k) = K /\ end[k - 1] \in Nat /\ end[k] \in Nat /\ end[k - 1] < end[k]
    <3>1. k \in 1..(last + 1) /\ k - 1 \in 0..last /\ k \in 0..last
      OBVIOUS
    <3>2. QED
      BY <1>4, <1>5, <1>11, <3>1
  <2>2. \A w \in Text : CharsOf(w) \subseteq K => Fits(A, K, w)
    BY <2>1, BeginningFits
  <2>3. CharsOf(over(k)) \subseteq K
    BY <1>7 DEF Initial
  <2>4. Fits(A, K, over(k))
    BY <1>7, <2>2, <2>3
  <2>5. Fits(A, K \cup CharsOf(over(k)), raw(k))
    <3> DEFINE m == end[k] - end[k - 1]
               w == raw(k)
    <3>1. m \in Nat /\ w \in Text /\ Len(w) = m /\ \A p \in 1..m : w[p] = <<b, end[k - 1] + p>>
      BY <1>6, <2>1
    <3> HIDE DEF m, w
    <3>2. Fits(A, K \cup CharsOf(over(k)), w)
      BY <2>1, <3>1, ContinuationFits
    <3>3. QED
      BY <3>2 DEF w
  <2> HIDE DEF K, A
  <2>6. Fits(A, K, over(k) \o raw(k))
    BY <1>1, <1>6, <1>7, <2>4, <2>5, FitsConcat
  <2>7. QED
    BY <1>8, <2>1, <2>2, <2>6
<1>13. CharsUpTo(d, b - 1) \cup Known(W) = CharsUpTo(d, b)
  <2>1. last + 1 \in 1..(last + 1) /\ (last + 1) - 1 = last
    <3>1. last \in Nat
      BY <1>1
    <3>2. QED
      BY <3>1
  <2>2. CharsUpTo(d, b - 1) \cup Before(W, last + 1) = Initial(d, b, len)
    BY <1>4, <1>11, <2>1
  <2>3. Before(W, last + 1) = Known(W)
    BY <1>10, ChunksAre
  <2>4. QED
    BY <2>2, <2>3, CharsGrow DEF len
<1>14. \A k \in 1..last : \A c \in CharsOf(W[k]) : c[1] = b
  <2>1. TAKE k \in 1..last
  <2>2. CharsOf(W[k]) \subseteq {<<b, i>> : i \in 1..end[k]}
    BY <1>9
  <2>3. QED
    BY <2>2
<1>15. Len(W) \in Nat \ {0}
  BY <1>1, <1>10
<1>16. QED
  BY <1>9, <1>10, <1>12, <1>13, <1>14, <1>15 DEF W

-----------------------------------------------------------------------------
(* The loop over the blocks. *)

Collecting == [result : Seq(Text), parts : Text, prefix : Text]
Start == [result |-> <<>>, parts |-> <<>>, prefix |-> <<>>]

\* What is collected is the characters U, each chunk can follow those before it,
\* the parts can follow the chunks, and the prefix is nothing new.
Order(A, U, s) ==
    /\ s \in Collecting
    /\ Orderly(A, s.result)
    /\ Fits(A, Known(s.result), s.parts)
    /\ CharsOf(s.prefix) \subseteq Known(s.result)
    /\ Known(s.result) \cup CharsOf(s.parts) = U

LEMMA NothingIs ==
    /\ <<>> \in Text /\ Len(<<>>) = 0 /\ CharsOf(<<>>) = {}
    /\ \A A, K : Fits(A, K, <<>>)
    /\ Known(<<>>) = {} /\ <<>> \in Seq(Text) /\ \A A : Orderly(A, <<>>)
BY DEF Text, CharsOf, Range, Fits, Known, Orderly

\* What _flush joins, and the chunk it makes of it.
Content(s, extra) == Join(s.parts, extra)
Full(s, extra) == Strip(Join(s.prefix, Content(s, extra)))

LEMMA FlushIs ==
    ASSUME Sizes, NEW s \in Collecting, NEW extra \in Text, NEW isTable \in BOOLEAN
    PROVE  /\ Content(s, extra) \in Text /\ Full(s, extra) \in Text
           /\ CharsOf(Content(s, extra)) = CharsOf(s.parts) \cup CharsOf(extra)
           /\ CharsOf(Full(s, extra)) = CharsOf(s.prefix) \cup CharsOf(Content(s, extra))
           /\ Len(Full(s, extra)) <= Len(s.prefix) + Len(Content(s, extra)) + 2
           /\ Full(s, extra) = <<>> <=> CharsOf(Full(s, extra)) = {}
           /\ Flush(s, extra, isTable) \in Collecting
           /\ Flush(s, extra, isTable).parts = <<>>
           /\ Flush(s, extra, isTable).prefix = IF isTable THEN <<>> ELSE GetOverlap(Content(s, extra))
           /\ Flush(s, extra, isTable).result = IF Full(s, extra) = <<>> THEN s.result ELSE Append(s.result, Full(s, extra))
           /\ Len(Flush(s, extra, isTable).prefix) <= overlap
           /\ CharsOf(Flush(s, extra, isTable).prefix) \subseteq CharsOf(Content(s, extra))
<1>1. s.result \in Seq(Text) /\ s.parts \in Text /\ s.prefix \in Text
  BY DEF Collecting
<1> DEFINE content == Content(s, extra)
           full == Full(s, extra)
<1>2. content \in Text /\ CharsOf(content) = CharsOf(s.parts) \cup CharsOf(extra)
  BY <1>1, JoinIs DEF Content
<1> HIDE DEF content
<1>3. /\ Join(s.prefix, content) \in Text
      /\ CharsOf(Join(s.prefix, content)) = CharsOf(s.prefix) \cup CharsOf(content)
      /\ Len(Join(s.prefix, content)) <= Len(s.prefix) + Len(content) + 2
  BY <1>1, <1>2, JoinIs
<1>4. /\ full \in Text /\ CharsOf(full) = CharsOf(s.prefix) \cup CharsOf(content)
      /\ full = <<>> <=> CharsOf(full) = {}
      /\ Len(full) <= Len(Join(s.prefix, content))
  BY <1>3, StripIs DEF Full, content
<1> HIDE DEF full
<1>5. Len(full) <= Len(s.prefix) + Len(content) + 2
  <2>1. Len(full) \in Nat /\ Len(Join(s.prefix, content)) \in Nat /\ Len(s.prefix) \in Nat /\ Len(content) \in Nat
    BY <1>1, <1>2, <1>3, <1>4, TextIs
  <2>2. QED
    BY <1>3, <1>4, <2>1
<1>6. /\ GetOverlap(content) \in Text /\ Len(GetOverlap(content)) <= overlap
      /\ CharsOf(GetOverlap(content)) \subseteq CharsOf(content)
  BY <1>2, OverlapIs DEF Sizes
<1>7. Flush(s, extra, isTable) = [result |-> IF full = <<>> THEN s.result ELSE Append(s.result, full),
                                  parts |-> <<>>,
                                  prefix |-> IF isTable THEN <<>> ELSE GetOverlap(content)]
  BY DEF Flush, Content, Full, content, full
<1>8. Append(s.result, full) \in Seq(Text)
  BY <1>1, <1>4
<1>9. Flush(s, extra, isTable) \in Collecting
  BY <1>1, <1>6, <1>7, <1>8, NothingIs DEF Collecting
<1>10. /\ Len(IF isTable THEN <<>> ELSE GetOverlap(content)) <= overlap
       /\ CharsOf(IF isTable THEN <<>> ELSE GetOverlap(content)) \subseteq CharsOf(content)
  BY <1>6, NothingIs DEF Sizes
<1>11. QED
  BY <1>2, <1>4, <1>5, <1>7, <1>9, <1>10 DEF content, full

LEMMA FlushKeepsOrder ==
    ASSUME Sizes, NEW A, NL \notin A, NEW U, NEW s, Order(A, U, s),
           NEW extra \in Text, Fits(A, U, extra), NEW isTable \in BOOLEAN
    PROVE  Order(A, U \cup CharsOf(extra), Flush(s, extra, isTable))
<1> DEFINE content == Content(s, extra)
           full == Full(s, extra)
           t == Flush(s, extra, isTable)
           K == Known(s.result)
<1>1. /\ s \in Collecting /\ s.result \in Seq(Text) /\ s.parts \in Text /\ s.prefix \in Text
      /\ Orderly(A, s.result) /\ Fits(A, K, s.parts) /\ CharsOf(s.prefix) \subseteq K
      /\ K \cup CharsOf(s.parts) = U
  BY DEF Order, Collecting
<1>2. /\ content \in Text /\ full \in Text
      /\ CharsOf(content) = CharsOf(s.parts) \cup CharsOf(extra)
      /\ CharsOf(full) = CharsOf(s.prefix) \cup CharsOf(content)
      /\ full = <<>> <=> CharsOf(full) = {}
      /\ t \in Collecting /\ t.parts = <<>>
      /\ t.result = IF full = <<>> THEN s.result ELSE Append(s.result, full)
      /\ CharsOf(t.prefix) \subseteq CharsOf(content)
  BY <1>1, FlushIs
<1>3. Fits(A, K, content)
  BY <1>1, FitsJoin DEF Content
<1>4. Fits(A, K, s.prefix)
  BY <1>1, KnownFits
<1>5. Fits(A, K \cup CharsOf(s.prefix), content)
  BY <1>3, FitsMore
<1> HIDE DEF t, content
<1>6. Fits(A, K, full)
  <2>1. Fits(A, K, Join(s.prefix, content)) /\ Join(s.prefix, content) \in Text
    BY <1>1, <1>2, <1>4, <1>5, FitsJoin, JoinIs
  <2>2. QED
    BY <2>1, StripIs DEF Full, content
<1> HIDE DEF full, K
<1>7. CASE full = <<>>
  <2>1. CharsOf(content) = {} /\ CharsOf(s.parts) = {} /\ CharsOf(extra) = {}
    BY <1>2, <1>7
  <2>2. t.result = s.result /\ U \cup CharsOf(extra) = K
    BY <1>1, <1>2, <1>7, <2>1
  <2>3. Known(t.result) \cup CharsOf(t.parts) = U \cup CharsOf(extra)
    BY <1>2, <2>2, NothingIs DEF K
  <2>4. CharsOf(t.prefix) \subseteq Known(t.result)
    BY <1>2, <2>1
  <2>5. QED
    BY <1>1, <1>2, <2>2, <2>3, <2>4, NothingIs DEF Order, t
<1>8. CASE full # <<>>
  <2>1. t.result = Append(s.result, full)
    BY <1>2, <1>8
  <2>2. Orderly(A, t.result) /\ Known(t.result) = K \cup CharsOf(full)
    BY <1>1, <1>2, <1>6, <2>1, OneMoreChunk DEF K
  <2>3. K \cup CharsOf(full) = U \cup CharsOf(extra)
    BY <1>1, <1>2
  <2>4. Known(t.result) \cup CharsOf(t.parts) = U \cup CharsOf(extra)
    BY <1>2, <2>2, <2>3, NothingIs
  <2>5. CharsOf(t.prefix) \subseteq Known(t.result)
    BY <1>2, <2>2
  <2>6. QED
    BY <1>2, <2>2, <2>4, <2>5, NothingIs DEF Order, t
<1>9. QED
  BY <1>7, <1>8

LEMMA KeepingKeepsOrder ==
    ASSUME NEW A, NL \notin A, NEW U, NEW s, Order(A, U, s), NEW text \in Text, Fits(A, U, text)
    PROVE  Order(A, U \cup CharsOf(text), [s EXCEPT !.parts = Join(@, text)])
<1> DEFINE t == [s EXCEPT !.parts = Join(@, text)]
           K == Known(s.result)
<1>1. /\ s \in Collecting /\ s.result \in Seq(Text) /\ s.parts \in Text /\ s.prefix \in Text
      /\ Orderly(A, s.result) /\ Fits(A, K, s.parts) /\ CharsOf(s.prefix) \subseteq K
      /\ K \cup CharsOf(s.parts) = U
  BY DEF Order, Collecting
<1>2. Join(s.parts, text) \in Text /\ CharsOf(Join(s.parts, text)) = CharsOf(s.parts) \cup CharsOf(text)
  BY <1>1, JoinIs
<1>3. t \in Collecting /\ t.result = s.result /\ t.prefix = s.prefix /\ t.parts = Join(s.parts, text)
  BY <1>1, <1>2 DEF Collecting
<1>4. Fits(A, K, Join(s.parts, text))
  BY <1>1, FitsJoin
<1>5. Known(t.result) \cup CharsOf(t.parts) = U \cup CharsOf(text)
  BY <1>1, <1>2, <1>3
<1> HIDE DEF t
<1>6. QED
  BY <1>1, <1>3, <1>4, <1>5 DEF Order, t

\* What is put before the ith window of a long block, and the chunks it makes.
Lead(s, W, i) == IF i = 1 THEN s.prefix ELSE GetOverlap(W[i - 1])
NewChunks(s, W) == [i \in 1..(Len(W) - 1) |-> Strip(Join(Lead(s, W, i), W[i]))]

LEMMA SlideIntoIs ==
    ASSUME Sizes, NEW s \in Collecting, NEW W \in Seq(Text), Len(W) \in Nat \ {0}
    PROVE  /\ NewChunks(s, W) \in Seq(Text) /\ Len(NewChunks(s, W)) = Len(W) - 1
           /\ \A i \in 1..(Len(W) - 1) :
                 /\ Lead(s, W, i) \in Text
                 /\ i # 1 => Len(Lead(s, W, i)) <= overlap /\ CharsOf(Lead(s, W, i)) \subseteq CharsOf(W[i - 1])
                 /\ NewChunks(s, W)[i] = Strip(Join(Lead(s, W, i), W[i]))
                 /\ CharsOf(NewChunks(s, W)[i]) = CharsOf(Lead(s, W, i)) \cup CharsOf(W[i])
                 /\ Len(NewChunks(s, W)[i]) <= Len(Lead(s, W, i)) + Len(W[i]) + 2
           /\ SlideInto(s, W) \in Collecting
           /\ SlideInto(s, W).result = s.result \o NewChunks(s, W)
           /\ SlideInto(s, W).parts = W[Len(W)]
           /\ SlideInto(s, W).prefix = <<>>
<1> DEFINE m == Len(W) - 1
           new == NewChunks(s, W)
<1>1. s.result \in Seq(Text) /\ s.parts \in Text /\ s.prefix \in Text
  BY DEF Collecting
<1>2. m \in Nat /\ (\A i \in 1..Len(W) : W[i] \in Text) /\ \A i \in 1..m : i \in 1..Len(W)
  BY ChunksAre
<1>3. ASSUME NEW i \in 1..m
      PROVE  /\ Lead(s, W, i) \in Text
             /\ i # 1 => Len(Lead(s, W, i)) <= overlap /\ CharsOf(Lead(s, W, i)) \subseteq CharsOf(W[i - 1])
  <2>1. CASE i = 1
    BY <1>1, <2>1 DEF Lead
  <2>2. CASE i # 1
    <3>1. i - 1 \in 1..Len(W)
      BY <1>2, <2>2
    <3>2. W[i - 1] \in Text
      BY <1>2, <3>1
    <3>3. /\ GetOverlap(W[i - 1]) \in Text /\ Len(GetOverlap(W[i - 1])) <= overlap
          /\ CharsOf(GetOverlap(W[i - 1])) \subseteq CharsOf(W[i - 1])
      BY <3>2, OverlapIs DEF Sizes
    <3>4. QED
      BY <2>2, <3>3 DEF Lead
  <2>3. QED
    BY <2>1, <2>2
<1>4. new = [i \in 1..m |-> Strip(Join(Lead(s, W, i), W[i]))]
  BY DEF NewChunks
<1> HIDE DEF new, m
<1>5. ASSUME NEW i \in 1..m
      PROVE  /\ new[i] = Strip(Join(Lead(s, W, i), W[i])) /\ new[i] \in Text
             /\ CharsOf(new[i]) = CharsOf(Lead(s, W, i)) \cup CharsOf(W[i])
             /\ Len(new[i]) <= Len(Lead(s, W, i)) + Len(W[i]) + 2
  <2> DEFINE u == Lead(s, W, i)
             v == W[i]
             j == Join(u, v)
             n == new[i]
  <2>1. u \in Text /\ v \in Text
    BY <1>2, <1>3
  <2>2. n = Strip(j)
    BY <1>4
  <2> HIDE DEF u, v
  <2>3. j \in Text /\ CharsOf(j) = CharsOf(u) \cup CharsOf(v) /\ Len(j) <= Len(u) + Len(v) + 2
    BY <2>1, JoinIs
  <2> HIDE DEF j, n
  <2>4. n \in Text /\ CharsOf(n) = CharsOf(j) /\ Len(n) <= Len(j)
    BY <2>2, <2>3, StripIs
  <2>5. Len(u) \in Nat /\ Len(v) \in Nat /\ Len(j) \in Nat /\ Len(n) \in Nat
    BY <2>1, <2>3, <2>4, TextIs
  <2>6. Len(n) <= Len(u) + Len(v) + 2
    BY <2>3, <2>4, <2>5
  <2>7. QED
    BY <2>2, <2>3, <2>4, <2>6 DEF u, v, n, j
<1>6. new \in Seq(Text) /\ Len(new) = m
  <2>1. new \in [1..m -> Text]
    BY <1>4, <1>5
  <2>2. QED
    BY <1>2, <2>1
<1>7. SlideInto(s, W) = [result |-> s.result \o new, parts |-> W[Len(W)], prefix |-> <<>>]
  BY DEF SlideInto, new, NewChunks, Lead, Last
<1>8. s.result \o new \in Seq(Text) /\ W[Len(W)] \in Text
  <2>1. Len(W) \in 1..Len(W)
    OBVIOUS
  <2>2. QED
    BY <1>1, <1>2, <1>6, <2>1
<1>9. SlideInto(s, W) \in Collecting
  BY <1>7, <1>8, NothingIs DEF Collecting
<1>10. /\ NewChunks(s, W) \in Seq(Text) /\ Len(NewChunks(s, W)) = Len(W) - 1
       /\ SlideInto(s, W).result = s.result \o NewChunks(s, W)
       /\ SlideInto(s, W).parts = W[Len(W)]
       /\ SlideInto(s, W).prefix = <<>>
  BY <1>6, <1>7 DEF new, m
<1>11. ASSUME NEW i \in 1..(Len(W) - 1)
       PROVE  /\ Lead(s, W, i) \in Text
              /\ i # 1 => Len(Lead(s, W, i)) <= overlap /\ CharsOf(Lead(s, W, i)) \subseteq CharsOf(W[i - 1])
              /\ NewChunks(s, W)[i] = Strip(Join(Lead(s, W, i), W[i]))
              /\ CharsOf(NewChunks(s, W)[i]) = CharsOf(Lead(s, W, i)) \cup CharsOf(W[i])
              /\ Len(NewChunks(s, W)[i]) <= Len(Lead(s, W, i)) + Len(W[i]) + 2
  BY <1>3, <1>5 DEF new, m
<1>12. QED
  BY <1>9, <1>10, <1>11

LEMMA SlidingKeepsOrder ==
    ASSUME Sizes, NEW d, Mixed(d), NEW b \in 1..Len(d.blocks),
           NEW s, Order(AllChars(d), CharsUpTo(d, b - 1), s), s.parts = <<>>
    PROVE  Order(AllChars(d), CharsUpTo(d, b), SlideInto(s, Windows(d, b)))
<1> DEFINE W == Windows(d, b)
           A == AllChars(d)
           K == Known(s.result)
           m == Len(W)
           new == NewChunks(s, W)
           t == SlideInto(s, W)
<1>1. /\ s \in Collecting /\ s.result \in Seq(Text) /\ s.prefix \in Text
      /\ Orderly(A, s.result) /\ CharsOf(s.prefix) \subseteq K
      /\ K = CharsUpTo(d, b - 1) /\ NL \notin A
  <2>1. CharsOf(s.parts) = {}
    BY NothingIs
  <2>2. QED
    BY <2>1, BlocksAre DEF Order, Collecting
<1> HIDE DEF K
<1>2. /\ W \in Seq(Text) /\ m \in Nat \ {0}
      /\ \A k \in 1..m :
            /\ Fits(A, K \cup Before(W, k), W[k])
            /\ \A w \in Text : CharsOf(w) \subseteq K \cup Before(W, k) => Fits(A, K \cup Before(W, k), w)
      /\ K \cup Known(W) = CharsUpTo(d, b)
  BY <1>1, WindowsAre
<1> HIDE DEF W, A
<1>3. /\ new \in Seq(Text) /\ Len(new) = m - 1
      /\ \A i \in 1..(m - 1) :
            /\ Lead(s, W, i) \in Text
            /\ i # 1 => CharsOf(Lead(s, W, i)) \subseteq CharsOf(W[i - 1])
            /\ new[i] = Strip(Join(Lead(s, W, i), W[i]))
            /\ CharsOf(new[i]) = CharsOf(Lead(s, W, i)) \cup CharsOf(W[i])
      /\ t \in Collecting /\ t.result = s.result \o new /\ t.parts = W[m] /\ t.prefix = <<>>
  <2>1. W \in Seq(Text) /\ Len(W) \in Nat \ {0}
    BY <1>2
  <2>2. s \in Collecting
    BY <1>1
  <2> HIDE DEF m, new, t
  <2>3. /\ NewChunks(s, W) \in Seq(Text) /\ Len(NewChunks(s, W)) = Len(W) - 1
        /\ \A i \in 1..(Len(W) - 1) :
              /\ Lead(s, W, i) \in Text
              /\ i # 1 => Len(Lead(s, W, i)) <= overlap /\ CharsOf(Lead(s, W, i)) \subseteq CharsOf(W[i - 1])
              /\ NewChunks(s, W)[i] = Strip(Join(Lead(s, W, i), W[i]))
              /\ CharsOf(NewChunks(s, W)[i]) = CharsOf(Lead(s, W, i)) \cup CharsOf(W[i])
              /\ Len(NewChunks(s, W)[i]) <= Len(Lead(s, W, i)) + Len(W[i]) + 2
        /\ SlideInto(s, W) \in Collecting
        /\ SlideInto(s, W).result = s.result \o NewChunks(s, W)
        /\ SlideInto(s, W).parts = W[Len(W)]
        /\ SlideInto(s, W).prefix = <<>>
    BY <2>1, <2>2, SlideIntoIs
  <2>4. /\ new \in Seq(Text) /\ Len(new) = m - 1
        /\ t \in Collecting /\ t.result = s.result \o new /\ t.parts = W[m] /\ t.prefix = <<>>
    BY <2>3 DEF new, m, t
  <2>5. ASSUME NEW i \in 1..(m - 1)
        PROVE  /\ Lead(s, W, i) \in Text
               /\ i # 1 => CharsOf(Lead(s, W, i)) \subseteq CharsOf(W[i - 1])
               /\ new[i] = Strip(Join(Lead(s, W, i), W[i]))
               /\ CharsOf(new[i]) = CharsOf(Lead(s, W, i)) \cup CharsOf(W[i])
    BY <2>3 DEF new, m
  <2>6. QED
    BY <2>4, <2>5
<1> HIDE DEF m, new, t
<1>4. /\ \A k \in 1..m : W[k] \in Text
      /\ \A c : c \in Known(W) <=> \E k \in 1..m : c \in CharsOf(W[k])
      /\ \A k \in 1..(m + 1) : \A c : c \in Before(W, k) <=> \E j \in 1..(k - 1) : c \in CharsOf(W[j])
  BY <1>2, ChunksAre DEF m
<1>5. /\ \A c : c \in Known(new) <=> \E k \in 1..(m - 1) : c \in CharsOf(new[k])
      /\ \A k \in 1..m : \A c : c \in Before(new, k) <=> \E j \in 1..(k - 1) : c \in CharsOf(new[j])
      /\ Before(new, m) = Known(new)
      /\ DOMAIN new = 1..(m - 1)
  <2>1. (m - 1) + 1 = m
    BY <1>2
  <2>2. QED
    BY <1>3, <2>1, ChunksAre
<1>6. ASSUME NEW i \in 1..m
      PROVE  Before(W, i) \subseteq K \cup Before(new, i)
  <2>1. ASSUME NEW c \in Before(W, i) PROVE c \in Before(new, i)
    <3>1. PICK j \in 1..(i - 1) : c \in CharsOf(W[j])
      <4>1. i \in 1..(m + 1)
        BY <1>2
      <4>2. QED
        BY <1>4, <4>1
    <3>2. j \in 1..(m - 1)
      BY <1>2
    <3>3. c \in CharsOf(new[j])
      BY <1>3, <3>1, <3>2
    <3>4. QED
      BY <1>5, <3>3
  <2>2. QED
    BY <2>1
<1>7. ASSUME NEW i \in 1..(m - 1)
      PROVE  /\ CharsOf(Lead(s, W, i)) \subseteq K \cup Before(W, i)
             /\ Fits(A, K \cup Before(new, i), new[i])
  <2>1. i \in 1..m /\ i \in 1..(m + 1)
    BY <1>2
  <2>2. CharsOf(Lead(s, W, i)) \subseteq K \cup Before(W, i)
    <3>1. CASE i = 1
      BY <1>1, <3>1 DEF Lead
    <3>2. CASE i # 1
      <4>1. i - 1 \in 1..(i - 1)
        BY <3>2
      <4>2. CharsOf(W[i - 1]) \subseteq Before(W, i)
        BY <1>4, <2>1, <4>1
      <4>3. QED
        BY <1>3, <3>2, <4>2
    <3>3. QED
      BY <3>1, <3>2
  <2> DEFINE u == Lead(s, W, i)
             v == W[i]
             B == K \cup Before(W, i)
  <2>3. u \in Text /\ v \in Text /\ new[i] = Strip(Join(u, v))
    BY <1>3, <1>4, <2>1
  <2>4. Fits(A, B, u) /\ Fits(A, B, v)
    BY <1>2, <2>1, <2>2, <2>3
  <2> HIDE DEF u, v, B
  <2>5. Fits(A, B \cup CharsOf(u), v)
    BY <2>4, FitsMore
  <2>6. Fits(A, B, Join(u, v)) /\ Join(u, v) \in Text
    BY <1>1, <2>3, <2>4, <2>5, FitsJoin, JoinIs
  <2>7. Fits(A, B, new[i])
    BY <1>1, <2>3, <2>6, StripIs
  <2>8. B \subseteq K \cup Before(new, i)
    BY <1>6, <2>1 DEF B
  <2>9. Fits(A, K \cup Before(new, i), new[i])
    BY <2>7, <2>8, FitsMore
  <2>10. QED
    BY <2>2, <2>9
<1>8. Orderly(A, t.result) /\ Known(t.result) = K \cup Known(new)
  <2>1. \A i \in DOMAIN new : Fits(A, Known(s.result) \cup Before(new, i), new[i])
    BY <1>5, <1>7 DEF K
  <2>2. s.result \in Seq(Text) /\ new \in Seq(Text) /\ Orderly(A, s.result)
    BY <1>1, <1>3
  <2>2a. Orderly(A, s.result \o new) /\ Known(s.result \o new) = Known(s.result) \cup Known(new)
    BY <2>1, <2>2, MoreChunks
  <2>3. QED
    BY <1>3, <2>2a DEF K
<1>9. Fits(A, Known(t.result), t.parts)
  <2>1. m \in 1..m
    BY <1>2
  <2>2. Fits(A, K \cup Before(W, m), W[m])
    BY <1>2, <2>1
  <2>3. K \cup Before(W, m) \subseteq K \cup Known(new)
    BY <1>5, <1>6, <2>1
  <2>4. QED
    BY <1>3, <1>8, <2>2, <2>3, FitsMore
<1>10. Known(t.result) \cup CharsOf(t.parts) = CharsUpTo(d, b)
  <2>1. ASSUME NEW c \in Known(new) PROVE c \in K \cup Known(W)
    <3>1. PICK i \in 1..(m - 1) : c \in CharsOf(new[i])
      BY <1>5
    <3>2. i \in 1..m /\ i \in 1..(m + 1) /\ \A j \in 1..(i - 1) : j \in 1..m
      BY <1>2
    <3>3. c \in K \cup Before(W, i) \cup CharsOf(W[i])
      BY <1>3, <1>7, <3>1
    <3>4. Before(W, i) \subseteq Known(W) /\ CharsOf(W[i]) \subseteq Known(W)
      BY <1>4, <3>2
    <3>5. QED
      BY <3>3, <3>4
  <2>2. ASSUME NEW c \in Known(W) PROVE c \in Known(new) \cup CharsOf(W[m])
    <3>1. PICK k \in 1..m : c \in CharsOf(W[k])
      BY <1>4
    <3>2. CASE k = m
      BY <3>1, <3>2
    <3>3. CASE k # m
      <4>1. k \in 1..(m - 1)
        BY <1>2, <3>3
      <4>2. c \in CharsOf(new[k])
        BY <1>3, <3>1, <4>1
      <4>3. QED
        BY <1>5, <4>1, <4>2
    <3>4. QED
      BY <3>2, <3>3
  <2>3. CharsOf(W[m]) \subseteq Known(W)
    <3>1. m \in 1..m
      BY <1>2
    <3>2. QED
      BY <1>4, <3>1
  <2>4. QED
    BY <1>2, <1>3, <1>8, <2>1, <2>2, <2>3
<1>11. CharsOf(t.prefix) \subseteq Known(t.result)
  BY <1>3, NothingIs
<1>12. QED
  BY <1>3, <1>8, <1>9, <1>10, <1>11 DEF Order, A, t, W

-----------------------------------------------------------------------------
(* The length of the chunks, and the tables in them. *)

\* The text of a block, and whether block k is in one of some chunks, in one
\* piece, and nowhere else.
TextAt(d, b) == TextOf(b, d.blocks[b].len)
StandsAlone(d, r, k) ==
    \E i \in DOMAIN r :
       /\ \E from \in 0..Len(r[i]) : Holds(r[i], from, TextAt(d, k))
       /\ \A j \in DOMAIN r \ {i} : \A c \in Range(r[j]) : c[1] # k

Short(d, w) == Len(w) <= max + 2 * overlap + 2 \/ \E c \in CharsOf(w) : d.blocks[c[1]].table
Untabled(d, b, w) == \A c \in CharsOf(w) : c[1] \in 1..b => ~d.blocks[c[1]].table

Pieces(d, b, r) ==
    /\ \A i \in DOMAIN r : Short(d, r[i])
    /\ \A k \in 1..b : d.blocks[k].table => StandsAlone(d, r, k)

\* Of the loop over the blocks, after b of them.
Sound(d, b, s) ==
    /\ Order(AllChars(d), CharsUpTo(d, b), s)
    /\ Pieces(d, b, s.result)
    /\ Untabled(d, b, s.parts) /\ Untabled(d, b, s.prefix)
    /\ Len(s.parts) <= max + overlap /\ Len(s.prefix) <= overlap

LEMMA PiecesGrow ==
    ASSUME NEW d, NEW b \in Nat, NEW r \in Seq(Text), NEW more \in Seq(Text), Pieces(d, b, r),
           \A i \in DOMAIN more : Short(d, more[i]) /\ Untabled(d, b, more[i])
    PROVE  Pieces(d, b, r \o more)
<1> DEFINE t == r \o more
<1>1. Len(r) \in Nat /\ Len(more) \in Nat /\ DOMAIN r = 1..Len(r) /\ DOMAIN more = 1..Len(more)
  BY ChunksAre
<1>2. /\ t \in Seq(Text) /\ Len(t) = Len(r) + Len(more)
      /\ \A k \in 1..Len(r) : t[k] = r[k]
      /\ \A i \in 1..Len(more) : t[Len(r) + i] = more[i]
  BY <1>1
<1> HIDE DEF t
<1>3. DOMAIN t = 1..(Len(r) + Len(more))
  BY <1>2, ChunksAre
<1>4. \A k \in DOMAIN t : k \in DOMAIN r \/ (k - Len(r) \in DOMAIN more /\ Len(r) + (k - Len(r)) = k)
  BY <1>1, <1>3
<1>5. \A k \in DOMAIN r : k \in DOMAIN t /\ t[k] = r[k]
  BY <1>1, <1>2, <1>3
<1>6. \A k \in DOMAIN t : k \in DOMAIN r \/ \E i \in DOMAIN more : t[k] = more[i]
  <2>1. ASSUME NEW k \in DOMAIN t, k \notin DOMAIN r PROVE \E i \in DOMAIN more : t[k] = more[i]
    <3> DEFINE i == k - Len(r)
    <3>1. i \in DOMAIN more /\ Len(r) + i = k
      BY <1>4, <2>1
    <3> HIDE DEF i
    <3>2. t[Len(r) + i] = more[i]
      BY <1>1, <1>2, <3>1
    <3>3. QED
      BY <3>1, <3>2
  <2>2. QED
    BY <2>1
<1>7. \A k \in DOMAIN t : Short(d, t[k])
  BY <1>5, <1>6 DEF Pieces
<1>8. ASSUME NEW k \in 1..b, d.blocks[k].table
      PROVE  StandsAlone(d, t, k)
  <2>1. PICK i \in DOMAIN r :
           /\ \E from \in 0..Len(r[i]) : Holds(r[i], from, TextAt(d, k))
           /\ \A j \in DOMAIN r \ {i} : \A c \in Range(r[j]) : c[1] # k
    BY <1>8 DEF Pieces, StandsAlone
  <2>2. i \in DOMAIN t /\ t[i] = r[i]
    BY <1>5
  <2>3. ASSUME NEW j \in DOMAIN t \ {i}, NEW c \in Range(t[j])
        PROVE  c[1] # k
    <3>1. CASE j \in DOMAIN r
      BY <1>5, <2>1, <2>3, <3>1
    <3>2. CASE j \notin DOMAIN r
      <4>1. PICK n \in DOMAIN more : t[j] = more[n]
        BY <1>6, <3>2
      <4>2. more[n] \in Text /\ Untabled(d, b, more[n])
        BY <1>1, <4>1, ChunksAre
      <4>3. CASE c = NL
        BY <4>3 DEF NL
      <4>4. CASE c # NL
        <5>1. c \in CharsOf(more[n])
          BY <2>3, <4>1, <4>4 DEF CharsOf
        <5>2. QED
          BY <1>8, <4>2, <5>1 DEF Untabled
      <4>5. QED
        BY <4>3, <4>4
    <3>3. QED
      BY <3>1, <3>2
  <2>4. QED
    BY <2>1, <2>2, <2>3 DEF StandsAlone
<1>9. QED
  BY <1>7, <1>8 DEF Pieces, t

\* What a flush adds.
Added(s, extra) == IF Full(s, extra) = <<>> THEN <<>> ELSE <<Full(s, extra)>>
LEMMA AddedIs ==
    ASSUME Sizes, NEW s \in Collecting, NEW extra \in Text, NEW isTable \in BOOLEAN
    PROVE  /\ Added(s, extra) \in Seq(Text)
           /\ Flush(s, extra, isTable).result = s.result \o Added(s, extra)
           /\ \A i \in DOMAIN Added(s, extra) : Added(s, extra)[i] = Full(s, extra)
<1> DEFINE full == Full(s, extra)
           t == Flush(s, extra, isTable)
<1>1. full \in Text /\ s.result \in Seq(Text)
      /\ t.result = IF full = <<>> THEN s.result ELSE Append(s.result, full)
  BY FlushIs DEF Collecting
<1> HIDE DEF full, t
<1>2. CASE full = <<>>
  <2>1. Added(s, extra) = <<>>
    BY <1>2 DEF Added, full
  <2>2. QED
    BY <1>1, <1>2, <2>1 DEF t
<1>3. CASE full # <<>>
  <2>1. Added(s, extra) = <<full>>
    BY <1>3 DEF Added, full
  <2>2. <<full>> \in Seq(Text) /\ s.result \o <<full>> = Append(s.result, full) /\ \A i \in DOMAIN <<full>> : <<full>>[i] = full
    BY <1>1
  <2>3. QED
    BY <1>1, <1>3, <2>1, <2>2 DEF t, full
<1>4. QED
  BY <1>2, <1>3

LEMMA PlainFlushIsSound ==
    ASSUME Sizes, NEW d, Mixed(d), NEW b \in 0..Len(d.blocks), NEW s, Sound(d, b, s)
    PROVE  Sound(d, b, Flush(s, <<>>, FALSE)) /\ Flush(s, <<>>, FALSE).parts = <<>>
<1> DEFINE t == Flush(s, <<>>, FALSE)
           A == AllChars(d)
           U == CharsUpTo(d, b)
           content == Content(s, <<>>)
           full == Full(s, <<>>)
<1>1. /\ s \in Collecting /\ s.result \in Seq(Text) /\ s.parts \in Text /\ s.prefix \in Text
      /\ b \in Nat /\ <<>> \in Text /\ CharsOf(<<>>) = {} /\ Fits(A, U, <<>>) /\ NL \notin A
  BY NothingIs, BlocksAre DEF Sound, Order, Collecting
<1>2. /\ content \in Text /\ full \in Text
      /\ CharsOf(content) = CharsOf(s.parts)
      /\ CharsOf(full) = CharsOf(s.prefix) \cup CharsOf(content)
      /\ Len(full) <= Len(s.prefix) + Len(content) + 2
      /\ t.parts = <<>> /\ Len(t.prefix) <= overlap
      /\ CharsOf(t.prefix) \subseteq CharsOf(content)
  <2>1. FALSE \in BOOLEAN
    OBVIOUS
  <2>2. /\ content \in Text /\ full \in Text
        /\ CharsOf(content) = CharsOf(s.parts) \cup CharsOf(<<>>)
        /\ CharsOf(full) = CharsOf(s.prefix) \cup CharsOf(content)
        /\ Len(full) <= Len(s.prefix) + Len(content) + 2
        /\ t.parts = <<>> /\ Len(t.prefix) <= overlap
        /\ CharsOf(t.prefix) \subseteq CharsOf(content)
    BY <1>1, <2>1, FlushIs
  <2>3. QED
    BY <1>1, <2>2
<1>3. Order(A, U, t)
  <2>1. Order(A, U, s) /\ FALSE \in BOOLEAN
    BY DEF Sound
  <2>2. Order(A, U \cup CharsOf(<<>>), t)
    BY <1>1, <2>1, FlushKeepsOrder
  <2>3. U \cup CharsOf(<<>>) = U
    BY <1>1
  <2>4. QED
    BY <2>2, <2>3
<1>4. content = s.parts
  BY <1>1, JoinIs DEF Content
<1>5. Short(d, full) /\ Untabled(d, b, full)
  <2>1. Len(full) \in Nat /\ Len(s.parts) \in Nat /\ Len(s.prefix) \in Nat
    BY <1>1, <1>2, TextIs
  <2>2. Len(s.parts) <= max + overlap /\ Len(s.prefix) <= overlap /\ Len(full) <= Len(s.prefix) + Len(s.parts) + 2
    BY <1>2, <1>4 DEF Sound
  <2>3. Len(full) <= max + 2 * overlap + 2
    <3>1. max \in Nat /\ overlap \in Nat
      BY DEF Sizes
    <3> DEFINE n == Len(full)
               p == Len(s.parts)
               q == Len(s.prefix)
    <3>2. n \in Nat /\ p \in Nat /\ q \in Nat /\ p <= max + overlap /\ q <= overlap /\ n <= q + p + 2
      BY <2>1, <2>2
    <3> HIDE DEF n, p, q
    <3>3. n <= max + 2 * overlap + 2
      BY <3>1, <3>2
    <3>4. QED
      BY <3>3 DEF n
  <2>4. QED
    BY <1>2, <2>3 DEF Short, Untabled, Sound
<1> HIDE DEF t, full, content
<1>6. Pieces(d, b, t.result)
  <2>1. /\ Added(s, <<>>) \in Seq(Text) /\ t.result = s.result \o Added(s, <<>>)
        /\ \A i \in DOMAIN Added(s, <<>>) : Added(s, <<>>)[i] = full
    <3>1. FALSE \in BOOLEAN
      OBVIOUS
    <3>2. QED
      BY <1>1, <3>1, AddedIs DEF t, full
  <2>2. Pieces(d, b, s.result)
    BY DEF Sound
  <2>3. QED
    BY <1>1, <1>5, <2>1, <2>2, PiecesGrow
<1>7. Untabled(d, b, t.parts) /\ Untabled(d, b, t.prefix) /\ Len(t.parts) <= max + overlap
  <2>1. Untabled(d, b, t.prefix)
    BY <1>2 DEF Untabled, Sound
  <2>2. Untabled(d, b, t.parts)
    BY <1>1, <1>2 DEF Untabled
  <2>3. Len(t.parts) = 0
    BY <1>2, NothingIs
  <2>4. QED
    BY <2>1, <2>2, <2>3 DEF Sizes
<1>8. QED
  BY <1>2, <1>3, <1>6, <1>7 DEF Sound, t

\* A text stands in a text made of it.
LEMMA HoldsIn ==
    ASSUME NEW u \in Text, NEW w \in Text, w # <<>>, \A i \in DOMAIN w : w[i] # NL,
           NEW from \in Nat, Holds(u, from, w)
    PROVE  \E a \in Nat : a <= Len(Strip(u)) /\ Holds(Strip(u), a, w)
<1>1. Len(u) \in Nat /\ Len(w) \in Nat \ {0} /\ DOMAIN u = 1..Len(u) /\ DOMAIN w = 1..Len(w)
      /\ CharsOf(u) = {u[p] : p \in 1..Len(u)} \ {NL}
  <2>1. Len(w) # 0
    BY DEF Text
  <2>2. QED
    BY <2>1, TextIs
<1>2. from + Len(w) <= Len(u) /\ \A x \in 1..Len(w) : u[from + x] = w[x] /\ u[from + x] # NL /\ from + x \in 1..Len(u)
  BY <1>1 DEF Holds
<1>3. CharsOf(u) # {}
  <2>1. 1 \in 1..Len(w)
    BY <1>1
  <2>2. u[from + 1] \in CharsOf(u)
    BY <1>1, <1>2, <2>1
  <2>3. QED
    BY <2>2
<1>4. PICK a \in 1..Len(u), z \in 1..Len(u) :
         /\ a <= z /\ Strip(u) = SubSeq(u, a, z)
         /\ \A p \in 1..Len(u) : u[p] # NL => p \in a..z
  BY <1>3, StripIs
<1> DEFINE t == SubSeq(u, a, z)
<1>5. t \in Text /\ Len(t) = z - a + 1 /\ \A p \in 1..(z - a + 1) : t[p] = u[a - 1 + p]
  <2>1. a \in Nat /\ z \in Nat /\ 1 <= a /\ a <= z + 1 /\ z <= Len(u)
    BY <1>1, <1>4
  <2>2. QED
    BY <2>1, SubIs
<1> HIDE DEF t
<1> DEFINE off == from - (a - 1)
<1>6. \A x \in 1..Len(w) : from + x \in a..z
  BY <1>2, <1>4
<1>7. off \in Nat /\ off + Len(w) <= z - a + 1
  <2>1. 1 \in 1..Len(w) /\ Len(w) \in 1..Len(w)
    BY <1>1
  <2>2. from + 1 \in a..z /\ from + Len(w) \in a..z
    BY <1>6, <2>1
  <2>3. QED
    BY <1>1, <1>4, <2>2
<1>8. \A x \in 1..Len(w) : off + x \in 1..(z - a + 1) /\ a - 1 + (off + x) = from + x
  BY <1>1, <1>4, <1>7
<1> HIDE DEF off
<1>9. \A x \in 1..Len(w) : t[off + x] = w[x]
  BY <1>2, <1>5, <1>8
<1>10. Holds(t, off, w)
  BY <1>1, <1>5, <1>7, <1>9 DEF Holds
<1>11. off <= Len(t)
  BY <1>1, <1>4, <1>5, <1>7
<1>12. QED
  BY <1>4, <1>7, <1>10, <1>11 DEF t

LEMMA HoldsBehind ==
    ASSUME NEW u \in Text, NEW v \in Text, NEW w \in Text, NEW from \in Nat, Holds(v, from, w)
    PROVE  \E a \in Nat : Holds(Join(u, v), a, w)
<1>1. Len(u) \in Nat /\ Len(v) \in Nat /\ Len(w) \in Nat /\ DOMAIN w = 1..Len(w)
  BY TextIs
<1>2. CASE u = <<>> \/ v = <<>>
  <2>1. CASE u = <<>>
    <3>1. Join(u, v) = v
      BY <2>1, JoinIs
    <3>2. QED
      BY <3>1
  <2>2. CASE v = <<>>
    <3>1. Len(v) = 0
      BY <2>2
    <3>2. Len(w) = 0 /\ DOMAIN w = {}
      BY <1>1, <3>1 DEF Holds
    <3>3. Join(u, v) \in Text
      BY JoinIs
    <3>4. Len(Join(u, v)) \in Nat
      BY <3>3, TextIs
    <3>5. Holds(Join(u, v), 0, w)
      BY <3>2, <3>4 DEF Holds
    <3>6. QED
      BY <3>5
  <2>3. QED
    BY <1>2, <2>1, <2>2
<1>3. CASE u # <<>> /\ v # <<>>
  <2> DEFINE f == u \o Blank
             t == f \o v
             a == Len(f) + from
  <2>1. Join(u, v) = t
    BY <1>3, JoinIs
  <2>2. Blank \in Text
    BY DEF Blank, NL, Text, Char
  <2>3. f \in Text
    BY <2>2, ConcatIs
  <2> HIDE DEF f
  <2>4. Len(f) \in Nat /\ Len(t) = Len(f) + Len(v) /\ \A p \in 1..Len(v) : t[Len(f) + p] = v[p]
    BY <2>3, ConcatIs, TextIs
  <2> HIDE DEF t
  <2>5. from + Len(w) <= Len(v) /\ \A x \in 1..Len(w) : v[from + x] = w[x]
    BY <1>1 DEF Holds
  <2>6. ASSUME NEW x \in 1..Len(w) PROVE t[a + x] = w[x]
    <3>1. from + x \in 1..Len(v) /\ Len(f) + (from + x) = a + x
      BY <1>1, <2>4, <2>5
    <3>2. t[Len(f) + (from + x)] = v[from + x]
      BY <2>4, <3>1
    <3>3. QED
      BY <2>5, <3>1, <3>2
  <2>7. a \in Nat /\ a + Len(w) <= Len(t)
    BY <1>1, <2>4, <2>5
  <2>8. Holds(t, a, w)
    BY <1>1, <2>6, <2>7 DEF Holds
  <2>9. QED
    BY <2>1, <2>7, <2>8
<1>4. QED
  BY <1>2, <1>3

LEMMA OwnBlockFits ==
    ASSUME NEW d, Mixed(d), NEW b \in 1..Len(d.blocks)
    PROVE  /\ b \in Nat \ {0} /\ b - 1 \in Nat
           /\ TextAt(d, b) \in Text /\ TextAt(d, b) # <<>> /\ CharsOf(TextAt(d, b)) # {}
           /\ Len(TextAt(d, b)) = d.blocks[b].len
           /\ \A i \in DOMAIN TextAt(d, b) : TextAt(d, b)[i] # NL
           /\ CharsOf(TextAt(d, b)) = {<<b, i>> : i \in 1..d.blocks[b].len}
           /\ \A c \in CharsOf(TextAt(d, b)) : c[1] = b
           /\ Fits(AllChars(d), CharsUpTo(d, b - 1), TextAt(d, b))
           /\ CharsUpTo(d, b - 1) \cup CharsOf(TextAt(d, b)) = CharsUpTo(d, b)
           /\ \A c \in CharsUpTo(d, b - 1) : c[1] \in 1..(b - 1)
<1> DEFINE len == d.blocks[b].len
           text == TextAt(d, b)
<1>1. len \in Nat \ {0} /\ b \in Nat \ {0} /\ b - 1 \in Nat
  BY BlocksAre
<1>2. /\ text \in Text /\ Len(text) = len
      /\ \A i \in 1..len : text[i] = <<b, i>> /\ <<b, i>> # NL
      /\ CharsOf(text) = {<<b, i>> : i \in 1..len}
  BY <1>1, BlockText DEF TextAt
<1>3. CharsUpTo(d, b - 1) \cup CharsOf(text) = CharsUpTo(d, b) /\ Initial(d, b, 0) = CharsUpTo(d, b - 1)
  BY CharsGrow DEF TextAt
<1> HIDE DEF text, len
<1>4. DOMAIN text = 1..len
  BY <1>2, TextIs
<1>5. text # <<>> /\ CharsOf(text) # {}
  <2>1. 1 \in 1..len
    BY <1>1
  <2>2. <<b, 1>> \in CharsOf(text) /\ DOMAIN text # {}
    BY <1>2, <1>4, <2>1
  <2>3. QED
    BY <2>2
<1>6. Fits(AllChars(d), CharsUpTo(d, b - 1), text)
  <2>1. 0 \in Nat /\ len \in Nat /\ \A p \in 1..len : text[p] = <<b, 0 + p>>
    BY <1>1, <1>2
  <2>2. Initial(d, b, 0) \subseteq CharsUpTo(d, b - 1)
    BY <1>3
  <2>3. QED
    BY <1>2, <2>1, <2>2, ContinuationFits
<1>7. \A c \in CharsUpTo(d, b - 1) : c[1] \in 1..(b - 1)
  BY DEF CharsUpTo
<1>8. \A c \in CharsOf(text) : c[1] = b
  BY <1>2
<1>9. \A i \in DOMAIN text : text[i] # NL
  BY <1>2, <1>4
<1>10. QED
  BY <1>1, <1>2, <1>3, <1>5, <1>6, <1>7, <1>8, <1>9 DEF text, len

\* Of what was made of earlier blocks nothing is of block b.
LEMMA EarlierBlocks ==
    ASSUME NEW d, Mixed(d), NEW b \in 1..Len(d.blocks), NEW s, Sound(d, b - 1, s)
    PROVE  /\ s \in Collecting /\ s.result \in Seq(Text) /\ s.parts \in Text /\ s.prefix \in Text
           /\ \A c \in CharsOf(s.parts) \cup CharsOf(s.prefix) : c[1] \in 1..(b - 1) /\ ~d.blocks[c[1]].table
           /\ \A i \in DOMAIN s.result : \A c \in Range(s.result[i]) : c[1] # b
<1> DEFINE U == CharsUpTo(d, b - 1)
<1>1. /\ s \in Collecting /\ s.result \in Seq(Text) /\ s.parts \in Text /\ s.prefix \in Text
      /\ CharsOf(s.prefix) \subseteq Known(s.result)
      /\ Known(s.result) \cup CharsOf(s.parts) = U
      /\ Untabled(d, b - 1, s.parts) /\ Untabled(d, b - 1, s.prefix)
  BY DEF Sound, Order, Collecting
<1>2. b \in Nat \ {0} /\ \A c \in U : c[1] \in 1..(b - 1)
  BY OwnBlockFits
<1> HIDE DEF U
<1>3. \A c \in CharsOf(s.parts) \cup CharsOf(s.prefix) : c[1] \in 1..(b - 1) /\ ~d.blocks[c[1]].table
  BY <1>1, <1>2 DEF Untabled
<1>4. ASSUME NEW i \in DOMAIN s.result, NEW c \in Range(s.result[i])
      PROVE  c[1] # b
  <2>1. CASE c = NL
    <3>1. c[1] = 0
      BY <2>1 DEF NL
    <3>2. QED
      BY <1>2, <3>1
  <2>2. CASE c # NL
    <3>1. c \in CharsOf(s.result[i])
      BY <1>4, <2>2 DEF CharsOf
    <3>2. c \in Known(s.result)
      BY <3>1 DEF Known
    <3>3. c[1] \in 1..(b - 1)
      BY <1>1, <1>2, <3>2
    <3>4. QED
      BY <1>2, <3>3
  <2>3. QED
    BY <2>1, <2>2
<1>5. QED
  BY <1>1, <1>3, <1>4

LEMMA TableFlushIsSound ==
    ASSUME Sizes, NEW d, Mixed(d), NEW b \in 1..Len(d.blocks), NEW s, Sound(d, b - 1, s),
           d.blocks[b].table
    PROVE  Sound(d, b, Flush(s, TextAt(d, b), TRUE))
<1> DEFINE text == TextAt(d, b)
           t == Flush(s, text, TRUE)
           A == AllChars(d)
           U == CharsUpTo(d, b - 1)
           content == Content(s, text)
           full == Full(s, text)
<1>1. /\ s \in Collecting /\ s.result \in Seq(Text) /\ s.parts \in Text /\ s.prefix \in Text
      /\ \A c \in CharsOf(s.parts) \cup CharsOf(s.prefix) : c[1] \in 1..(b - 1) /\ ~d.blocks[c[1]].table
      /\ \A i \in DOMAIN s.result : \A c \in Range(s.result[i]) : c[1] # b
  BY EarlierBlocks
<1>2. /\ b \in Nat \ {0} /\ b - 1 \in Nat
      /\ text \in Text /\ text # <<>> /\ CharsOf(text) # {} /\ (\A i \in DOMAIN text : text[i] # NL)
      /\ (\A c \in CharsOf(text) : c[1] = b)
      /\ Fits(A, U, text) /\ U \cup CharsOf(text) = CharsUpTo(d, b) /\ NL \notin A
  BY OwnBlockFits, BlocksAre
<1> HIDE DEF text
<1>3. TRUE \in BOOLEAN
  OBVIOUS
<1>4. /\ content \in Text /\ full \in Text
      /\ CharsOf(content) = CharsOf(s.parts) \cup CharsOf(text)
      /\ CharsOf(full) = CharsOf(s.prefix) \cup CharsOf(content)
      /\ (full = <<>> <=> CharsOf(full) = {})
      /\ t.parts = <<>>
      /\ t.prefix = IF TRUE THEN <<>> ELSE GetOverlap(content)
      /\ t.result = IF full = <<>> THEN s.result ELSE Append(s.result, full)
  BY <1>1, <1>2, <1>3, FlushIs
<1>5. full # <<>> /\ t.result = Append(s.result, full) /\ t.prefix = <<>>
  BY <1>2, <1>4
<1>6. Order(A, CharsUpTo(d, b), t)
  <2>1. Order(A, U, s)
    BY DEF Sound
  <2>2. Order(A, U \cup CharsOf(text), t)
    BY <1>2, <1>3, <2>1, FlushKeepsOrder
  <2>3. QED
    BY <1>2, <2>2
<1>7. \E a \in 0..Len(full) : Holds(full, a, text)
  <2>1. Len(text) \in Nat /\ DOMAIN text = 1..Len(text)
    BY <1>2, TextIs
  <2>2. Holds(text, 0, text)
    BY <2>1 DEF Holds
  <2>3. PICK x \in Nat : Holds(content, x, text)
    BY <1>1, <1>2, <2>2, HoldsBehind DEF Content
  <2> DEFINE j == Join(s.prefix, content)
  <2>4. j \in Text /\ full = Strip(j)
    BY <1>1, <1>4, JoinIs DEF Full
  <2> HIDE DEF content
  <2>5. PICK y \in Nat : Holds(j, y, text)
    BY <1>1, <1>2, <1>4, <2>3, HoldsBehind
  <2> HIDE DEF j, full
  <2>6. PICK a \in Nat : a <= Len(Strip(j)) /\ Holds(Strip(j), a, text)
    BY <1>2, <2>4, <2>5, HoldsIn
  <2>7. Len(full) \in Nat /\ a <= Len(full)
    BY <1>4, <2>4, <2>6, TextIs
  <2>8. a \in 0..Len(full) /\ Holds(full, a, text)
    BY <2>4, <2>6, <2>7
  <2>9. QED
    BY <2>8
<1>8. Short(d, full) /\ Untabled(d, b - 1, full)
  <2>1. PICK c \in CharsOf(text) : TRUE
    BY <1>2
  <2>2. c \in CharsOf(full) /\ d.blocks[c[1]].table
    BY <1>2, <1>4
  <2>3. ASSUME NEW e \in CharsOf(full), e[1] \in 1..(b - 1) PROVE ~d.blocks[e[1]].table
    <3>1. e \in CharsOf(text) => e[1] = b
      BY <1>2
    <3>2. e \notin CharsOf(text)
      BY <1>2, <2>3, <3>1
    <3>3. e \in CharsOf(s.parts) \cup CharsOf(s.prefix)
      BY <1>4, <3>2
    <3>4. QED
      BY <1>1, <3>3
  <2>4. QED
    BY <2>2, <2>3 DEF Short, Untabled
<1> HIDE DEF t, full, content
<1>9. Pieces(d, b, t.result)
  <2> DEFINE r == Append(s.result, full)
             n == Len(s.result)
  <2>1. s.result \o <<full>> = r /\ <<full>> \in Seq(Text) /\ \A i \in DOMAIN <<full>> : <<full>>[i] = full
    BY <1>1, <1>4
  <2>2. Pieces(d, b - 1, r)
    <3>1. Pieces(d, b - 1, s.result)
      BY DEF Sound
    <3> DEFINE more == <<full>>
    <3>2. more \in Seq(Text) /\ \A i \in DOMAIN more : Short(d, more[i]) /\ Untabled(d, b - 1, more[i])
      BY <1>8, <2>1
    <3> HIDE DEF more
    <3>3. Pieces(d, b - 1, s.result \o more)
      BY <1>1, <1>2, <3>1, <3>2, PiecesGrow
    <3>4. QED
      BY <2>1, <3>3 DEF more
  <2>3. n \in Nat /\ DOMAIN s.result = 1..n /\ DOMAIN r = 1..(n + 1) /\ r[n + 1] = full /\ \A i \in 1..n : r[i] = s.result[i]
    BY <1>1, <1>4
  <2> HIDE DEF r, n
  <2>4. StandsAlone(d, r, b)
    <3>1. n + 1 \in DOMAIN r /\ r[n + 1] = full /\ \A j \in DOMAIN r \ {n + 1} : j \in DOMAIN s.result /\ r[j] = s.result[j]
      BY <2>3
    <3>2. QED
      BY <1>1, <1>7, <3>1 DEF StandsAlone, text
  <2>5. \A k \in 1..b : k = b \/ k \in 1..(b - 1)
    BY <1>2
  <2>6. QED
    BY <1>5, <2>2, <2>4, <2>5 DEF Pieces, r
<1>10. Untabled(d, b, <<>>) /\ Len(<<>>) <= max + overlap /\ Len(<<>>) <= overlap
  BY NothingIs DEF Untabled, Sizes
<1>11. QED
  BY <1>4, <1>5, <1>6, <1>9, <1>10 DEF Sound, t, text

\* A block that is no table changes nothing of what is said of tables.
LEMMA NoTable ==
    ASSUME NEW d, NEW b \in Nat \ {0}, ~d.blocks[b].table
    PROVE  /\ \A w : Untabled(d, b - 1, w) => Untabled(d, b, w)
           /\ \A r : Pieces(d, b - 1, r) => Pieces(d, b, r)
<1>1. \A k \in 1..b : k = b \/ k \in 1..(b - 1)
  OBVIOUS
<1>2. QED
  BY <1>1 DEF Untabled, Pieces

LEMMA KeepingIsSound ==
    ASSUME Sizes, NEW d, Mixed(d), NEW b \in 1..Len(d.blocks), NEW s, Sound(d, b - 1, s),
           ~d.blocks[b].table, Len(TextAt(d, b)) <= max,
           s.parts = <<>> \/ Len(Join(s.parts, TextAt(d, b))) <= max
    PROVE  Sound(d, b, [s EXCEPT !.parts = Join(@, TextAt(d, b))])
<1> DEFINE text == TextAt(d, b)
           t == [s EXCEPT !.parts = Join(@, text)]
           A == AllChars(d)
           U == CharsUpTo(d, b - 1)
<1>1. /\ s \in Collecting /\ s.result \in Seq(Text) /\ s.parts \in Text /\ s.prefix \in Text
  BY EarlierBlocks
<1>2. /\ b \in Nat \ {0} /\ text \in Text /\ (\A c \in CharsOf(text) : c[1] = b)
      /\ Fits(A, U, text) /\ U \cup CharsOf(text) = CharsUpTo(d, b) /\ NL \notin A
  BY OwnBlockFits, BlocksAre
<1>3. Len(Join(s.parts, text)) <= max
  <2>1. s.parts = <<>> => Join(s.parts, text) = text
    BY <1>1, <1>2, JoinIs
  <2>2. QED
    BY <2>1
<1> HIDE DEF text
<1>4. t.result = s.result /\ t.prefix = s.prefix /\ t.parts = Join(s.parts, text)
  BY <1>1 DEF Collecting
<1>5. Order(A, CharsUpTo(d, b), t)
  <2>1. Order(A, U, s)
    BY DEF Sound
  <2>2. Order(A, U \cup CharsOf(text), t)
    BY <1>2, <2>1, KeepingKeepsOrder
  <2>3. QED
    BY <1>2, <2>2
<1> HIDE DEF t
<1>6. Join(s.parts, text) \in Text /\ CharsOf(Join(s.parts, text)) = CharsOf(s.parts) \cup CharsOf(text)
  BY <1>1, <1>2, JoinIs
<1>7. Untabled(d, b, s.parts) /\ Untabled(d, b, s.prefix) /\ Pieces(d, b, s.result)
  BY <1>2, NoTable DEF Sound
<1>8. Untabled(d, b, Join(s.parts, text))
  BY <1>2, <1>6, <1>7 DEF Untabled
<1>9. Len(Join(s.parts, text)) <= max + overlap
  <2>1. Len(Join(s.parts, text)) \in Nat
    BY <1>6, TextIs
  <2>2. QED
    BY <1>3, <2>1 DEF Sizes
<1>10. Len(s.prefix) <= overlap
  BY DEF Sound
<1>11. QED
  BY <1>4, <1>5, <1>7, <1>8, <1>9, <1>10 DEF Sound, t, text

LEMMA SlidingIsSound ==
    ASSUME Sizes, NEW d, Mixed(d), NEW b \in 1..Len(d.blocks), NEW s, Sound(d, b - 1, s),
           ~d.blocks[b].table, s.parts = <<>>
    PROVE  Sound(d, b, SlideInto(s, Windows(d, b)))
<1> DEFINE W == Windows(d, b)
           t == SlideInto(s, W)
           new == NewChunks(s, W)
           m == Len(W)
<1>1. /\ s \in Collecting /\ s.result \in Seq(Text) /\ s.parts \in Text /\ s.prefix \in Text
      /\ \A c \in CharsOf(s.parts) \cup CharsOf(s.prefix) : c[1] \in 1..(b - 1) /\ ~d.blocks[c[1]].table
  BY EarlierBlocks
<1>2. b \in Nat \ {0}
  BY OwnBlockFits
<1>3. /\ W \in Seq(Text) /\ m \in Nat \ {0}
      /\ \A k \in 1..m : Len(W[k]) <= max + overlap /\ \A c \in CharsOf(W[k]) : c[1] = b
  BY WindowsAre
<1>4. Order(AllChars(d), CharsUpTo(d, b), t)
  BY SlidingKeepsOrder DEF Sound
<1> HIDE DEF W
<1>5. /\ new \in Seq(Text) /\ Len(new) = m - 1
      /\ \A i \in 1..(m - 1) :
            /\ Lead(s, W, i) \in Text
            /\ (i # 1 => Len(Lead(s, W, i)) <= overlap /\ CharsOf(Lead(s, W, i)) \subseteq CharsOf(W[i - 1]))
            /\ CharsOf(new[i]) = CharsOf(Lead(s, W, i)) \cup CharsOf(W[i])
            /\ Len(new[i]) <= Len(Lead(s, W, i)) + Len(W[i]) + 2
      /\ t.result = s.result \o new /\ t.parts = W[m] /\ t.prefix = <<>>
  <2>1. W \in Seq(Text) /\ Len(W) \in Nat \ {0}
    BY <1>3
  <2> HIDE DEF m, new, t
  <2>2. /\ NewChunks(s, W) \in Seq(Text) /\ Len(NewChunks(s, W)) = Len(W) - 1
        /\ \A i \in 1..(Len(W) - 1) :
              /\ Lead(s, W, i) \in Text
              /\ i # 1 => Len(Lead(s, W, i)) <= overlap /\ CharsOf(Lead(s, W, i)) \subseteq CharsOf(W[i - 1])
              /\ NewChunks(s, W)[i] = Strip(Join(Lead(s, W, i), W[i]))
              /\ CharsOf(NewChunks(s, W)[i]) = CharsOf(Lead(s, W, i)) \cup CharsOf(W[i])
              /\ Len(NewChunks(s, W)[i]) <= Len(Lead(s, W, i)) + Len(W[i]) + 2
        /\ SlideInto(s, W) \in Collecting
        /\ SlideInto(s, W).result = s.result \o NewChunks(s, W)
        /\ SlideInto(s, W).parts = W[Len(W)]
        /\ SlideInto(s, W).prefix = <<>>
    BY <1>1, <2>1, SlideIntoIs
  <2>3. /\ new \in Seq(Text) /\ Len(new) = m - 1
        /\ t.result = s.result \o new /\ t.parts = W[m] /\ t.prefix = <<>>
    BY <2>2 DEF new, m, t
  <2>4. ASSUME NEW i \in 1..(m - 1)
        PROVE  /\ Lead(s, W, i) \in Text
               /\ (i # 1 => Len(Lead(s, W, i)) <= overlap /\ CharsOf(Lead(s, W, i)) \subseteq CharsOf(W[i - 1]))
               /\ CharsOf(new[i]) = CharsOf(Lead(s, W, i)) \cup CharsOf(W[i])
               /\ Len(new[i]) <= Len(Lead(s, W, i)) + Len(W[i]) + 2
    BY <2>2 DEF new, m
  <2>5. QED
    BY <2>3, <2>4
<1> HIDE DEF t, new, m
<1>6. ASSUME NEW i \in 1..(m - 1)
      PROVE  Short(d, new[i]) /\ Untabled(d, b, new[i])
  <2> DEFINE u == Lead(s, W, i)
  <2>1. i \in 1..m /\ new[i] \in Text /\ W[i] \in Text
    <3>1. i \in 1..m /\ i \in 1..Len(new) /\ m = Len(W)
      BY <1>3, <1>5 DEF m
    <3>2. QED
      BY <1>3, <1>5, <3>1, ChunksAre
  <2>2. Len(u) <= overlap /\ \A c \in CharsOf(u) : c[1] \in 1..b => ~d.blocks[c[1]].table
    <3>1. CASE i = 1
      <4>1. u = s.prefix
        BY <3>1 DEF Lead
      <4>2. QED
        BY <1>1, <4>1 DEF Sound
    <3>2. CASE i # 1
      <4>1. i - 1 \in 1..m /\ CharsOf(u) \subseteq CharsOf(W[i - 1]) /\ Len(u) <= overlap
        BY <1>3, <1>5, <3>2
      <4>2. QED
        BY <1>3, <4>1
    <3>3. QED
      BY <3>1, <3>2
  <2>3. Len(W[i]) <= max + overlap /\ \A c \in CharsOf(W[i]) : ~d.blocks[c[1]].table
    BY <1>3, <2>1
  <2>4. Len(new[i]) <= Len(u) + Len(W[i]) + 2 /\ CharsOf(new[i]) = CharsOf(u) \cup CharsOf(W[i]) /\ u \in Text
    BY <1>5
  <2> HIDE DEF u
  <2>5. Len(new[i]) <= max + 2 * overlap + 2
    <3>1. max \in Nat /\ overlap \in Nat
      BY DEF Sizes
    <3> DEFINE n == Len(new[i])
               p == Len(W[i])
               q == Len(u)
    <3>2. n \in Nat /\ p \in Nat /\ q \in Nat /\ p <= max + overlap /\ q <= overlap /\ n <= q + p + 2
      BY <2>1, <2>2, <2>3, <2>4, TextIs
    <3> HIDE DEF n, p, q
    <3>3. n <= max + 2 * overlap + 2
      BY <3>1, <3>2
    <3>4. QED
      BY <3>3 DEF n
  <2>6. QED
    BY <2>2, <2>3, <2>4, <2>5 DEF Short, Untabled
<1>7. Pieces(d, b, t.result)
  <2>1. Pieces(d, b, s.result)
    BY <1>2, NoTable DEF Sound
  <2>2. DOMAIN new = 1..(m - 1)
    BY <1>5, ChunksAre
  <2>3. \A i \in DOMAIN new : Short(d, new[i]) /\ Untabled(d, b, new[i])
    BY <1>6, <2>2
  <2>4. b \in Nat
    BY <1>2
  <2>5. Pieces(d, b, s.result \o new)
    BY <1>1, <1>5, <2>1, <2>3, <2>4, PiecesGrow
  <2>6. QED
    BY <1>5, <2>5
<1>8. Untabled(d, b, W[m]) /\ Len(W[m]) <= max + overlap
  <2>1. m \in 1..m
    BY <1>3
  <2>2. QED
    BY <1>3, <2>1 DEF Untabled
<1>9. Untabled(d, b, <<>>) /\ Len(<<>>) <= overlap
  BY NothingIs DEF Untabled, Sizes
<1>10. QED
  BY <1>4, <1>5, <1>7, <1>8, <1>9 DEF Sound, t, W

\* What _chunk_mixed_content does with block b.
LEMMA AddBlockIsSound ==
    ASSUME Sizes, NEW d, Mixed(d), NEW b \in 1..Len(d.blocks), NEW s, Sound(d, b - 1, s)
    PROVE  Sound(d, b, AddBlock(s, d.blocks[b], TextAt(d, b)))
<1> DEFINE text == TextAt(d, b)
           t == IF Exceeds(s, text) THEN Flush(s, <<>>, FALSE) ELSE s
<1>1. b - 1 \in 0..Len(d.blocks) /\ d.blocks[b].table \in BOOLEAN
  <2>1. Len(d.blocks) \in Nat /\ d.blocks[b].table \in BOOLEAN
    BY BlocksAre
  <2>2. QED
    BY <2>1
<1>2. Sound(d, b - 1, t) /\ (t.parts = <<>> \/ Len(Join(t.parts, text)) <= max)
  <2>1. CASE Exceeds(s, text)
    BY <1>1, <2>1, PlainFlushIsSound
  <2>2. CASE ~Exceeds(s, text)
    <3>1. s.parts \in Text /\ text \in Text
      BY EarlierBlocks, OwnBlockFits
    <3>2. Len(Join(s.parts, text)) \in Nat /\ max \in Nat
      BY <3>1, JoinIs, TextIs DEF Sizes
    <3> HIDE DEF text
    <3>3. s.parts = <<>> \/ Len(Join(s.parts, text)) <= max
      BY <2>2, <3>2 DEF Exceeds
    <3>4. QED
      BY <2>2, <3>3
  <2>3. QED
    BY <2>1, <2>2
<1>3. AddBlock(s, d.blocks[b], text) =
         IF d.blocks[b].table THEN Flush(t, text, TRUE)
         ELSE IF Len(text) > max THEN SlideInto(t, Slide(text, d.blocks[b].breaks))
         ELSE [t EXCEPT !.parts = Join(@, text)]
  BY DEF AddBlock
<1> HIDE DEF t
<1>4. CASE d.blocks[b].table
  <2>1. Sound(d, b, Flush(t, text, TRUE))
    BY <1>2, <1>4, TableFlushIsSound
  <2>2. QED
    BY <1>3, <1>4, <2>1
<1>5. CASE ~d.blocks[b].table /\ Len(text) > max
  <2>1. t.parts = <<>>
    <3>1. t.parts \in Text /\ text \in Text
      BY <1>2, EarlierBlocks, OwnBlockFits
    <3>2. Len(text) <= Len(Join(t.parts, text)) /\ Len(Join(t.parts, text)) \in Nat /\ Len(text) \in Nat /\ max \in Nat
      BY <3>1, JoinIs, TextIs DEF Sizes
    <3> HIDE DEF text
    <3>3. QED
      BY <1>2, <1>5, <3>2
  <2>2. Sound(d, b, SlideInto(t, Windows(d, b)))
    BY <1>2, <1>5, <2>1, SlidingIsSound
  <2>3. Windows(d, b) = Slide(text, d.blocks[b].breaks)
    BY DEF Windows, TextAt
  <2>4. QED
    BY <1>3, <1>5, <2>2, <2>3
<1>6. CASE ~d.blocks[b].table /\ ~(Len(text) > max)
  <2>1. Len(text) <= max
    <3>1. text \in Text
      BY OwnBlockFits
    <3>2. Len(text) \in Nat /\ max \in Nat
      BY <3>1, TextIs DEF Sizes
    <3> HIDE DEF text
    <3>3. QED
      BY <1>6, <3>2
  <2>2. Sound(d, b, [t EXCEPT !.parts = Join(@, text)])
    BY <1>2, <1>6, <2>1, KeepingIsSound
  <2>3. QED
    BY <1>3, <1>6, <2>2
<1>7. QED
  BY <1>4, <1>5, <1>6

\* The same step from a state that is not sound: it is never taken.
Step(d, b, s) == IF Sound(d, b - 1, s) THEN AddBlock(s, d.blocks[b], TextAt(d, b)) ELSE s

LEMMA StartIsSound ==
    ASSUME Sizes, NEW d, Mixed(d)
    PROVE  Start \in Collecting /\ Sound(d, 0, Start)
<1>1. Start \in Collecting /\ Start.result = <<>> /\ Start.parts = <<>> /\ Start.prefix = <<>>
  BY NothingIs DEF Start, Collecting
<1>2. CharsUpTo(d, 0) = {}
  BY DEF CharsUpTo
<1>3. Order(AllChars(d), CharsUpTo(d, 0), Start)
  BY <1>1, <1>2, NothingIs DEF Order
<1>4. Untabled(d, 0, <<>>) /\ Pieces(d, 0, <<>>) /\ Len(<<>>) <= max + overlap /\ Len(<<>>) <= overlap
  BY NothingIs DEF Untabled, Pieces, Sizes
<1>5. QED
  BY <1>1, <1>3, <1>4 DEF Sound

LEMMA CollectedIs ==
    ASSUME Sizes, NEW d, Mixed(d)
    PROVE  Sound(d, Len(d.blocks), Collected(d))
<1> DEFINE n == Len(d.blocks)
           V == Collecting
           step == [x \in (1..n) \X V |-> Step(d, x[1], x[2])]
           after == CHOOSE g : g = [b \in 0..Len(d.blocks) |->
                       IF b = 0 THEN [result |-> <<>>, parts |-> <<>>, prefix |-> <<>>]
                       ELSE AddBlock(g[b - 1], d.blocks[b], TextOf(b, d.blocks[b].len))]
<1>1. n \in Nat
  BY BlocksAre
<1>2. Collected(d) = after[n]
  BY DEF Collected
<1>3. step \in Steps(n, V)
  <2>1. ASSUME NEW b \in 1..n, NEW s \in V PROVE Step(d, b, s) \in V
    <3>1. CASE Sound(d, b - 1, s)
      <4>1. Sound(d, b, AddBlock(s, d.blocks[b], TextAt(d, b)))
        BY <3>1, AddBlockIsSound
      <4>2. QED
        BY <3>1, <4>1 DEF Step, Sound, Order
    <3>2. CASE ~Sound(d, b - 1, s)
      BY <3>2 DEF Step
    <3>3. QED
      BY <3>1, <3>2
  <2> HIDE DEF V, n
  <2>2. \A x \in (1..n) \X V : Step(d, x[1], x[2]) \in V
    BY <2>1
  <2>3. QED
    BY <2>2 DEF Steps
<1>4. PICK f \in [0..n -> V] : f[0] = Start /\ \A i \in 1..n : f[i] = step[<<i, f[i - 1]>>]
  <2>1. Start \in V
    BY StartIsSound
  <2> HIDE DEF step, V, n
  <2>2. QED
    BY <1>1, <1>3, <2>1, Recursion
<1>5. \A i \in 1..n : i - 1 \in 0..n /\ f[i - 1] \in V /\ f[i] = Step(d, i, f[i - 1])
  <2>1. TAKE i \in 1..n
  <2>2. i - 1 \in 0..n
    BY <1>1
  <2> HIDE DEF V, n
  <2>3. f[i - 1] \in V
    BY <1>4, <2>2
  <2>4. <<i, f[i - 1]>> \in (1..n) \X V
    BY <2>3
  <2>5. step[<<i, f[i - 1]>>] = Step(d, i, f[i - 1])
    BY <2>4
  <2>6. QED
    BY <1>4, <2>2, <2>3, <2>5
<1> HIDE DEF step
<1>6. \A i \in 0..n : Sound(d, i, f[i])
  <2> DEFINE Wrong == {i \in 0..n : ~Sound(d, i, f[i])}
  <2>1. SUFFICES ASSUME Wrong # {} PROVE FALSE
    OBVIOUS
  <2>2. Wrong \in SUBSET Nat
    BY <1>1
  <2>3. PICK i \in Wrong : \A j \in Wrong : i <= j
    <3> HIDE DEF Wrong
    <3>1. QED
      BY <2>1, <2>2, LeastNumber
  <2>4. i # 0
    <3>1. Sound(d, 0, f[0])
      BY <1>4, StartIsSound
    <3>2. QED
      BY <2>3, <3>1
  <2>5. i \in 1..n /\ i - 1 \in 0..n /\ ~(i <= i - 1)
    BY <1>1, <2>3, <2>4
  <2>6. i - 1 \notin Wrong
    <3> HIDE DEF Wrong
    <3>1. QED
      BY <2>3, <2>5
  <2>7. Sound(d, i - 1, f[i - 1])
    BY <2>5, <2>6
  <2>8. f[i] = AddBlock(f[i - 1], d.blocks[i], TextAt(d, i))
    BY <1>5, <2>5, <2>7 DEF Step
  <2>9. Sound(d, i, f[i])
    BY <2>5, <2>7, <2>8, AddBlockIsSound
  <2>10. QED
    BY <2>3, <2>9
<1>7. f = [b \in 0..n |-> IF b = 0 THEN Start ELSE AddBlock(f[b - 1], d.blocks[b], TextAt(d, b))]
  <2>1. \A b \in 1..n : f[b] = AddBlock(f[b - 1], d.blocks[b], TextAt(d, b))
    BY <1>5, <1>6 DEF Step
  <2>2. \A b \in 0..n : b = 0 \/ b \in 1..n
    BY <1>1
  <2> HIDE DEF n
  <2>3. QED
    BY <1>4, <2>1, <2>2
<1>8. after = [b \in 0..n |-> IF b = 0 THEN Start ELSE AddBlock(after[b - 1], d.blocks[b], TextAt(d, b))]
  BY <1>7 DEF TextAt, Start
<1> HIDE DEF after
<1>9. \A i \in 0..n : Sound(d, i, after[i])
  <2> DEFINE Wrong == {i \in 0..n : ~Sound(d, i, after[i])}
  <2>1. SUFFICES ASSUME Wrong # {} PROVE FALSE
    OBVIOUS
  <2>2. Wrong \in SUBSET Nat
    BY <1>1
  <2>3. PICK i \in Wrong : \A j \in Wrong : i <= j
    <3> HIDE DEF Wrong
    <3>1. QED
      BY <2>1, <2>2, LeastNumber
  <2>4. after[0] = Start
    <3>1. 0 \in 0..n
      BY <1>1
    <3> HIDE DEF n
    <3>2. QED
      BY <1>8, <3>1
  <2>5. i # 0
    BY <2>3, <2>4, StartIsSound
  <2>6. i \in 1..n /\ i \in 0..n /\ i - 1 \in 0..n /\ ~(i <= i - 1)
    BY <1>1, <2>3, <2>5
  <2>7. i - 1 \notin Wrong
    <3> HIDE DEF Wrong
    <3>1. QED
      BY <2>3, <2>6
  <2>8. Sound(d, i - 1, after[i - 1])
    BY <2>6, <2>7
  <2>9. after[i] = AddBlock(after[i - 1], d.blocks[i], TextAt(d, i))
    <3> HIDE DEF n
    <3>1. QED
      BY <1>8, <2>5, <2>6
  <2>10. Sound(d, i, after[i])
    BY <2>6, <2>8, <2>9, AddBlockIsSound
  <2>11. QED
    BY <2>3, <2>10
<1>10. n \in 0..n
  BY <1>1
<1>11. QED
  BY <1>2, <1>9, <1>10

\* What is made of a document of blocks.
LEMMA ChunkMixedContentIs ==
    ASSUME Sizes, NEW d, Mixed(d)
    PROVE  /\ ChunkMixedContent(d) \in Seq(Text)
           /\ Orderly(AllChars(d), ChunkMixedContent(d))
           /\ Known(ChunkMixedContent(d)) = AllChars(d)
           /\ Pieces(d, Len(d.blocks), ChunkMixedContent(d))
<1> DEFINE last == Collected(d)
           t == IF last.parts = <<>> THEN last ELSE Flush(last, <<>>, FALSE)
           n == Len(d.blocks)
<1>1. n \in 0..n
  <2>1. n \in Nat
    BY BlocksAre
  <2>2. QED
    BY <2>1
<1>2. Sound(d, n, last)
  BY CollectedIs
<1> HIDE DEF last
<1>3. Sound(d, n, t) /\ t.parts = <<>>
  <2>1. CASE last.parts = <<>>
    BY <1>2, <2>1
  <2>2. CASE last.parts # <<>>
    BY <1>1, <1>2, <2>2, PlainFlushIsSound
  <2>3. QED
    BY <2>1, <2>2
<1>4. ChunkMixedContent(d) = t.result
  BY DEF ChunkMixedContent, last
<1> HIDE DEF t
<1>5. CharsOf(t.parts) = {}
  BY <1>3, NothingIs
<1>6. t.result \in Seq(Text) /\ Orderly(AllChars(d), t.result) /\ Known(t.result) = AllChars(d) /\ Pieces(d, n, t.result)
  BY <1>3, <1>5 DEF Sound, Order, Collecting, AllChars
<1>7. QED
  BY <1>4, <1>6

-----------------------------------------------------------------------------
(* The source of a document. *)

\* The characters of a text come in their order, and once.
InOrder(w) == \A x, y \in DOMAIN w : x < y /\ w[x] # NL /\ w[y] # NL => Earlier(w[x], w[y])

LEMMA EarlierIsAnOrder ==
    ASSUME NEW c \in Char, NEW e \in Char
    PROVE  ~(Earlier(c, e) /\ Earlier(e, c)) /\ ~Earlier(c, c)
BY DEF Earlier, Char

LEMMA InOrderConcat ==
    ASSUME NEW u \in Text, NEW v \in Text, InOrder(u), InOrder(v),
           \A c \in CharsOf(u), e \in CharsOf(v) : Earlier(c, e)
    PROVE  InOrder(u \o v)
<1> DEFINE t == u \o v
<1>1. /\ Len(u) \in Nat /\ Len(v) \in Nat /\ DOMAIN u = 1..Len(u) /\ DOMAIN v = 1..Len(v)
      /\ CharsOf(u) = {u[p] : p \in 1..Len(u)} \ {NL} /\ CharsOf(v) = {v[p] : p \in 1..Len(v)} \ {NL}
  BY TextIs
<1>2. /\ t \in Text /\ Len(t) = Len(u) + Len(v)
      /\ \A p \in 1..Len(u) : t[p] = u[p]
      /\ \A p \in 1..Len(v) : t[Len(u) + p] = v[p]
      /\ \A p \in 1..(Len(u) + Len(v)) : p \in 1..Len(u) \/ p - Len(u) \in 1..Len(v)
  BY ConcatIs
<1> HIDE DEF t
<1>3. DOMAIN t = 1..(Len(u) + Len(v))
  BY <1>2, TextIs
<1>4. \A p \in DOMAIN t : p \in 1..Len(u) \/ (p - Len(u) \in 1..Len(v) /\ t[p] = v[p - Len(u)])
  <2>1. ASSUME NEW p \in DOMAIN t, p - Len(u) \in 1..Len(v) PROVE t[p] = v[p - Len(u)]
    <3> DEFINE i == p - Len(u)
    <3>1. i \in 1..Len(v) /\ Len(u) + i = p
      BY <1>1, <1>3, <2>1
    <3> HIDE DEF i
    <3>2. t[Len(u) + i] = v[i]
      BY <1>2, <3>1
    <3>3. QED
      BY <3>1, <3>2 DEF i
  <2>2. QED
    BY <1>2, <1>3, <2>1
<1>5. ASSUME NEW x \in DOMAIN t, NEW y \in DOMAIN t, x < y, t[x] # NL, t[y] # NL
      PROVE  Earlier(t[x], t[y])
  <2>1. x \in Int /\ y \in Int
    BY <1>3
  <2>2. CASE x \in 1..Len(u) /\ y \in 1..Len(u)
    BY <1>1, <1>2, <1>5, <2>2 DEF InOrder
  <2>3. CASE x \in 1..Len(u) /\ y \notin 1..Len(u)
    <3>1. t[x] = u[x] /\ y - Len(u) \in 1..Len(v) /\ t[y] = v[y - Len(u)]
      BY <1>2, <1>4, <2>3
    <3>2. t[x] \in CharsOf(u) /\ t[y] \in CharsOf(v)
      BY <1>1, <1>5, <2>3, <3>1
    <3>3. QED
      BY <3>2
  <2>4. CASE x \notin 1..Len(u)
    <3>1. x - Len(u) \in 1..Len(v) /\ t[x] = v[x - Len(u)]
      BY <1>4, <2>4
    <3>2. y \notin 1..Len(u)
      BY <1>1, <1>5, <2>1, <3>1
    <3>3. y - Len(u) \in 1..Len(v) /\ t[y] = v[y - Len(u)]
      BY <1>4, <3>2
    <3>4. x - Len(u) < y - Len(u)
      BY <1>1, <1>5, <2>1
    <3>5. QED
      BY <1>1, <1>5, <3>1, <3>3, <3>4 DEF InOrder
  <2>5. QED
    BY <2>2, <2>3, <2>4
<1>6. QED
  BY <1>5 DEF InOrder, t

LEMMA InOrderJoin ==
    ASSUME NEW u \in Text, NEW v \in Text, InOrder(u), InOrder(v),
           \A c \in CharsOf(u), e \in CharsOf(v) : Earlier(c, e)
    PROVE  InOrder(Join(u, v))
<1>1. CASE u = <<>> \/ v = <<>>
  BY <1>1 DEF Join
<1>2. CASE u # <<>> /\ v # <<>>
  <2>1. Blank \in Text /\ DOMAIN Blank = 1..2 /\ \A p \in 1..2 : Blank[p] = NL
    <3>1. Blank \in Text /\ Len(Blank) = 2 /\ Blank[1] = NL /\ Blank[2] = NL
      BY DEF Blank, NL, Text, Char
    <3>2. DOMAIN Blank = 1..2
      BY <3>1, TextIs
    <3>3. QED
      BY <3>1, <3>2
  <2> DEFINE f == u \o Blank
  <2>2. CharsOf(Blank) = {} /\ InOrder(Blank)
    BY <2>1 DEF CharsOf, Range, InOrder
  <2>3. f \in Text /\ CharsOf(f) = CharsOf(u) \cup CharsOf(Blank)
    BY <2>1, ConcatIs
  <2>4. InOrder(f)
    BY <2>1, <2>2, InOrderConcat
  <2> HIDE DEF f
  <2>5. CharsOf(f) = CharsOf(u)
    BY <2>2, <2>3
  <2>6. InOrder(f \o v)
    BY <2>3, <2>4, <2>5, InOrderConcat
  <2>7. QED
    BY <1>2, <2>6, JoinIs DEF f
<1>3. QED
  BY <1>1, <1>2

LEMMA HoldsInFront ==
    ASSUME NEW u \in Text, NEW v \in Text, NEW w \in Text, NEW from \in Nat, Holds(u, from, w)
    PROVE  Holds(u \o v, from, w) /\ Holds(Join(u, v), from, w)
<1>1. Len(u) \in Nat /\ Len(v) \in Nat /\ Len(w) \in Nat /\ DOMAIN w = 1..Len(w)
  BY TextIs
<1>2. \A z \in Text : Holds(u \o z, from, w)
  <2>1. TAKE z \in Text
  <2>2. Len(z) \in Nat /\ Len(u \o z) = Len(u) + Len(z) /\ \A p \in 1..Len(u) : (u \o z)[p] = u[p]
    BY ConcatIs, TextIs
  <2>3. from + Len(w) <= Len(u) /\ \A x \in 1..Len(w) : u[from + x] = w[x] /\ from + x \in 1..Len(u)
    BY <1>1 DEF Holds
  <2>4. from + Len(w) <= Len(u \o z)
    BY <1>1, <2>2, <2>3
  <2>5. \A x \in 1..Len(w) : (u \o z)[from + x] = w[x]
    BY <2>2, <2>3
  <2>6. QED
    BY <1>1, <2>4, <2>5 DEF Holds
<1>3. CASE u = <<>>
  <2>1. Len(u) = 0
    BY <1>3
  <2>2. Len(w) = 0 /\ from = 0 /\ DOMAIN w = {}
    BY <1>1, <2>1 DEF Holds
  <2>3. Join(u, v) = v
    BY <1>3, JoinIs
  <2>4. Holds(v, from, w)
    BY <1>1, <2>2 DEF Holds
  <2>5. QED
    BY <1>2, <2>3, <2>4
<1>4. CASE u # <<>> /\ v = <<>>
  <2>1. Join(u, v) = u
    BY <1>4, JoinIs
  <2>2. QED
    BY <1>2, <2>1
<1>5. CASE u # <<>> /\ v # <<>>
  <2>1. Join(u, v) = (u \o Blank) \o v /\ Blank \in Text
    <3>1. Blank \in Text
      BY DEF Blank, NL, Text, Char
    <3>2. QED
      BY <1>5, <3>1, JoinIs
  <2>2. (u \o Blank) \o v = u \o (Blank \o v) /\ Blank \o v \in Text
    BY <2>1 DEF Text
  <2>3. Holds(u \o (Blank \o v), from, w)
    BY <1>2, <2>2
  <2>4. QED
    BY <1>2, <2>1, <2>2, <2>3
<1>6. QED
  BY <1>3, <1>4, <1>5

\* The first b blocks of a document, written.
Written(d, b, w) ==
    /\ w \in Text /\ CharsOf(w) = CharsUpTo(d, b) /\ InOrder(w)
    /\ \A k \in 1..b : \E from \in Nat : Holds(w, from, TextAt(d, k))

LEMMA WrittenMore ==
    ASSUME NEW d, Mixed(d), NEW b \in 1..Len(d.blocks), NEW w, Written(d, b - 1, w)
    PROVE  Written(d, b, Join(w, TextAt(d, b)))
<1> DEFINE text == TextAt(d, b)
           t == Join(w, text)
<1>1. /\ b \in Nat \ {0} /\ text \in Text /\ CharsUpTo(d, b - 1) \cup CharsOf(text) = CharsUpTo(d, b)
      /\ CharsOf(text) = {<<b, i>> : i \in 1..d.blocks[b].len}
      /\ \A c \in CharsOf(text) : c[1] = b
      /\ \A c \in CharsUpTo(d, b - 1) : c[1] \in 1..(b - 1)
  BY OwnBlockFits
<1>2. w \in Text /\ CharsOf(w) = CharsUpTo(d, b - 1) /\ InOrder(w)
      /\ \A k \in 1..(b - 1) : \E from \in Nat : Holds(w, from, TextAt(d, k))
  BY DEF Written
<1>3. DOMAIN text = 1..d.blocks[b].len /\ \A i \in 1..d.blocks[b].len : text[i] = <<b, i>>
  <2>1. d.blocks[b].len \in Nat
    BY BlocksAre
  <2>2. QED
    BY <2>1 DEF TextAt, TextOf
<1>4. InOrder(text)
  BY <1>3 DEF InOrder, Earlier
<1>5. \A c \in CharsOf(w), e \in CharsOf(text) : Earlier(c, e)
  BY <1>1, <1>2 DEF Earlier
<1> HIDE DEF text
<1>6. t \in Text /\ CharsOf(t) = CharsOf(w) \cup CharsOf(text) /\ InOrder(t)
  BY <1>1, <1>2, <1>4, <1>5, JoinIs, InOrderJoin
<1>7. ASSUME NEW k \in 1..b PROVE \E from \in Nat : Holds(t, from, TextAt(d, k))
  <2>1. CASE k = b
    <3>1. Len(text) \in Nat /\ Holds(text, 0, text)
      BY <1>1, TextIs DEF Holds
    <3>2. \E from \in Nat : Holds(t, from, text)
      BY <1>1, <1>2, <3>1, HoldsBehind
    <3>3. QED
      BY <2>1, <3>2 DEF text
  <2>2. CASE k # b
    <3>1. k \in 1..(b - 1) /\ k \in 1..Len(d.blocks)
      <4>1. Len(d.blocks) \in Nat
        BY BlocksAre
      <4>2. QED
        BY <1>1, <2>2, <4>1
    <3>2. TextAt(d, k) \in Text
      BY <3>1, OwnBlockFits
    <3>3. PICK from \in Nat : Holds(w, from, TextAt(d, k))
      BY <1>2, <3>1
    <3>4. Holds(t, from, TextAt(d, k))
      BY <1>1, <1>2, <3>2, <3>3, HoldsInFront
    <3>5. QED
      BY <3>4
  <2>3. QED
    BY <2>1, <2>2
<1>8. QED
  BY <1>1, <1>2, <1>6, <1>7 DEF Written, text

LEMMA ProseIs ==
    ASSUME NEW d, Mixed(d)
    PROVE  Written(d, Len(d.blocks), Source(d))
<1> DEFINE n == Len(d.blocks)
           step == [x \in (1..n) \X Text |-> Join(x[2], TextAt(d, x[1]))]
           upTo == CHOOSE g : g = [b \in 0..Len(d.blocks) |->
                      IF b = 0 THEN <<>> ELSE Join(g[b - 1], TextOf(b, d.blocks[b].len))]
<1>1. n \in Nat /\ Source(d) = upTo[n]
  BY BlocksAre DEF Source, Prose, Mixed
<1>2. step \in Steps(n, Text)
  <2>1. ASSUME NEW b \in 1..n, NEW w \in Text PROVE Join(w, TextAt(d, b)) \in Text
    BY OwnBlockFits, JoinIs
  <2> HIDE DEF n
  <2>2. \A x \in (1..n) \X Text : Join(x[2], TextAt(d, x[1])) \in Text
    BY <2>1
  <2>3. QED
    BY <2>2 DEF Steps
<1>3. PICK f \in [0..n -> Text] : f[0] = <<>> /\ \A i \in 1..n : f[i] = step[<<i, f[i - 1]>>]
  <2>1. <<>> \in Text
    BY NothingIs
  <2> HIDE DEF step, n
  <2>2. QED
    BY <1>1, <1>2, <2>1, Recursion
<1>4. \A i \in 1..n : f[i] = Join(f[i - 1], TextAt(d, i))
  <2>1. TAKE i \in 1..n
  <2>2. i - 1 \in 0..n
    BY <1>1
  <2> HIDE DEF n
  <2>3. <<i, f[i - 1]>> \in (1..n) \X Text
    BY <1>3, <2>2
  <2>4. QED
    BY <1>3, <2>3
<1> HIDE DEF step
<1>5. f = [b \in 0..n |-> IF b = 0 THEN <<>> ELSE Join(f[b - 1], TextAt(d, b))]
  <2>1. \A b \in 0..n : b = 0 \/ b \in 1..n
    BY <1>1
  <2> HIDE DEF n
  <2>2. QED
    BY <1>3, <1>4, <2>1
<1>6. upTo = [b \in 0..n |-> IF b = 0 THEN <<>> ELSE Join(upTo[b - 1], TextAt(d, b))]
  BY <1>5 DEF TextAt
<1> HIDE DEF upTo
<1>7. \A i \in 0..n : Written(d, i, upTo[i])
  <2> DEFINE Wrong == {i \in 0..n : ~Written(d, i, upTo[i])}
  <2>1. SUFFICES ASSUME Wrong # {} PROVE FALSE
    OBVIOUS
  <2>2. Wrong \in SUBSET Nat
    BY <1>1
  <2>3. PICK i \in Wrong : \A j \in Wrong : i <= j
    <3> HIDE DEF Wrong
    <3>1. QED
      BY <2>1, <2>2, LeastNumber
  <2>4. i # 0
    <3>1. 0 \in 0..n
      BY <1>1
    <3>2. upTo[0] = <<>>
      <4> HIDE DEF n
      <4>1. QED
        BY <1>6, <3>1
    <3>3. CharsUpTo(d, 0) = {} /\ InOrder(<<>>)
      BY DEF CharsUpTo, InOrder
    <3>4. Written(d, 0, <<>>)
      BY <3>3, NothingIs DEF Written
    <3>5. QED
      BY <2>3, <3>2, <3>4
  <2>5. i \in 1..n /\ i \in 0..n /\ i - 1 \in 0..n /\ ~(i <= i - 1)
    BY <1>1, <2>3, <2>4
  <2>6. i - 1 \notin Wrong
    <3> HIDE DEF Wrong
    <3>1. QED
      BY <2>3, <2>5
  <2>7. Written(d, i - 1, upTo[i - 1])
    BY <2>5, <2>6
  <2>8. upTo[i] = Join(upTo[i - 1], TextAt(d, i))
    <3> HIDE DEF n
    <3>1. QED
      BY <1>6, <2>4, <2>5
  <2>9. Written(d, i, upTo[i])
    BY <2>5, <2>7, <2>8, WrittenMore
  <2>10. QED
    BY <2>3, <2>9
<1>8. n \in 0..n
  BY <1>1
<1>9. QED
  BY <1>1, <1>7, <1>8

-----------------------------------------------------------------------------
(* Documents that are a table. *)

Table(d) == d \in Document /\ IsTable(d)

LEMMA TableIs ==
    ASSUME NEW d, Table(d)
    PROVE  d.pre \in Nat /\ d.separators \in 0..1 /\ d.rows \in Nat /\ d.post \in Nat
BY DEF Table, Document, IsTable

\* Some lines of one part of the document.
Lines(w, part, off, m) ==
    /\ w \in Text /\ part \in Nat \ {0} /\ off \in Nat /\ m \in Nat
    /\ Len(w) = m /\ \A i \in 1..m : w[i] = <<part, off + i>>

LEMMA LinesAre ==
    ASSUME NEW w, NEW part, NEW off, NEW m, Lines(w, part, off, m)
    PROVE  InOrder(w) /\ CharsOf(w) = {<<part, i>> : i \in (off + 1)..(off + m)}
           /\ (\A c \in CharsOf(w) : c[1] = part /\ c[2] \in (off + 1)..(off + m))
           /\ \A i \in DOMAIN w : w[i] # NL
<1> USE DEF Lines
<1>1. DOMAIN w = 1..m /\ CharsOf(w) = {w[i] : i \in 1..m} \ {NL}
  BY TextIs
<1>2. InOrder(w)
  BY <1>1 DEF InOrder, Earlier
<1>3. \A i \in 1..m : w[i] # NL /\ off + i \in (off + 1)..(off + m)
  BY DEF NL
<1>4. \A i \in (off + 1)..(off + m) : i - off \in 1..m /\ off + (i - off) = i
  OBVIOUS
<1>5. \A i \in (off + 1)..(off + m) : w[i - off] = <<part, i>>
  BY <1>4
<1>6. CharsOf(w) = {<<part, i>> : i \in (off + 1)..(off + m)}
  <2>1. \A c : c \in CharsOf(w) => c \in {<<part, i>> : i \in (off + 1)..(off + m)}
    BY <1>1, <1>3
  <2>2. ASSUME NEW i \in (off + 1)..(off + m) PROVE <<part, i>> \in CharsOf(w)
    BY <1>1, <1>3, <1>4, <1>5
  <2>3. QED
    BY <2>1, <2>2
<1>7. \A c \in CharsOf(w) : c[1] = part /\ c[2] \in (off + 1)..(off + m)
  BY <1>6
<1>8. QED
  BY <1>1, <1>2, <1>3, <1>6, <1>7

\* A text that is in order can follow what is known when it leaves no gap.
LEMMA NoGapFits ==
    ASSUME NEW A, NEW K, NEW w \in Text, InOrder(w),
           \A c \in A, e \in CharsOf(w) : Earlier(c, e) => c \in K \cup CharsOf(w)
    PROVE  Fits(A, K, w)
<1>1. DOMAIN w = 1..Len(w) /\ Len(w) \in Nat /\ CharsOf(w) = {w[p] : p \in 1..Len(w)} \ {NL}
      /\ \A p \in 1..Len(w) : w[p] \in Char
  BY TextIs
<1>2. SUFFICES ASSUME NEW p \in 1..Len(w), w[p] # NL, NEW c \in A, Earlier(c, w[p]), c \notin K
               PROVE  \E q \in 1..(p - 1) : w[q] = c
  BY <1>1 DEF Fits
<1>3. w[p] \in CharsOf(w)
  BY <1>1, <1>2
<1>4. PICK x \in 1..Len(w) : w[x] = c /\ c # NL
  BY <1>1, <1>2, <1>3
<1>5. w[x] \in Char /\ w[p] \in Char
  BY <1>1
<1>6. x # p
  BY <1>2, <1>4, <1>5, EarlierIsAnOrder
<1>7. ~(p < x)
  <2>1. p < x => Earlier(w[p], w[x])
    BY <1>1, <1>2, <1>4 DEF InOrder
  <2>2. QED
    BY <1>2, <1>4, <1>5, <2>1, EarlierIsAnOrder
<1>8. x \in 1..(p - 1)
  BY <1>1, <1>6, <1>7
<1>9. QED
  BY <1>4, <1>8

\* The rows of group g are those behind the first From(g), up to To(d, g).
Groups(d) == IF d.rows = 0 THEN 1 ELSE (d.rows + TableRowsPerChunk - 1) \div TableRowsPerChunk
From(g) == (g - 1) * TableRowsPerChunk
To(d, g) == Min({g * TableRowsPerChunk, d.rows})

LEMMA DivisionRoundsDown ==
    ASSUME NEW x \in Nat, NEW n \in Nat \ {0}
    PROVE  x \div n \in Nat /\ (x \div n) * n <= x /\ x < (x \div n) * n + n
OBVIOUS

LEMMA ProductsGrow ==
    ASSUME NEW n \in Nat \ {0}
    PROVE  /\ \A g \in Nat : g * n \in Nat /\ g <= g * n
           /\ \A g, h \in Nat : g <= h => g * n <= h * n
           /\ \A g \in Nat \ {0} : (g - 1) * n = g * n - n /\ (g - 1) * n \in Nat
<1>1. \A g \in Nat : g * n \in Nat /\ g <= g * n
  OBVIOUS
<1>2. \A g, h \in Nat : g <= h => g * n <= h * n
  OBVIOUS
<1>3. \A g \in Nat \ {0} : (g - 1) * n = g * n - n /\ (g - 1) * n \in Nat
  OBVIOUS
<1>4. QED
  BY <1>1, <1>2, <1>3

LEMMA GroupsAre ==
    ASSUME NEW d, Table(d)
    PROVE  /\ Groups(d) \in Nat \ {0} /\ To(d, Groups(d)) = d.rows
           /\ \A g \in 1..Groups(d) :
                 From(g) \in Nat /\ To(d, g) \in Nat /\ From(g) <= To(d, g) /\ To(d, g) <= d.rows
           /\ \A g \in 1..Groups(d) : \A i \in 1..To(d, g) : \E h \in 1..g : From(h) < i /\ i <= To(d, h)
<1> DEFINE n == TableRowsPerChunk
           rows == d.rows
           G == Groups(d)
<1>1. n \in Nat \ {0} /\ rows \in Nat
  BY ChunkingAssumption, TableIs
<1>2. /\ \A g \in Nat : g * n \in Nat /\ g <= g * n
      /\ \A g, h \in Nat : g <= h => g * n <= h * n
      /\ \A g \in Nat \ {0} : (g - 1) * n = g * n - n /\ (g - 1) * n \in Nat
  BY <1>1, ProductsGrow
<1>3. G \in Nat \ {0} /\ rows <= G * n /\ (G - 1) * n <= rows
  <2>1. CASE rows = 0
    <3>1. G = 1
      BY <2>1 DEF Groups
    <3>2. QED
      BY <1>1, <2>1, <3>1
  <2>2. CASE rows # 0
    <3> DEFINE x == rows + n - 1
    <3>1. x \in Nat /\ G = x \div n
      BY <1>1, <2>2 DEF Groups
    <3> HIDE DEF x
    <3>2. G \in Nat /\ G * n <= x /\ x < G * n + n
      BY <1>1, <3>1, DivisionRoundsDown
    <3>3. G # 0
      <4>1. CASE G = 0
        <5> HIDE DEF G, n, rows
        <5>1. G * n = 0
          BY <1>1, <4>1
        <5>2. x < n /\ x = rows + n - 1
          BY <1>1, <3>2, <5>1 DEF x
        <5>3. QED
          BY <1>1, <2>2, <5>2
      <4>2. QED
        BY <4>1
    <3>4. (G - 1) * n = G * n - n /\ G * n \in Nat
      BY <1>2, <3>2, <3>3
    <3> HIDE DEF G, n, rows
    <3>5. QED
      BY <1>1, <3>2, <3>3, <3>4 DEF x
  <2>3. QED
    BY <2>1, <2>2
<1> HIDE DEF G
<1>4. \A g \in 1..G : /\ g \in Nat \ {0} /\ g * n \in Nat /\ From(g) = g * n - n /\ From(g) \in Nat /\ From(g) <= rows
                      /\ To(d, g) = IF g * n <= rows THEN g * n ELSE rows
  <2>1. TAKE g \in 1..G
  <2>2. g \in Nat \ {0} /\ g - 1 \in Nat /\ G - 1 \in Nat /\ g - 1 <= G - 1
    BY <1>3
  <2>3. g * n \in Nat /\ (g - 1) * n = g * n - n /\ (g - 1) * n \in Nat /\ (g - 1) * n <= (G - 1) * n /\ (G - 1) * n \in Nat
    BY <1>2, <1>3, <2>2
  <2>4. (g - 1) * n <= rows
    BY <1>1, <1>3, <2>3
  <2>5. To(d, g) = IF g * n <= rows THEN g * n ELSE rows
    BY <1>1, <2>3, MinOfTwo DEF To
  <2>6. From(g) = (g - 1) * n
    BY DEF From
  <2> HIDE DEF n, rows
  <2>7. QED
    BY <2>2, <2>3, <2>4, <2>5, <2>6
<1> HIDE DEF n, rows
<1>5. \A g \in 1..G : From(g) \in Nat /\ To(d, g) \in Nat /\ From(g) <= To(d, g) /\ To(d, g) <= rows
  BY <1>1, <1>4
<1>6. To(d, G) = rows
  <2>1. G \in 1..G
    BY <1>3
  <2>2. QED
    BY <1>1, <1>3, <1>4, <2>1
<1>7. ASSUME NEW g \in 1..G, NEW i \in 1..To(d, g)
      PROVE  \E h \in 1..g : From(h) < i /\ i <= To(d, h)
  <2> DEFINE Over == {h \in 1..g : i <= To(d, h)}
  <2>1. Over \in SUBSET Nat /\ g \in Over
    <3>1. g \in 1..g /\ g \in Nat
      BY <1>3
    <3>2. To(d, g) \in Nat
      BY <1>5
    <3>3. i <= To(d, g)
      BY <3>2
    <3>4. QED
      BY <3>1, <3>3
  <2>2. PICK h \in Over : \A x \in Over : h <= x
    <3> HIDE DEF Over
    <3>1. QED
      BY <2>1, LeastNumber
  <2>3. h \in 1..g /\ i <= To(d, h) /\ h \in 1..G /\ g \in Int
    BY <1>3, <2>2
  <2>4. From(h) < i
    <3>1. CASE h = 1
      <4>1. From(h) = 0
        BY <1>1, <3>1 DEF From, n
      <4>2. QED
        BY <1>5, <4>1
    <3>2. CASE h # 1
      <4>1. h - 1 \in 1..g /\ h - 1 \in 1..G /\ ~(h <= h - 1)
        <5>1. h \in Int /\ G \in Int /\ 1 <= h /\ h <= g /\ g <= G
          BY <1>3, <2>3
        <5>2. QED
          BY <2>3, <3>2, <5>1
      <4>2. h - 1 \notin Over
        BY <2>2, <4>1
      <4>3. ~(i <= To(d, h - 1))
        BY <4>1, <4>2
      <4>4. To(d, h - 1) \in Nat /\ To(d, g) \in Nat
        BY <1>5, <4>1
      <4>5. (h - 1) * n = h * n - n /\ From(h) = h * n - n /\ (h - 1) * n \in Nat
        BY <1>2, <1>4, <2>3
      <4>6. To(d, h - 1) = IF (h - 1) * n <= rows THEN (h - 1) * n ELSE rows
        BY <1>4, <4>1
      <4>7. From(h) <= rows /\ From(h) = (h - 1) * n
        BY <1>4, <2>3, <4>5
      <4>8. To(d, h - 1) = From(h)
        BY <4>6, <4>7
      <4>9. QED
        BY <4>3, <4>4, <4>8
    <3>3. QED
      BY <3>1, <3>2
  <2>5. QED
    BY <2>3, <2>4
<1>8. QED
  BY <1>3, <1>5, <1>6, <1>7 DEF G, rows

\* The lines of the chunk of group g.
Group(d, g) ==
    (IF g = 1 THEN LinesBefore(d) ELSE <<>>) \o Header(d)
    \o SubSeq(Rows(d), From(g) + 1, To(d, g)) \o (IF g = Groups(d) THEN LinesAfter(d) ELSE <<>>)

Piece(part, off, upto) == {<<part, i>> : i \in (off + 1)..upto}
\* The characters of the lines before, the header, the rows and the lines after.
InGroup(d, g) ==
    ((IF g = 1 THEN Piece(1, 0, d.pre) ELSE {}) \cup Piece(2, 0, 1 + d.separators))
    \cup Piece(3, From(g), To(d, g)) \cup (IF g = Groups(d) THEN Piece(4, 0, d.post) ELSE {})

\* A text of one part behind a text of earlier ones.
LEMMA InOrderParts ==
    ASSUME NEW u \in Text, NEW v \in Text, InOrder(u), InOrder(v), NEW part \in Nat,
           \A c \in CharsOf(u) : c[1] < part, \A c \in CharsOf(v) : c[1] = part
    PROVE  u \o v \in Text /\ InOrder(u \o v) /\ CharsOf(u \o v) = CharsOf(u) \cup CharsOf(v)
           /\ \A c \in CharsOf(u \o v) : c[1] < part + 1
<1>1. u \o v \in Text /\ CharsOf(u \o v) = CharsOf(u) \cup CharsOf(v) /\ CharsOf(u) \subseteq Char
  BY ConcatIs, TextIs
<1>2. \A c \in CharsOf(u), e \in CharsOf(v) : Earlier(c, e)
  BY DEF Earlier
<1>3. InOrder(u \o v)
  BY <1>2, InOrderConcat
<1>4. \A c \in CharsOf(u) : c[1] \in Nat
  BY <1>1 DEF Char
<1>5. \A c \in CharsOf(u \o v) : c[1] < part + 1
  BY <1>1, <1>4
<1>6. QED
  BY <1>1, <1>3, <1>5

LEMMA PartsAre ==
    ASSUME NEW d, Table(d)
    PROVE  /\ LinesBefore(d) \in Text /\ Len(LinesBefore(d)) = d.pre
           /\ InOrder(LinesBefore(d)) /\ CharsOf(LinesBefore(d)) = Piece(1, 0, d.pre)
           /\ Header(d) \in Text /\ Len(Header(d)) = 1 + d.separators
           /\ InOrder(Header(d)) /\ CharsOf(Header(d)) = Piece(2, 0, 1 + d.separators)
           /\ LinesAfter(d) \in Text
           /\ InOrder(LinesAfter(d)) /\ CharsOf(LinesAfter(d)) = Piece(4, 0, d.post)
           /\ Rows(d) \in Text /\ Len(Rows(d)) = d.rows /\ \A i \in 1..d.rows : Rows(d)[i] = <<3, i>>
           /\ InOrder(Rows(d)) /\ CharsOf(Rows(d)) = Piece(3, 0, d.rows)
<1>1. ASSUME NEW part \in Nat \ {0}, NEW m \in Nat
      PROVE  /\ TextOf(part, m) \in Text /\ Len(TextOf(part, m)) = m
             /\ InOrder(TextOf(part, m)) /\ CharsOf(TextOf(part, m)) = Piece(part, 0, m)
             /\ \A i \in 1..m : TextOf(part, m)[i] = <<part, i>>
  <2> DEFINE w == TextOf(part, m)
  <2>1. w \in Text /\ Len(w) = m /\ \A i \in 1..m : w[i] = <<part, i>>
    BY BlockText
  <2> HIDE DEF w
  <2>2. Lines(w, part, 0, m)
    BY <2>1 DEF Lines
  <2>3. InOrder(w) /\ CharsOf(w) = {<<part, i>> : i \in (0 + 1)..(0 + m)}
    BY <2>2, LinesAre
  <2>4. 0 + 1 = 1 /\ 0 + m = m
    OBVIOUS
  <2>5. QED
    BY <2>1, <2>3, <2>4 DEF w, Piece
<1>2. d.pre \in Nat /\ 1 + d.separators \in Nat /\ d.rows \in Nat /\ d.post \in Nat
  BY TableIs
<1>3. LinesBefore(d) = TextOf(1, d.pre) /\ Header(d) = TextOf(2, 1 + d.separators)
      /\ Rows(d) = TextOf(3, d.rows) /\ LinesAfter(d) = TextOf(4, d.post)
  BY DEF LinesBefore, Header, Rows, LinesAfter, TextOf
<1>4. 1 \in Nat \ {0} /\ 2 \in Nat \ {0} /\ 3 \in Nat \ {0} /\ 4 \in Nat \ {0}
  OBVIOUS
<1>5. QED
  BY <1>1, <1>2, <1>3, <1>4

LEMMA NoLines ==
    <<>> \in Text /\ InOrder(<<>>) /\ CharsOf(<<>>) = {}
BY NothingIs DEF InOrder

\* Four texts after each other, of which each is of another part.
LEMMA PartsInOrder ==
    ASSUME NEW u \in Text, NEW v \in Text, NEW w \in Text, NEW x \in Text,
           InOrder(u), InOrder(v), InOrder(w), InOrder(x),
           \A c \in CharsOf(u) : c[1] < 2, \A c \in CharsOf(v) : c[1] = 2,
           \A c \in CharsOf(w) : c[1] = 3, \A c \in CharsOf(x) : c[1] = 4
    PROVE  /\ u \o v \o w \o x \in Text /\ InOrder(u \o v \o w \o x)
           /\ CharsOf(u \o v \o w \o x) = (CharsOf(u) \cup CharsOf(v)) \cup CharsOf(w) \cup CharsOf(x)
           /\ \A from \in Nat, z \in Text : Holds(u \o v, from, z) => Holds(u \o v \o w \o x, from, z)
<1> DEFINE a == u \o v
           b == a \o w
<1>1. a \in Text /\ InOrder(a) /\ CharsOf(a) = CharsOf(u) \cup CharsOf(v) /\ \A c \in CharsOf(a) : c[1] < 3
  <2>1. 2 \in Nat /\ 2 + 1 = 3
    OBVIOUS
  <2>2. QED
    BY <2>1, InOrderParts
<1> HIDE DEF a
<1>2. b \in Text /\ InOrder(b) /\ CharsOf(b) = CharsOf(a) \cup CharsOf(w) /\ \A c \in CharsOf(b) : c[1] < 4
  <2>1. 3 \in Nat /\ 3 + 1 = 4
    OBVIOUS
  <2>2. QED
    BY <1>1, <2>1, InOrderParts
<1> HIDE DEF b
<1>3. b \o x \in Text /\ InOrder(b \o x) /\ CharsOf(b \o x) = CharsOf(b) \cup CharsOf(x)
  <2>1. 4 \in Nat
    OBVIOUS
  <2>2. QED
    BY <1>2, <2>1, InOrderParts
<1>4. \A from \in Nat, z \in Text : Holds(a, from, z) => Holds(b \o x, from, z)
  <2>1. TAKE from \in Nat, z \in Text
  <2>2. Holds(a, from, z) => Holds(b, from, z)
    BY <1>1, HoldsInFront DEF b
  <2>3. Holds(b, from, z) => Holds(b \o x, from, z)
    BY <1>2, HoldsInFront
  <2>4. QED
    BY <2>2, <2>3
<1>5. CharsOf(b \o x) = (CharsOf(u) \cup CharsOf(v)) \cup CharsOf(w) \cup CharsOf(x)
  BY <1>1, <1>2, <1>3
<1>6. b \o x = u \o v \o w \o x
  BY DEF a, b
<1>7. QED
  BY <1>3, <1>4, <1>5, <1>6 DEF a

\* The header stands behind what is before it.
LEMMA HeaderStands ==
    ASSUME NEW u \in Text, NEW v \in Text
    PROVE  Len(u) \in Nat /\ Holds(u \o v, Len(u), v)
<1>1. Len(u) \in Nat /\ Len(v) \in Nat /\ DOMAIN v = 1..Len(v)
  BY TextIs
<1>2. Len(u \o v) = Len(u) + Len(v) /\ \A p \in 1..Len(v) : (u \o v)[Len(u) + p] = v[p]
  BY ConcatIs
<1>3. QED
  BY <1>1, <1>2 DEF Holds

LEMMA PiecesAre ==
    ASSUME NEW part \in Nat, NEW off \in Nat, NEW upto \in Nat
    PROVE  /\ \A c \in Piece(part, off, upto) : c[1] = part /\ c[2] \in (off + 1)..upto /\ c = <<part, c[2]>>
           /\ \A i \in (off + 1)..upto : <<part, i>> \in Piece(part, off, upto)
BY DEF Piece

LEMMA GroupIs ==
    ASSUME NEW d, Table(d), NEW g \in 1..Groups(d)
    PROVE  /\ Group(d, g) \in Text /\ InOrder(Group(d, g)) /\ CharsOf(Group(d, g)) = InGroup(d, g)
           /\ Holds(Group(d, g), IF g = 1 THEN d.pre ELSE 0, Header(d))
<1> DEFINE u == IF g = 1 THEN LinesBefore(d) ELSE <<>>
           v == Header(d)
           w == SubSeq(Rows(d), From(g) + 1, To(d, g))
           x == IF g = Groups(d) THEN LinesAfter(d) ELSE <<>>
<1>1. /\ From(g) \in Nat /\ To(d, g) \in Nat /\ From(g) <= To(d, g) /\ To(d, g) <= d.rows
      /\ d.pre \in Nat /\ 1 + d.separators \in Nat /\ d.rows \in Nat /\ d.post \in Nat
  BY GroupsAre, TableIs
<1>2. /\ u \in Text /\ InOrder(u) /\ CharsOf(u) = (IF g = 1 THEN Piece(1, 0, d.pre) ELSE {})
      /\ Len(u) = IF g = 1 THEN d.pre ELSE 0
  <2>1. CASE g = 1
    BY <2>1, PartsAre
  <2>2. CASE g # 1
    BY <2>2, NoLines, NothingIs
  <2>3. QED
    BY <2>1, <2>2
<1>3. v \in Text /\ InOrder(v) /\ CharsOf(v) = Piece(2, 0, 1 + d.separators)
  BY PartsAre
<1>4. x \in Text /\ InOrder(x) /\ CharsOf(x) = (IF g = Groups(d) THEN Piece(4, 0, d.post) ELSE {})
  BY PartsAre, NoLines
<1>5. w \in Text /\ InOrder(w) /\ CharsOf(w) = Piece(3, From(g), To(d, g))
  <2> DEFINE r == Rows(d)
             off == From(g)
             m == To(d, g) - From(g)
  <2>1. r \in Text /\ Len(r) = d.rows /\ \A i \in 1..d.rows : r[i] = <<3, i>>
    BY PartsAre
  <2>2. off \in Nat /\ m \in Nat /\ off + m = To(d, g) /\ off + m <= d.rows
    BY <1>1
  <2>3. w = SubSeq(r, off + 1, off + m)
    BY <2>2
  <2> HIDE DEF r, off, m, w
  <2>4. off + 1 \in Nat /\ off + m \in Nat /\ 1 <= off + 1 /\ off + 1 <= (off + m) + 1 /\ off + m <= Len(r)
        /\ (off + m) - (off + 1) + 1 = m /\ \A p \in 1..m : (off + 1) - 1 + p = off + p /\ off + p \in 1..d.rows
    BY <1>1, <2>1, <2>2
  <2>5. /\ w \in Text /\ Len(w) = (off + m) - (off + 1) + 1
        /\ \A p \in 1..((off + m) - (off + 1) + 1) : w[p] = r[(off + 1) - 1 + p]
    BY <2>1, <2>3, <2>4, SubIs
  <2>6. w \in Text /\ Len(w) = m /\ \A p \in 1..m : w[p] = <<3, off + p>>
    BY <2>1, <2>4, <2>5
  <2>7. InOrder(w) /\ CharsOf(w) = {<<3, i>> : i \in (off + 1)..(off + m)}
    <3>1. Lines(w, 3, off, m)
      BY <2>2, <2>6 DEF Lines
    <3>2. QED
      BY <3>1, LinesAre
  <2>8. QED
    BY <2>2, <2>6, <2>7 DEF Piece, off
<1>6. /\ \A c \in CharsOf(u) : c[1] < 2
      /\ \A c \in CharsOf(v) : c[1] = 2
      /\ \A c \in CharsOf(w) : c[1] = 3
      /\ \A c \in CharsOf(x) : c[1] = 4
  BY <1>2, <1>3, <1>4, <1>5 DEF Piece
<1>7. Group(d, g) = u \o v \o w \o x
  BY DEF Group
<1>8. InGroup(d, g) = (CharsOf(u) \cup CharsOf(v)) \cup CharsOf(w) \cup CharsOf(x)
  BY <1>2, <1>3, <1>4, <1>5 DEF InGroup
<1> HIDE DEF u, v, w, x
<1>9. /\ u \o v \o w \o x \in Text /\ InOrder(u \o v \o w \o x)
      /\ CharsOf(u \o v \o w \o x) = (CharsOf(u) \cup CharsOf(v)) \cup CharsOf(w) \cup CharsOf(x)
      /\ \A from \in Nat, z \in Text : Holds(u \o v, from, z) => Holds(u \o v \o w \o x, from, z)
  BY <1>2, <1>3, <1>4, <1>5, <1>6, PartsInOrder
<1>10. Holds(Group(d, g), Len(u), v)
  BY <1>2, <1>3, <1>7, <1>9, HeaderStands
<1>11. QED
  BY <1>2, <1>7, <1>8, <1>9, <1>10 DEF v

LEMMA TableSourceIs ==
    ASSUME NEW d, Table(d)
    PROVE  /\ Source(d) \in Text /\ InOrder(Source(d)) /\ Holds(Source(d), d.pre, Header(d))
           /\ CharsOf(Source(d)) = (Piece(1, 0, d.pre) \cup Piece(2, 0, 1 + d.separators))
                                     \cup Piece(3, 0, d.rows) \cup Piece(4, 0, d.post)
<1> DEFINE u == LinesBefore(d)
           v == Header(d)
           w == Rows(d)
           x == LinesAfter(d)
<1>1. /\ u \in Text /\ InOrder(u) /\ CharsOf(u) = Piece(1, 0, d.pre) /\ Len(u) = d.pre
      /\ v \in Text /\ InOrder(v) /\ CharsOf(v) = Piece(2, 0, 1 + d.separators)
      /\ w \in Text /\ InOrder(w) /\ CharsOf(w) = Piece(3, 0, d.rows)
      /\ x \in Text /\ InOrder(x) /\ CharsOf(x) = Piece(4, 0, d.post)
  BY PartsAre
<1>2. /\ \A c \in CharsOf(u) : c[1] < 2
      /\ \A c \in CharsOf(v) : c[1] = 2
      /\ \A c \in CharsOf(w) : c[1] = 3
      /\ \A c \in CharsOf(x) : c[1] = 4
  BY <1>1 DEF Piece
<1>3. Source(d) = u \o v \o w \o x
  BY DEF Source, Table
<1> HIDE DEF u, v, w, x
<1>4. /\ u \o v \o w \o x \in Text /\ InOrder(u \o v \o w \o x)
      /\ CharsOf(u \o v \o w \o x) = (CharsOf(u) \cup CharsOf(v)) \cup CharsOf(w) \cup CharsOf(x)
      /\ \A from \in Nat, z \in Text : Holds(u \o v, from, z) => Holds(u \o v \o w \o x, from, z)
  BY <1>1, <1>2, PartsInOrder
<1>5. Holds(Source(d), Len(u), v)
  BY <1>1, <1>3, <1>4, HeaderStands
<1>6. QED
  BY <1>1, <1>3, <1>4, <1>5 DEF v

LEMMA ChunkTableIs ==
    ASSUME NEW d, Table(d)
    PROVE  /\ ChunkTable(d) \in Seq(Text) /\ Len(ChunkTable(d)) = Groups(d)
           /\ \A g \in 1..Groups(d) : ChunkTable(d)[g] = Group(d, g)
<1> DEFINE r == ChunkTable(d)
           G == Groups(d)
<1>1. G \in Nat /\ \A g \in 1..G : Group(d, g) \in Text
  BY GroupsAre, GroupIs
<1>2. r = [g \in 1..G |-> Group(d, g)]
  BY DEF ChunkTable, Group, Groups, From, To
<1> HIDE DEF r, G
<1>3. r \in [1..G -> Text]
  BY <1>1, <1>2
<1>4. r \in Seq(Text) /\ Len(r) = G
  BY <1>1, <1>2, <1>3
<1>5. QED
  BY <1>2, <1>4 DEF r, G

\* The groups together are the table, and each can follow those before it.
LEMMA ChunkTableKeepsOrder ==
    ASSUME NEW d, Table(d)
    PROVE  /\ Known(ChunkTable(d)) = CharsOf(Source(d))
           /\ Orderly(CharsOf(Source(d)), ChunkTable(d))
<1> DEFINE r == ChunkTable(d)
           G == Groups(d)
           A == CharsOf(Source(d))
<1>1. r \in Seq(Text) /\ Len(r) = G /\ DOMAIN r = 1..G /\ \A g \in 1..G : r[g] = Group(d, g)
  BY ChunkTableIs, ChunksAre
<1>2. /\ G \in Nat \ {0} /\ To(d, G) = d.rows
      /\ \A g \in 1..G : From(g) \in Nat /\ To(d, g) \in Nat /\ From(g) <= To(d, g) /\ To(d, g) <= d.rows
      /\ \A g \in 1..G : \A i \in 1..To(d, g) : \E h \in 1..g : From(h) < i /\ i <= To(d, h)
  BY GroupsAre
<1>3. \A g \in 1..G : r[g] \in Text /\ InOrder(r[g]) /\ CharsOf(r[g]) = InGroup(d, g)
  BY <1>1, GroupIs
<1>4. A = (Piece(1, 0, d.pre) \cup Piece(2, 0, 1 + d.separators)) \cup Piece(3, 0, d.rows) \cup Piece(4, 0, d.post)
  BY TableSourceIs
<1>5. d.pre \in Nat /\ 1 + d.separators \in Nat /\ d.rows \in Nat /\ d.post \in Nat
  BY TableIs
<1> HIDE DEF r, G, A
<1>6. \A c : c \in Known(r) <=> \E g \in 1..G : c \in InGroup(d, g)
  <2>1. \A c : c \in Known(r) <=> \E g \in 1..Len(r) : c \in CharsOf(r[g])
    BY <1>1, ChunksAre
  <2>2. QED
    BY <1>1, <1>3, <2>1
<1>7. ASSUME NEW g \in 1..G, NEW c \in InGroup(d, g)
      PROVE  c \in A
  <2>1. CASE c \in Piece(3, From(g), To(d, g))
    <3>1. c \in Piece(3, 0, d.rows)
      <4>1. From(g) \in Nat /\ To(d, g) \in Nat /\ To(d, g) <= d.rows
        BY <1>2
      <4>2. PICK i \in (From(g) + 1)..To(d, g) : c = <<3, i>>
        BY <2>1 DEF Piece
      <4>3. i \in (0 + 1)..d.rows
        BY <1>5, <4>1
      <4>4. QED
        BY <4>2, <4>3 DEF Piece
    <3>2. QED
      BY <1>4, <3>1
  <2>2. CASE c \notin Piece(3, From(g), To(d, g))
    BY <1>4, <1>7, <2>2 DEF InGroup
  <2>3. QED
    BY <2>1, <2>2
<1>8. \A c \in Piece(3, 0, d.rows), g \in 1..G : c[2] <= To(d, g) => \E h \in 1..g : c \in Piece(3, From(h), To(d, h))
  <2>1. TAKE c \in Piece(3, 0, d.rows), g \in 1..G
  <2>2. PICK i \in (0 + 1)..d.rows : c = <<3, i>>
    BY DEF Piece
  <2>3. SUFFICES ASSUME i <= To(d, g) PROVE \E h \in 1..g : c \in Piece(3, From(h), To(d, h))
    BY <2>2
  <2>4. i \in 1..To(d, g)
    BY <1>2, <1>5, <2>3
  <2>5. PICK h \in 1..g : From(h) < i /\ i <= To(d, h)
    BY <1>2, <2>4
  <2>6. h \in 1..G
    BY <1>2
  <2>7. i \in (From(h) + 1)..To(d, h)
    <3>1. From(h) \in Nat /\ To(d, h) \in Nat /\ i \in Int
      BY <1>2, <1>5, <2>6
    <3>2. QED
      BY <2>5, <3>1
  <2>8. QED
    BY <2>2, <2>7 DEF Piece
<1>9. ASSUME NEW c \in A
      PROVE  \E g \in 1..G : c \in InGroup(d, g)
  <2>1. 1 \in 1..G /\ G \in 1..G
    BY <1>2
  <2>2. CASE c \in Piece(3, 0, d.rows)
    <3>1. c[2] <= To(d, G)
      BY <1>2, <1>5, <2>2 DEF Piece
    <3>2. PICK h \in 1..G : c \in Piece(3, From(h), To(d, h))
      BY <1>8, <2>1, <2>2, <3>1
    <3>3. QED
      BY <3>2 DEF InGroup
  <2>3. CASE c \in Piece(4, 0, d.post)
    <3>1. c \in InGroup(d, G)
      BY <2>3 DEF InGroup, G
    <3>2. QED
      BY <2>1, <3>1
  <2>4. CASE c \in Piece(1, 0, d.pre) \cup Piece(2, 0, 1 + d.separators)
    <3>1. c \in InGroup(d, 1)
      BY <2>4 DEF InGroup
    <3>2. QED
      BY <2>1, <3>1
  <2>5. QED
    BY <1>4, <2>2, <2>3, <2>4
<1>10. Known(r) = A
  BY <1>6, <1>7, <1>9
<1>11. ASSUME NEW g \in 1..G
       PROVE  Fits(A, Before(r, g), r[g])
  <2>1. \A c : c \in Before(r, g) <=> \E h \in 1..(g - 1) : c \in InGroup(d, h)
    <3>1. g \in 1..(Len(r) + 1) /\ \A h \in 1..(g - 1) : h \in 1..G
      BY <1>1, <1>2
    <3>2. \A c : c \in Before(r, g) <=> \E h \in 1..(g - 1) : c \in CharsOf(r[h])
      BY <1>1, <3>1, ChunksAre
    <3>3. QED
      BY <1>3, <3>1, <3>2
  <2>2. \A c, h : h \in 1..g /\ c \in InGroup(d, h) => c \in Before(r, g) \cup InGroup(d, g)
    <3>1. \A h \in 1..g : h = g \/ h \in 1..(g - 1)
      OBVIOUS
    <3>2. QED
      BY <2>1, <3>1
  <2>3. 1 \in 1..g
    OBVIOUS
  <2>4. ASSUME NEW c \in A, NEW e \in InGroup(d, g), Earlier(c, e)
        PROVE  c \in Before(r, g) \cup InGroup(d, g)
    <3>1. CASE c \in Piece(1, 0, d.pre) \cup Piece(2, 0, 1 + d.separators)
      <4>1. c \in InGroup(d, 1)
        BY <3>1 DEF InGroup
      <4>2. QED
        BY <2>2, <2>3, <4>1
    <3>2. CASE c \in Piece(3, 0, d.rows)
      <4>1. c[2] <= To(d, g)
        <5>1. c[1] = 3 /\ c[2] \in 1..d.rows
          BY <3>2 DEF Piece
        <5>2. CASE e \in Piece(4, 0, d.post)
          <6>1. g = G
            <7>1. e[1] = 4
              BY <5>2 DEF Piece
            <7>2. e \notin Piece(1, 0, d.pre) /\ e \notin Piece(2, 0, 1 + d.separators) /\ e \notin Piece(3, From(g), To(d, g))
              BY <7>1 DEF Piece
            <7>3. QED
              BY <2>4, <7>2 DEF InGroup, G
          <6>2. QED
            BY <1>2, <1>5, <5>1, <6>1
        <5>3. CASE e \notin Piece(4, 0, d.post)
          <6>1. e \in Piece(1, 0, d.pre) \/ e \in Piece(2, 0, 1 + d.separators) \/ e \in Piece(3, From(g), To(d, g))
            BY <2>4, <5>3 DEF InGroup
          <6>2. e[1] \in 1..3 /\ (e[1] = 3 => e[2] \in (From(g) + 1)..To(d, g))
            BY <6>1 DEF Piece
          <6>3. e[1] = 3 /\ c[2] < e[2]
            BY <2>4, <5>1, <6>2 DEF Earlier
          <6>4. From(g) \in Nat /\ To(d, g) \in Nat
            BY <1>2
          <6>5. QED
            BY <1>5, <5>1, <6>2, <6>3, <6>4
        <5>4. QED
          BY <5>2, <5>3
      <4>2. PICK h \in 1..g : c \in Piece(3, From(h), To(d, h))
        BY <1>8, <3>2, <4>1
      <4>3. c \in InGroup(d, h)
        BY <4>2 DEF InGroup
      <4>4. QED
        BY <2>2, <4>3
    <3>3. CASE c \in Piece(4, 0, d.post)
      <4>1. c[1] = 4 /\ e[1] \in 1..4
        BY <2>4, <3>3 DEF Piece, InGroup
      <4>2. e[1] = 4
        BY <2>4, <4>1 DEF Earlier
      <4>3. e \notin Piece(1, 0, d.pre) /\ e \notin Piece(2, 0, 1 + d.separators) /\ e \notin Piece(3, From(g), To(d, g))
        BY <4>2 DEF Piece
      <4>4. g = Groups(d)
        BY <2>4, <4>3 DEF InGroup
      <4>5. QED
        BY <3>3, <4>4 DEF InGroup
    <3>4. QED
      BY <1>4, <3>1, <3>2, <3>3
  <2>5. \A c \in A, e \in CharsOf(r[g]) : Earlier(c, e) => c \in Before(r, g) \cup CharsOf(r[g])
    BY <1>3, <2>4
  <2>6. QED
    BY <1>3, <2>5, NoGapFits
<1>12. Orderly(A, r)
  BY <1>1, <1>11 DEF Orderly
<1>13. QED
  BY <1>10, <1>12 DEF A, r

-----------------------------------------------------------------------------
(* A document as it is cut. *)

\* What is made of a document.
CutRight(d, r) ==
    /\ r \in Seq(Text)
    /\ Known(r) = CharsOf(Source(d)) /\ Orderly(CharsOf(Source(d)), r)
    /\ IsTable(d) => \A i \in DOMAIN r : Holds(r[i], IF i = 1 THEN d.pre ELSE 0, Header(d))
    /\ ~IsTable(d) => \A k \in 1..Len(d.blocks) : d.blocks[k].table => StandsAlone(d, r, k)
    /\ ~IsTable(d) /\ Len(r) > 1 => \A i \in DOMAIN r : Short(d, r[i])

LEMMA KindsAre ==
    ASSUME NEW d \in Documents
    PROVE  Mixed(d) \/ Table(d)
BY ChunkingAssumption DEF Mixed, Table

LEMMA SourceIs ==
    ASSUME NEW d \in Documents
    PROVE  Source(d) \in Text /\ InOrder(Source(d))
<1>1. CASE Mixed(d)
  BY <1>1, ProseIs DEF Written
<1>2. CASE Table(d)
  BY <1>2, TableSourceIs
<1>3. QED
  BY <1>1, <1>2, KindsAre

LEMMA WholeIs ==
    ASSUME NEW d \in Documents
    PROVE  CutRight(d, Whole(d))
<1> DEFINE s == Source(d)
           r == <<s>>
           A == CharsOf(s)
<1>1. s \in Text /\ InOrder(s) /\ Len(s) \in Nat
  BY SourceIs, TextIs
<1> HIDE DEF s
<1>2. r \in Seq(Text) /\ DOMAIN r = {1} /\ Len(r) = 1 /\ r[1] = s
  BY <1>1
<1> HIDE DEF r
<1>3. Known(r) = A
  BY <1>2 DEF Known
<1>4. Fits(A, Before(r, 1), s)
  BY <1>1, NoGapFits
<1>5. Orderly(A, r)
  BY <1>2, <1>4 DEF Orderly
<1>6. ASSUME IsTable(d) PROVE \A i \in DOMAIN r : Holds(r[i], IF i = 1 THEN d.pre ELSE 0, Header(d))
  <2>1. Holds(s, d.pre, Header(d))
    BY <1>6, KindsAre, TableSourceIs DEF Mixed, s
  <2>2. QED
    BY <1>2, <2>1
<1>7. ASSUME ~IsTable(d), NEW k \in 1..Len(d.blocks), d.blocks[k].table PROVE StandsAlone(d, r, k)
  <2>1. Mixed(d)
    BY <1>7, KindsAre DEF Table
  <2>2. PICK from \in Nat : Holds(s, from, TextAt(d, k))
    BY <2>1, ProseIs DEF Written, s
  <2>3. Len(TextAt(d, k)) \in Nat
    BY <2>1, OwnBlockFits, TextIs
  <2>4. from \in 0..Len(s)
    BY <1>1, <2>2, <2>3 DEF Holds
  <2>5. QED
    BY <1>2, <2>2, <2>4 DEF StandsAlone
<1>8. Whole(d) = r
  BY DEF Whole, r, s
<1>9. ~(Len(r) > 1)
  BY <1>2
<1>10. QED
  BY <1>2, <1>3, <1>5, <1>6, <1>7, <1>8, <1>9 DEF CutRight, s

Raw(d) == IF IsTable(d) THEN ChunkTable(d) ELSE ChunkMixedContent(d)

LEMMA RawIs ==
    ASSUME Sizes, NEW d \in Documents
    PROVE  CutRight(d, Raw(d))
<1>1. CASE Table(d)
  <2> DEFINE r == ChunkTable(d)
  <2>1. Raw(d) = r /\ IsTable(d)
    BY <1>1 DEF Raw, Table
  <2>2. r \in Seq(Text) /\ DOMAIN r = 1..Groups(d) /\ \A g \in 1..Groups(d) : r[g] = Group(d, g)
    BY <1>1, ChunkTableIs, ChunksAre
  <2>3. Known(r) = CharsOf(Source(d)) /\ Orderly(CharsOf(Source(d)), r)
    BY <1>1, ChunkTableKeepsOrder
  <2> HIDE DEF r
  <2>4. \A i \in DOMAIN r : Holds(r[i], IF i = 1 THEN d.pre ELSE 0, Header(d))
    BY <1>1, <2>2, GroupIs
  <2>5. QED
    BY <2>1, <2>2, <2>3, <2>4 DEF CutRight
<1>2. CASE Mixed(d)
  <2> DEFINE r == ChunkMixedContent(d)
  <2>1. Raw(d) = r /\ ~IsTable(d)
    BY <1>2 DEF Raw, Mixed
  <2>2. /\ r \in Seq(Text) /\ Orderly(AllChars(d), r) /\ Known(r) = AllChars(d)
        /\ Pieces(d, Len(d.blocks), r)
    BY <1>2, ChunkMixedContentIs
  <2> HIDE DEF r
  <2>3. CharsOf(Source(d)) = AllChars(d)
    BY <1>2, ProseIs DEF Written, AllChars
  <2>4. (\A i \in DOMAIN r : Short(d, r[i])) /\ \A k \in 1..Len(d.blocks) : d.blocks[k].table => StandsAlone(d, r, k)
    BY <2>2 DEF Pieces
  <2>5. QED
    BY <2>1, <2>2, <2>3, <2>4 DEF CutRight
<1>3. QED
  BY <1>1, <1>2, KindsAre

\* The sizes as they are halved.
Halving ==
    /\ document \in Documents /\ overlap \in Nat \ {0}
    /\ attempt \in 0..MaxAttempts
    /\ target \in Nat /\ max \in Nat /\ target <= max
    /\ attempt = 0 => 8 <= target
    /\ attempt = 1 => 4 <= target
    /\ attempt = 2 => 2 <= target
    /\ attempt = 3 => 1 <= target

\* The inductive invariant of the cutting.
CutInv == Halving /\ (Done => CutRight(document, chunks))

LEMMA CutInit == Init => CutInv
<1> SUFFICES ASSUME Init PROVE CutInv
  OBVIOUS
<1>1. Halving
  BY ChunkingAssumption DEF Init, Halving, MaxAttempts
<1>2. ~Done
  BY DEF Init, Done
<1>3. QED
  BY <1>1, <1>2 DEF CutInv

LEMMA CutNext == CutInv /\ [Next]_vars => CutInv'
<1> SUFFICES ASSUME CutInv, [Next]_vars PROVE CutInv'
  OBVIOUS
<1>1. Halving /\ (Done => CutRight(document, chunks))
  BY DEF CutInv
<1>2. CASE ChunkDocument
  <2>1. UNCHANGED <<document, overlap, target, max, attempt>> /\ attempt < MaxAttempts
        /\ chunks' = IF TooShort(document) \/ Len(Raw(document)) <= 1 THEN Whole(document) ELSE Raw(document)
    BY <1>2 DEF ChunkDocument, Raw
  <2>2. Halving'
    BY <1>1, <2>1 DEF Halving
  <2>3. Sizes
    BY <1>1, <2>1 DEF Halving, Sizes, MaxAttempts
  <2>4. CutRight(document, Raw(document)) /\ CutRight(document, Whole(document))
    BY <1>1, <2>3, RawIs, WholeIs DEF Halving
  <2>5. CutRight(document, chunks')
    BY <2>1, <2>4
  <2>6. CutRight(document, chunks)'
    BY <2>1, <2>5 DEF CutRight, Short, StandsAlone, Source, Prose, IsTable
  <2>7. QED
    BY <2>2, <2>6 DEF CutInv
<1>3. CASE MemoryError
  <2>1. chunks = None /\ UNCHANGED <<document, overlap, chunks>> /\ attempt < MaxAttempts
        /\ attempt' = attempt + 1 /\ target' = target \div 2 /\ max' = max \div 2
    BY <1>3 DEF MemoryError
  <2>2. Halving'
    BY <1>1, <2>1 DEF Halving, MaxAttempts
  <2>3. ~Done'
    BY <2>1 DEF Done
  <2>4. QED
    BY <2>2, <2>3 DEF CutInv
<1>4. CASE GiveUp
  <2>1. UNCHANGED <<document, overlap, target, max, attempt>> /\ chunks' = Whole(document)
    BY <1>4 DEF GiveUp
  <2>2. Halving'
    BY <1>1, <2>1 DEF Halving
  <2>3. CutRight(document, chunks')
    BY <1>1, <2>1, WholeIs DEF Halving
  <2>4. CutRight(document, chunks)'
    BY <2>1, <2>3 DEF CutRight, Short, StandsAlone
  <2>5. QED
    BY <2>2, <2>4 DEF CutInv
<1>5. CASE UNCHANGED vars
  BY <1>1, <1>5 DEF CutInv, vars, Halving, Done, CutRight, Short, StandsAlone
<1>6. QED
  BY <1>2, <1>3, <1>4, <1>5 DEF Next
-----------------------------------------------------------------------------
(* A ranking is a bijection that follows the order. *)

LEMMA AboveIsAnOrder ==
    ASSUME NEW D \in SUBSET Int, NEW key \in [D -> Int], NEW i \in D, NEW j \in D, NEW k \in D
    PROVE  /\ ~Above(key, i, i)
           /\ Above(key, i, j) /\ Above(key, j, k) => Above(key, i, k)
           /\ i # j => Above(key, i, j) \/ Above(key, j, i)
<1>1. i \in Int /\ j \in Int /\ k \in Int /\ key[i] \in Int /\ key[j] \in Int /\ key[k] \in Int
  OBVIOUS
<1>2. QED
  BY <1>1 DEF Above

LEMMA RankedIs ==
    ASSUME NEW D \in SUBSET Int, NEW key \in [D -> Int], NEW S \in SUBSET D, IsFiniteSet(S)
    PROVE  /\ Cardinality(S) \in Nat
           /\ Ranked(S, key) \in [1..Cardinality(S) -> S]
           /\ \A i \in S : \E n \in 1..Cardinality(S) : Ranked(S, key)[n] = i
           /\ \A m, n \in 1..Cardinality(S) :
                 m < n <=> Above(key, Ranked(S, key)[m], Ranked(S, key)[n])
<1> DEFINE over(i) == {j \in S : Above(key, j, i)}
           size == Cardinality(S)
           rank == [i \in S |-> Cardinality(over(i))]
<1>1. size \in Nat
  BY FS_CardinalityType
<1>2. ASSUME NEW i \in S
      PROVE  IsFiniteSet(over(i)) /\ rank[i] = Cardinality(over(i)) /\ rank[i] \in 0..(size - 1)
  <2>1. over(i) \in SUBSET S /\ over(i) # S
    BY AboveIsAnOrder
  <2>2. IsFiniteSet(over(i)) /\ Cardinality(over(i)) <= size /\ Cardinality(over(i)) # size
    <3> HIDE DEF over
    <3>1. QED
      BY <2>1, FS_Subset
  <2>3. Cardinality(over(i)) \in Nat
    <3> HIDE DEF over
    <3>1. QED
      BY <2>2, FS_CardinalityType
  <2>4. rank[i] = Cardinality(over(i))
    OBVIOUS
  <2> HIDE DEF over, rank, size
  <2>5. QED
    BY <1>1, <2>2, <2>3, <2>4
<1>3. ASSUME NEW i \in S, NEW k \in S, Above(key, i, k)
      PROVE  rank[i] < rank[k]
  <2>1. over(i) \in SUBSET over(k)
    BY <1>3, AboveIsAnOrder
  <2>2. i \in over(k) /\ i \notin over(i)
    BY <1>3, AboveIsAnOrder
  <2>3. Cardinality(over(i)) <= Cardinality(over(k)) /\ Cardinality(over(i)) # Cardinality(over(k))
    <3> HIDE DEF over, rank, size
    <3>1. IsFiniteSet(over(k))
      BY <1>2
    <3>2. QED
      BY <2>1, <2>2, <3>1, FS_Subset
  <2> HIDE DEF over, rank, size
  <2>4. rank[i] \in Int /\ rank[k] \in Int /\ rank[i] = Cardinality(over(i)) /\ rank[k] = Cardinality(over(k))
    BY <1>1, <1>2
  <2>5. QED
    BY <2>3, <2>4
<1>4. rank \in Injection(S, 0..(size - 1))
  <2>1. rank \in [S -> 0..(size - 1)]
    BY <1>2
  <2>2. ASSUME NEW i \in S, NEW k \in S, rank[i] = rank[k] PROVE i = k
    <3>1. rank[i] \in Int
      BY <1>1, <1>2
    <3> HIDE DEF rank, over, size
    <3>2. ~Above(key, i, k) /\ ~Above(key, k, i)
      BY <1>3, <2>2, <3>1
    <3>3. QED
      BY <3>2, AboveIsAnOrder
  <2> HIDE DEF rank, size
  <2>3. QED
    BY <2>1, <2>2 DEF Injection, IsInjective
<1>5. \A n \in 0..(size - 1) : \E i \in S : rank[i] = n
  <2>1. IsFiniteSet(0..(size - 1)) /\ Cardinality(0..(size - 1)) = size
    <3> HIDE DEF size
    <3>1. size - 1 \in Int /\ (0 > size - 1 => size = 0)
      BY <1>1
    <3>2. QED
      BY <1>1, <3>1, FS_Interval
  <2>2. rank \in Surjection(S, 0..(size - 1))
    <3> HIDE DEF rank
    <3>1. QED
      BY <1>4, <2>1, FS_Injection
  <2> HIDE DEF rank, size
  <2>3. QED
    BY <2>2 DEF Surjection
<1> DEFINE R == Ranked(S, key)
<1>6. R = [n \in 1..size |-> CHOOSE i \in S : Cardinality(over(i)) = n - 1]
  BY DEF Ranked
<1>7. ASSUME NEW n \in 1..size
      PROVE  R[n] \in S /\ rank[R[n]] = n - 1
  <2>1. n - 1 \in 0..(size - 1)
    BY <1>1
  <2> HIDE DEF over, rank, size, R
  <2>2. R[n] = CHOOSE i \in S : Cardinality(over(i)) = n - 1
    BY <1>6
  <2>3. \E i \in S : Cardinality(over(i)) = n - 1
    BY <1>2, <1>5, <2>1
  <2>4. R[n] \in S /\ Cardinality(over(R[n])) = n - 1
    BY <2>2, <2>3
  <2>5. QED
    BY <1>2, <2>4
<1>8. R \in [1..size -> S]
  <2> HIDE DEF over, rank, size, R
  <2>1. QED
    BY <1>6, <1>7
<1>9. ASSUME NEW i \in S
      PROVE  \E n \in 1..size : R[n] = i
  <2> HIDE DEF over, rank, size, R
  <2>1. rank[i] + 1 \in 1..size /\ rank[i] \in Int
    BY <1>1, <1>2
  <2>2. rank[R[rank[i] + 1]] = rank[i] /\ R[rank[i] + 1] \in S
    BY <1>7, <2>1
  <2>3. R[rank[i] + 1] = i
    BY <1>4, <2>2 DEF Injection, IsInjective
  <2>4. QED
    BY <2>1, <2>3
<1>10. ASSUME NEW m \in 1..size, NEW n \in 1..size
       PROVE  m < n <=> Above(key, R[m], R[n])
  <2> HIDE DEF over, rank, size, R
  <2>1. R[m] \in S /\ R[n] \in S /\ rank[R[m]] = m - 1 /\ rank[R[n]] = n - 1
    BY <1>7
  <2>2. m \in Int /\ n \in Int
    BY <1>1
  <2>3. Above(key, R[m], R[n]) => rank[R[m]] < rank[R[n]]
    BY <1>3, <2>1
  <2>4. Above(key, R[n], R[m]) => rank[R[n]] < rank[R[m]]
    BY <1>3, <2>1
  <2>5. Above(key, R[m], R[n]) \/ Above(key, R[n], R[m]) \/ R[m] = R[n]
    <3>1. R[m] \in D /\ R[n] \in D
      BY <2>1
    <3>2. QED
      BY <3>1, AboveIsAnOrder
  <2>6. QED
    BY <2>1, <2>2, <2>3, <2>4, <2>5
<1> HIDE DEF rank, over
<1>11. QED
  BY <1>1, <1>8, <1>9, <1>10

-----------------------------------------------------------------------------
(* What a query finds. *)

LEMMA SequenceIs ==
    ASSUME NEW S, NEW s \in Seq(S)
    PROVE  Len(s) \in Nat /\ DOMAIN s = 1..Len(s) /\ s \in [1..Len(s) -> S]
<1>1. Len(s) \in Nat /\ DOMAIN s = 1..Len(s) /\ \A i \in 1..Len(s) : s[i] \in S
  OBVIOUS
<1>2. s = [i \in 1..Len(s) |-> s[i]]
  BY <1>1
<1>3. QED
  BY <1>1, <1>2

LEMMA FirstOfIs ==
    ASSUME NEW S, NEW s \in Seq(S), NEW n \in Nat
    PROVE  /\ n <= Len(s) => /\ FirstOf(s, n) \in Seq(S) /\ Len(FirstOf(s, n)) = n
                             /\ \A m \in 1..n : FirstOf(s, n)[m] = s[m]
           /\ Len(s) <= n => FirstOf(s, n) = s
<1>1. Len(s) \in Nat
  OBVIOUS
<1>2. ASSUME NEW h \in Nat, h <= Len(s)
      PROVE  /\ SubSeq(s, 1, h) \in Seq(S) /\ Len(SubSeq(s, 1, h)) = h
             /\ \A m \in 1..h : SubSeq(s, 1, h)[m] = s[m]
  BY <1>2
<1>3. FirstOf(s, n) = SubSeq(s, 1, Min({n, Len(s)}))
  BY DEF FirstOf
<1>4. n <= Len(s) => Min({n, Len(s)}) = n
  BY <1>1, MinOfTwo
<1>5. Len(s) <= n => Min({n, Len(s)}) = Len(s)
  BY <1>1, MinOfTwo
<1>6. SubSeq(s, 1, Len(s)) = s
  <2> DEFINE t == SubSeq(s, 1, Len(s))
  <2>1. t \in Seq(S) /\ Len(t) = Len(s) /\ \A m \in 1..Len(s) : t[m] = s[m]
    BY <1>1, <1>2
  <2> HIDE DEF t
  <2>2. t \in [1..Len(s) -> S] /\ s \in [1..Len(s) -> S]
    BY <2>1, SequenceIs
  <2>3. t = s
    BY <2>1, <2>2
  <2>4. QED
    BY <2>3 DEF t
<1>7. QED
  BY <1>1, <1>2, <1>3, <1>4, <1>5, <1>6

LEMMA LeadingWordsIs ==
    ASSUME NEW query \in Seq(Words), NEW i
    PROVE  /\ LeadingWords(query, i) \in 0..Len(query)
           /\ \A m \in 0..Len(query) :
                 m <= LeadingWords(query, i) <=> \A w \in 1..m : query[w] \in index[i]
<1> DEFINE T == {n \in 0..Len(query) : \A w \in 1..n : query[w] \in index[i]}
<1>1. Len(query) \in Nat /\ T \in SUBSET (0..Len(query)) /\ 0 \in T
  OBVIOUS
<1>2. Max(T) \in T /\ \A m \in T : m <= Max(T)
  <2> HIDE DEF T
  <2>1. QED
    BY <1>1, MaxIs
<1>3. LeadingWords(query, i) = Max(T)
  BY DEF LeadingWords
<1>4. ASSUME NEW m \in 0..Len(query)
      PROVE  m <= Max(T) <=> \A w \in 1..m : query[w] \in index[i]
  <2>1. (\A w \in 1..m : query[w] \in index[i]) => m \in T
    OBVIOUS
  <2>2. Max(T) \in 0..Len(query) /\ \A w \in 1..Max(T) : query[w] \in index[i]
    BY <1>2
  <2> HIDE DEF T
  <2>3. QED
    BY <1>1, <1>2, <2>1, <2>2
<1>5. QED
  BY <1>1, <1>2, <1>3, <1>4

\* Words behind a query change neither which chunks it finds nor which of them
\* have all its words.
LEMMA ExpansionIsHarmless ==
    ASSUME NEW query \in Queries, NEW used, NEW i,
           used = query \/ \E w \in Words : used = Expand(query, <<w>>)
    PROVE  /\ query \in Seq(Words) /\ used \in Seq(Words)
           /\ Len(query) \in Nat \ {0}
           /\ LeadingWords(query, i) \in 0..Len(query) /\ LeadingWords(used, i) \in Nat
           /\ LeadingWords(used, i) > 0 <=> LeadingWords(query, i) > 0
           /\ LeadingWords(used, i) >= Len(query) <=> LeadingWords(query, i) = Len(query)
<1>1. query \in Seq(Words) /\ Len(query) \in Nat \ {0}
  BY RetrievalAssumption
<1>2. /\ used \in Seq(Words) /\ Len(used) \in Nat /\ Len(query) <= Len(used)
      /\ \A w \in 1..Len(query) : used[w] = query[w]
  <2>1. CASE used = query
    BY <1>1, <2>1
  <2>2. ASSUME NEW w \in Words, used = Expand(query, <<w>>)
        PROVE  <1>2!1 /\ <1>2!2
    <3>1. used = query \o <<w>> /\ <<w>> \in Seq(Words) /\ Len(<<w>>) = 1
      BY <2>2 DEF Expand
    <3>2. QED
      BY <1>1, <3>1
  <2>3. QED
    BY <2>1, <2>2
<1>3. \A m \in 0..Len(query) : m <= LeadingWords(used, i) <=> m <= LeadingWords(query, i)
  <2>1. TAKE m \in 0..Len(query)
  <2>2. m \in 0..Len(used) /\ \A w \in 1..m : w \in 1..Len(query)
    BY <1>1, <1>2
  <2>3. m <= LeadingWords(used, i) <=> \A w \in 1..m : used[w] \in index[i]
    BY <1>2, <2>2, LeadingWordsIs
  <2>4. m <= LeadingWords(query, i) <=> \A w \in 1..m : query[w] \in index[i]
    BY <1>1, LeadingWordsIs
  <2>5. QED
    BY <1>2, <2>2, <2>3, <2>4
<1>4. LeadingWords(query, i) \in 0..Len(query) /\ LeadingWords(used, i) \in 0..Len(used)
  BY <1>1, <1>2, LeadingWordsIs
<1>5. QED
  <2>1. 1 \in 0..Len(query) /\ Len(query) \in 0..Len(query)
    BY <1>1
  <2>2. 1 <= LeadingWords(used, i) <=> 1 <= LeadingWords(query, i)
    BY <1>3, <2>1
  <2>3. Len(query) <= LeadingWords(used, i) <=> Len(query) <= LeadingWords(query, i)
    BY <1>3, <2>1
  <2>4. QED
    BY <1>1, <1>2, <1>4, <2>2, <2>3

LEMMA TopKIs ==
    ASSUME NEW topK \in AskedTopK, NEW reranking \in BOOLEAN
    PROVE  /\ ClampTopK(topK) \in Nat \ {0}
           /\ Limit(ClampTopK(topK), reranking) \in Nat
           /\ ClampTopK(topK) <= Limit(ClampTopK(topK), reranking)
           /\ ~reranking => Limit(ClampTopK(topK), reranking) = ClampTopK(topK)
<1> DEFINE k == ClampTopK(topK)
           asked == IF topK = None THEN DefaultTopK ELSE topK
<1>1. asked \in Int /\ ToolMaxK \in Nat \ {0} /\ Multiplier \in Nat \ {0} /\ IndexMaxHits \in Nat \ {0}
      /\ ToolMaxK <= IndexMaxHits
  BY RetrievalAssumption
<1>2. Max({1, asked}) \in Int /\ Max({1, asked}) >= 1
  BY <1>1, MaxOfTwo
<1>3. k = Min({Max({1, asked}), ToolMaxK})
  BY DEF ClampTopK
<1>4. k \in Nat \ {0} /\ k <= ToolMaxK
  <2> HIDE DEF k, asked
  <2>1. QED
    BY <1>1, <1>2, <1>3, MinOfTwo
<1> HIDE DEF k
<1>5. k * Multiplier \in Nat /\ k <= k * Multiplier
  BY <1>1, <1>4
<1>6. Min({k * Multiplier, IndexMaxHits}) \in Nat /\ k <= Min({k * Multiplier, IndexMaxHits})
  BY <1>1, <1>4, <1>5, MinOfTwo
<1>7. QED
  BY <1>4, <1>6 DEF Limit, k

\* The chunks that a query finds.
FoundBy(query) == {i \in DOMAIN index : LeadingWords(query, i) > 0}

LEMMA MatchesIs ==
    ASSUME NEW n \in Nat, DOMAIN index = 1..n, NEW fileType, NEW query \in Queries, NEW used,
           used = query \/ \E w \in Words : used = Expand(query, <<w>>)
    PROVE  LET N == Cardinality(FoundBy(query))
               R == Matches(used, fileType)
           IN  /\ N \in Nat
               /\ ~Passes(fileType) => R \in [1..0 -> FoundBy(query)]
               /\ Passes(fileType) =>
                     /\ R \in [1..N -> FoundBy(query)]
                     /\ \A i \in FoundBy(query) : \E m \in 1..N : R[m] = i
                     /\ \A a, b \in 1..N :
                           a < b => R[a] # R[b] /\ LeadingWords(used, R[b]) <= LeadingWords(used, R[a])
<1> DEFINE key == [i \in DOMAIN index |-> LeadingWords(used, i)]
           M == Matching(used, fileType)
<1>1. DOMAIN index \in SUBSET Int /\ IsFiniteSet(DOMAIN index)
  BY FS_Interval
<1>2. key \in [DOMAIN index -> Int]
  <2>1. ASSUME NEW i \in DOMAIN index PROVE LeadingWords(used, i) \in Int
    <3>1. LeadingWords(used, i) \in Nat
      <4> HIDE DEF key, M
      <4>1. QED
        BY ExpansionIsHarmless
    <3>2. QED
      BY <3>1
  <2>2. QED
    BY <2>1
<1>3. ~Passes(fileType) => M = {}
  BY DEF Matching
<1>4. Passes(fileType) => M = FoundBy(query)
  BY ExpansionIsHarmless DEF Matching, FoundBy
<1>5. M \in SUBSET DOMAIN index /\ FoundBy(query) \in SUBSET DOMAIN index
  BY DEF Matching, FoundBy
<1>6. IsFiniteSet(M) /\ IsFiniteSet(FoundBy(query))
  <2> HIDE DEF M
  <2>1. QED
    BY <1>1, <1>5, FS_Subset
<1>7. Matches(used, fileType) = Ranked(M, key)
  BY DEF Matches
<1> HIDE DEF M
<1>8. Cardinality(FoundBy(query)) \in Nat /\ Cardinality({}) = 0
  BY <1>6, FS_CardinalityType, FS_EmptySet
<1>9. /\ Ranked(M, key) \in [1..Cardinality(M) -> M]
      /\ \A i \in M : \E m \in 1..Cardinality(M) : Ranked(M, key)[m] = i
      /\ \A a, b \in 1..Cardinality(M) :
            a < b <=> Above(key, Ranked(M, key)[a], Ranked(M, key)[b])
  <2> HIDE DEF key
  <2>1. QED
    BY <1>1, <1>2, <1>5, <1>6, RankedIs
<1>10. CASE ~Passes(fileType)
  <2>1. M = {} /\ Cardinality(M) = 0
    BY <1>3, <1>8, <1>10
  <2> HIDE DEF key
  <2>2. Ranked(M, key) \in [1..0 -> {}]
    BY <1>9, <2>1
  <2>3. Ranked(M, key) \in [1..0 -> FoundBy(query)]
    BY <2>2
  <2>4. QED
    BY <1>7, <1>8, <1>10, <2>3
<1>11. CASE Passes(fileType)
  <2>1. M = FoundBy(query)
    BY <1>4, <1>11
  <2>2. ASSUME NEW a \in 1..Cardinality(M), NEW b \in 1..Cardinality(M), a < b
        PROVE  /\ Ranked(M, key)[a] # Ranked(M, key)[b]
               /\ LeadingWords(used, Ranked(M, key)[b]) <= LeadingWords(used, Ranked(M, key)[a])
    <3> DEFINE i == Ranked(M, key)[a]
               j == Ranked(M, key)[b]
    <3>1. i \in DOMAIN index /\ j \in DOMAIN index /\ Above(key, i, j)
      <4> HIDE DEF key
      <4>1. QED
        BY <1>5, <1>9, <2>2
    <3> HIDE DEF i, j
    <3>2. i # j /\ key[j] <= key[i]
      <4>1. key[i] \in Int /\ key[j] \in Int /\ i \in Int
        BY <1>1, <1>2, <3>1
      <4> HIDE DEF key
      <4>2. QED
        BY <3>1, <4>1 DEF Above
    <3>3. key[i] = LeadingWords(used, i) /\ key[j] = LeadingWords(used, j)
      BY <3>1
    <3> HIDE DEF key
    <3>4. i # j /\ LeadingWords(used, j) <= LeadingWords(used, i)
      BY <3>2, <3>3
    <3>5. QED
      BY <3>4 DEF i, j
  <2> HIDE DEF key
  <2>3. QED
    BY <1>7, <1>8, <1>9, <1>11, <2>1, <2>2
<1>12. QED
  BY <1>10, <1>11

\* One search: what it shows.
LEMMA SearchShowsTheBest ==
    ASSUME NEW n \in Nat, DOMAIN index = 1..n,
           NEW query \in Queries, NEW topK \in AskedTopK, NEW fileType,
           NEW expanding \in BOOLEAN, NEW reranking \in BOOLEAN,
           SearchLocalIndex(query, topK, fileType, expanding, reranking)
    PROVE  NothingWithheld' /\ BestShown'
<1> DEFINE k == ClampTopK(topK)
           limit == Limit(k, reranking)
           M == FoundBy(query)
           N == Cardinality(M)
<1>1. /\ k \in Nat \ {0} /\ limit \in Nat /\ k <= limit
      /\ ~reranking => limit = k
  BY TopKIs
<1>2. PICK used \in {query} \cup (IF expanding THEN {Expand(query, more) : more \in ExpansionOf(query)} ELSE {}) :
        \E candidates \in {FirstOf(Matches(used, fileType), limit)} :
          \/ Found(query, k, used, <<>>, <<>>, <<>>)
          \/ ~reranking /\ Found(query, k, used, candidates, <<>>, candidates)
          \/ reranking /\ Found(query, k, used, candidates, <<>>, FirstOf(candidates, k))
          \/ /\ reranking /\ Len(candidates) > k
             /\ \E score \in [DOMAIN candidates -> 0..1] :
                   Found(query, k, used, candidates, score, Rerank(candidates, k, score))
  BY DEF SearchLocalIndex
<1> DEFINE R == Matches(used, fileType)
           C == FirstOf(R, limit)
<1>3. /\ index' = index
      /\ \/ Found(query, k, used, <<>>, <<>>, <<>>)
         \/ ~reranking /\ Found(query, k, used, C, <<>>, C)
         \/ reranking /\ Found(query, k, used, C, <<>>, FirstOf(C, k))
         \/ /\ reranking /\ Len(C) > k
            /\ \E score \in [DOMAIN C -> 0..1] : Found(query, k, used, C, score, Rerank(C, k, score))
  <2> HIDE DEF k, limit
  <2>1. index' = index
    BY DEF SearchLocalIndex
  <2>2. QED
    BY <1>2, <2>1
<1>4. used = query \/ \E w \in Words : used = Expand(query, <<w>>)
  BY <1>2 DEF ExpansionOf
<1>5. N \in Nat /\ (~Passes(fileType) => R \in [1..0 -> M])
      /\ (Passes(fileType) =>
            /\ R \in [1..N -> M]
            /\ \A i \in M : \E m \in 1..N : R[m] = i
            /\ \A a, b \in 1..N : a < b => R[a] # R[b] /\ LeadingWords(used, R[b]) <= LeadingWords(used, R[a]))
  <2> HIDE DEF M
  <2>1. QED
    BY <1>4, MatchesIs DEF M
<1> HIDE DEF k, limit, R, C, N
<1>6. CASE ~Passes(fileType)
  <2>1. C = <<>>
    <3>1. R \in Seq(M) /\ Len(R) = 0
      BY <1>5, <1>6
    <3>2. C = R
      <4>1. limit \in Nat /\ Len(R) <= limit
        BY <1>1, <3>1
      <4>2. FirstOf(R, limit) = R
        <5> HIDE DEF M
        <5>1. QED
          BY <3>1, <4>1, FirstOfIs
      <4>3. QED
        BY <4>2 DEF C
    <3>3. QED
      BY <3>1, <3>2
  <2>2. found'.candidates = <<>>
    BY <1>1, <1>3, <2>1 DEF Found
  <2>3. ~Answered'
    BY <2>2 DEF Answered
  <2>4. QED
    BY <2>3 DEF NothingWithheld, BestShown
<1>7. CASE Passes(fileType)
  <2> DEFINE c == IF limit <= N THEN limit ELSE N
             h == IF k <= c THEN k ELSE c
  <2>1. R \in [1..N -> M]
    BY <1>5, <1>7
  <2>2. /\ c \in Nat /\ C \in [1..c -> M] /\ Len(C) = c
        /\ \A m \in 1..c : C[m] = R[m]
    <3> HIDE DEF M, c
    <3>1. R \in Seq(M) /\ Len(R) = N /\ N \in Nat /\ limit \in Nat /\ C = FirstOf(R, limit)
      BY <1>1, <1>5, <2>1 DEF C
    <3>2. CASE limit <= N
      <4>1. C \in Seq(M) /\ Len(C) = limit /\ \A m \in 1..limit : C[m] = R[m]
        BY <3>1, <3>2, FirstOfIs
      <4>2. c = limit
        BY <3>2 DEF c
      <4>3. QED
        BY <3>1, <4>1, <4>2, SequenceIs
    <3>3. CASE N <= limit
      <4>1. C = R
        BY <3>1, <3>3, FirstOfIs
      <4>2. c = N
        BY <3>1, <3>3 DEF c
      <4>3. QED
        BY <2>1, <3>1, <4>1, <4>2
    <3>4. QED
      BY <3>1, <3>2, <3>3
  <2>3. /\ h \in Nat /\ FirstOf(C, k) \in [1..h -> M] /\ Len(FirstOf(C, k)) = h
        /\ \A m \in 1..h : FirstOf(C, k)[m] = R[m]
    <3> HIDE DEF c
    <3>1. /\ h \in Nat /\ FirstOf(C, k) \in [1..h -> M] /\ Len(FirstOf(C, k)) = h
          /\ \A m \in 1..h : FirstOf(C, k)[m] = C[m]
      <4> HIDE DEF c, h, M
      <4>1. k \in Nat /\ c \in Nat /\ C \in Seq(M) /\ Len(C) = c
        BY <1>1, <2>2
      <4>2. CASE k <= c
        <5>1. FirstOf(C, k) \in Seq(M) /\ Len(FirstOf(C, k)) = k /\ \A m \in 1..k : FirstOf(C, k)[m] = C[m]
          BY <4>1, <4>2, FirstOfIs
        <5>2. h = k
          BY <4>2 DEF h
        <5>3. QED
          BY <4>1, <5>1, <5>2, SequenceIs
      <4>3. CASE c <= k
        <5>1. FirstOf(C, k) = C
          BY <4>1, <4>3, FirstOfIs
        <5>2. h = c
          BY <4>1, <4>3 DEF h
        <5>3. QED
          BY <2>2, <4>1, <5>1, <5>2
      <4>4. QED
        BY <4>1, <4>2, <4>3
    <3>2. h <= c
      BY <1>1, <2>2
    <3>3. QED
      BY <2>2, <3>1, <3>2
  <2>4. h = Min({k, N})
    BY <1>1, <1>5, MinOfTwo
  <2>5. ~reranking => C = FirstOf(C, k)
    <3>1. ~reranking => c = h
      BY <1>1, <1>5
    <3>2. \A m \in 1..h : ~reranking => C[m] = FirstOf(C, k)[m]
      <4> HIDE DEF c, h
      <4>1. QED
        BY <2>2, <2>3, <3>1
    <3> HIDE DEF c, h
    <3>3. QED
      BY <2>2, <2>3, <3>1, <3>2
  <2>6. CASE Found(query, k, used, <<>>, <<>>, <<>>)
    <3>1. ~Answered'
      BY <2>6 DEF Answered, Found
    <3>2. QED
      BY <3>1 DEF NothingWithheld, BestShown
  <2>7. CASE Found(query, k, used, C, <<>>, FirstOf(C, k))
    <3>1. found'.query = query /\ found'.k = k /\ found'.score = <<>> /\ found'.hits = FirstOf(C, k)
      BY <2>7 DEF Found
    <3>2. NothingWithheld'
      BY <1>3, <2>3, <2>4, <3>1 DEF NothingWithheld, LeadingWords, M, N, FoundBy
    <3>3. ASSUME NEW i \in DOMAIN index, LeadingWords(query, i) = Len(query),
                 i \notin Range(FirstOf(C, k)),
                 NEW j \in Range(FirstOf(C, k)), LeadingWords(query, j) # Len(query)
          PROVE  FALSE
      <4> HIDE DEF c, h
      <4>1. i \in M
        <5>1. Len(query) \in Nat \ {0}
          BY ExpansionIsHarmless
        <5>2. QED
          BY <3>3, <5>1 DEF M, FoundBy
      <4>2. PICK b \in 1..N : R[b] = i
        BY <1>5, <1>7, <4>1
      <4>3. PICK a \in 1..h : FirstOf(C, k)[a] = j
        BY <2>3, <3>3 DEF Range
      <4>4. R[a] = j /\ h <= N
        BY <1>1, <1>5, <2>3, <4>3 DEF c, h
      <4>5. ~(b <= h)
        <5>1. b \in 1..h => FirstOf(C, k)[b] = i
          BY <2>3, <4>2
        <5>2. b \notin 1..h
          BY <2>3, <3>3, <5>1 DEF Range
        <5>3. QED
          BY <1>5, <2>3, <4>2, <5>2
      <4>6. LeadingWords(used, i) <= LeadingWords(used, j)
        <5>1. a \in 1..N /\ a < b
          BY <1>5, <2>3, <4>2, <4>3, <4>4, <4>5
        <5>2. QED
          BY <1>5, <1>7, <4>2, <4>4, <5>1
      <4>7. /\ LeadingWords(used, i) \in Nat /\ LeadingWords(used, j) \in Nat /\ Len(query) \in Nat
            /\ LeadingWords(used, i) >= Len(query) <=> LeadingWords(query, i) = Len(query)
            /\ LeadingWords(used, j) >= Len(query) <=> LeadingWords(query, j) = Len(query)
        BY <1>4, ExpansionIsHarmless
      <4>8. QED
        BY <3>3, <4>6, <4>7
    <3>4. BestShown'
      BY <1>3, <3>1, <3>3 DEF BestShown, LeadingWords
    <3>5. QED
      BY <3>2, <3>4
  <2>8. ASSUME NEW score \in [DOMAIN C -> 0..1], Len(C) > k,
               Found(query, k, used, C, score, Rerank(C, k, score))
        PROVE  NothingWithheld' /\ BestShown'
    <3> DEFINE order == Ranked(1..c, score)
    <3>1. /\ order \in [1..c -> 1..c]
          /\ \A p \in 1..c : \E m \in 1..c : order[m] = p
          /\ \A a, b \in 1..c : a < b <=> Above(score, order[a], order[b])
      <4> HIDE DEF c
      <4>1. IsFiniteSet(1..c) /\ Cardinality(1..c) = c
        BY <2>2, FS_Interval
      <4>2. DOMAIN C = 1..c /\ 1..c \in SUBSET Int /\ score \in [1..c -> Int]
        BY <2>2
      <4> DEFINE S == 1..c
      <4> HIDE DEF S, order
      <4>3. S \in SUBSET Int /\ score \in [S -> Int] /\ IsFiniteSet(S) /\ Cardinality(S) = c
            /\ order = Ranked(S, score)
        BY <4>1, <4>2 DEF S, order
      <4>4. /\ order \in [1..Cardinality(S) -> S]
            /\ \A p \in S : \E m \in 1..Cardinality(S) : order[m] = p
            /\ \A a, b \in 1..Cardinality(S) : a < b <=> Above(score, order[a], order[b])
        BY <4>3, RankedIs
      <4>5. QED
        BY <4>3, <4>4 DEF S
    <3>2. Rerank(C, k, score) = [m \in 1..k |-> C[order[m]]]
      <4>1. DOMAIN C = 1..c
        BY <2>2
      <4> HIDE DEF c
      <4>2. QED
        BY <4>1 DEF Rerank
    <3>3. k \in 1..c
      BY <1>1, <2>2, <2>8
    <3>4. Rerank(C, k, score) \in [1..k -> M]
      <4> HIDE DEF c, order
      <4>1. ASSUME NEW m \in 1..k PROVE C[order[m]] \in M
        BY <2>2, <3>1, <3>3
      <4>2. QED
        BY <3>2, <4>1
    <3>5. Len(Rerank(C, k, score)) = k
      BY <1>1, <3>4
    <3>6. found'.query = query /\ found'.k = k /\ found'.score = score
          /\ found'.candidates = C /\ found'.hits = Rerank(C, k, score)
      BY <2>8 DEF Found
    <3>7. k = Min({k, N})
      BY <1>1, <1>5, <2>2, <2>4, <2>8
    <3>8. NothingWithheld'
      BY <1>3, <3>5, <3>6, <3>7 DEF NothingWithheld, LeadingWords, M, N, FoundBy
    <3>9. ASSUME NEW p \in 1..c, NEW q \in 1..c,
                 C[p] \in Range(Rerank(C, k, score)), C[q] \notin Range(Rerank(C, k, score))
          PROVE  score[q] <= score[p]
      <4> HIDE DEF order
      <4>1. PICK m \in 1..k : C[order[m]] = C[p]
        <5> HIDE DEF c
        <5>1. QED
          BY <3>2, <3>9 DEF Range
      <4>2. order[m] = p
        <5>1. order[m] \in 1..c /\ c <= N
          <6>1. c <= N
            BY <1>1, <1>5
          <6> HIDE DEF c
          <6>2. m \in 1..c
            BY <1>1, <2>2, <3>3
          <6>3. QED
            BY <3>1, <6>1, <6>2
        <5>2. \A a, b \in 1..c : a < b => C[a] # C[b]
          BY <1>5, <1>7, <2>2
        <5>3. QED
          BY <2>2, <4>1, <5>1, <5>2
      <4> HIDE DEF c
      <4>3. PICK b \in 1..c : order[b] = q
        BY <3>1
      <4>4. b \notin 1..k
        BY <3>2, <3>9, <4>3 DEF Range
      <4>5. m \in 1..c /\ m < b
        BY <1>1, <2>2, <3>3, <4>3, <4>4
      <4>6. Above(score, p, q)
        BY <3>1, <4>2, <4>3, <4>5
      <4>7. score[p] \in Int /\ score[q] \in Int
        BY <2>2
      <4>8. QED
        BY <4>6, <4>7 DEF Above
    <3>10. score # <<>> /\ DOMAIN C = 1..c
      <4> HIDE DEF c
      <4>1. DOMAIN C = 1..c /\ DOMAIN score = 1..c /\ 1 \in 1..c
        BY <1>1, <2>2, <3>3
      <4>2. DOMAIN <<>> = {}
        OBVIOUS
      <4>3. QED
        BY <4>1, <4>2
    <3> HIDE DEF c
    <3>11. BestShown'
      BY <3>6, <3>9, <3>10 DEF BestShown
    <3>12. QED
      BY <3>8, <3>11
  <2> HIDE DEF c, h
  <2>9. QED
    BY <1>3, <2>5, <2>6, <2>7, <2>8
<1>8. QED
  BY <1>6, <1>7

-----------------------------------------------------------------------------
(* The theorems. *)

\* The inductive invariant of cutting and searching.
Inv ==
    /\ CutInv
    /\ index # None => Done /\ DOMAIN index = DOMAIN chunks
    /\ found # None => index # None
    /\ NothingWithheld /\ BestShown

LEMMA InvInit == SInit => Inv
<1> SUFFICES ASSUME SInit PROVE Inv
  OBVIOUS
<1>1. CutInv /\ index = None /\ found = None
  BY CutInit DEF SInit
<1>2. QED
  BY <1>1 DEF Inv, NothingWithheld, BestShown, Answered

LEMMA InvNext == Inv /\ [SNext]_svars => Inv'
<1> SUFFICES ASSUME Inv, [SNext]_svars PROVE Inv'
  OBVIOUS
<1>1. CutInv /\ (index # None => Done /\ DOMAIN index = DOMAIN chunks) /\ (found # None => index # None)
      /\ NothingWithheld /\ BestShown
  BY DEF Inv
<1>2. CASE Next /\ IndexChunks /\ UNCHANGED found
  <2>1. CutInv'
    BY <1>1, <1>2, CutNext
  <2>2. chunks = None
    BY <1>2 DEF Next, ChunkDocument, MemoryError, GiveUp
  <2>3. index = None /\ found = None /\ found' = None
    BY <1>1, <1>2, <2>2 DEF Done
  <2>4. (index # None => Done /\ DOMAIN index = DOMAIN chunks)'
    BY <1>2 DEF IndexChunks, Done
  <2>5. NothingWithheld' /\ BestShown'
    BY <2>3 DEF NothingWithheld, BestShown, Answered
  <2>6. QED
    BY <2>1, <2>3, <2>4, <2>5 DEF Inv
<1>3. ASSUME NEW query \in Queries, NEW topK \in AskedTopK, NEW fileType \in Types \cup {None},
             NEW expanding \in BOOLEAN, NEW reranking \in BOOLEAN,
             SearchLocalIndex(query, topK, fileType, expanding, reranking)
      PROVE  Inv'
  <2>1. index # None /\ found = None /\ UNCHANGED vars /\ UNCHANGED index
    BY <1>3 DEF SearchLocalIndex
  <2>2. CutInv'
    BY <1>1, <2>1, CutNext
  <2>3. DOMAIN index = 1..Len(chunks) /\ Len(chunks) \in Nat
    BY <1>1, <2>1, ChunksAre DEF CutInv, CutRight
  <2>4. NothingWithheld' /\ BestShown'
    BY <1>3, <2>3, SearchShowsTheBest
  <2>5. (index # None => Done /\ DOMAIN index = DOMAIN chunks)' /\ index' # None
    BY <1>1, <2>1 DEF Done, vars
  <2>6. QED
    BY <2>2, <2>4, <2>5 DEF Inv
<1>4. CASE UNCHANGED svars
  <2>1. UNCHANGED vars /\ UNCHANGED <<index, found>>
    BY <1>4 DEF svars
  <2>2. CutInv'
    BY <1>1, <2>1, CutNext
  <2>3. (index # None => Done /\ DOMAIN index = DOMAIN chunks)' /\ (found # None => index # None)'
    BY <1>1, <2>1 DEF Done, vars
  <2>4. NothingWithheld' /\ BestShown'
    BY <1>1, <2>1 DEF NothingWithheld, BestShown, Answered, LeadingWords
  <2>5. QED
    BY <2>2, <2>3, <2>4 DEF Inv
<1>5. QED
  BY <1>2, <1>3, <1>4 DEF SNext

\* The invariant holds while any document is cut and searched (chunk_document
\* and search_local_index), so that the properties follow from it.
THEOREM InvHolds == SSpec => []Inv
BY InvInit, InvNext, PTL DEF SSpec

\* What is said of a document as it is cut, in the words of Chunking.
LEMMA InvMeans == Inv => NothingLost /\ TablesStayWhole /\ ChunkBounded
<1> SUFFICES ASSUME CutInv PROVE NothingLost /\ TablesStayWhole /\ ChunkBounded
  BY DEF Inv
<1>1. CASE ~Done
  BY <1>1 DEF NothingLost, TablesStayWhole, ChunkBounded
<1>2. CASE Done
  <2> DEFINE d == document
             r == chunks
             s == Source(document)
             A == CharsOf(s)
  <2>1. d \in Documents /\ CutRight(d, r)
    BY <1>2 DEF CutInv, Halving
  <2>2. s \in Text /\ InOrder(s)
    BY <2>1, SourceIs
  <2>3. Len(s) \in Nat /\ DOMAIN s = 1..Len(s) /\ A = {s[x] : x \in 1..Len(s)} \ {NL} /\ \A x \in 1..Len(s) : s[x] \in Char
    BY <2>2, TextIs
  <2>4. r \in Seq(Text) /\ Known(r) = A /\ Orderly(A, r) /\ DOMAIN r = 1..Len(r) /\ \A k \in 1..Len(r) : r[k] \in Text
    BY <2>1, ChunksAre DEF CutRight
  <2>5. NothingLost
    <3> HIDE DEF s, A
    <3>1. UNION {CharsOf(r[k]) : k \in DOMAIN r} = A
      BY <2>4 DEF Known
    <3>2. ASSUME NEW k \in DOMAIN r, NEW p \in DOMAIN r[k], NEW y \in DOMAIN s,
                 s[y] # NL, r[k][p] = s[y], NEW x \in 1..(y - 1), s[x] # NL
          PROVE  s[x] \in (UNION {Range(r[j]) : j \in 1..(k - 1)}) \cup {r[k][q] : q \in 1..(p - 1)}
      <4>1. x \in 1..Len(s) /\ x \in DOMAIN s /\ x < y
        BY <2>3
      <4>2. Earlier(s[x], r[k][p]) /\ s[x] \in A
        BY <2>2, <2>3, <3>2, <4>1 DEF InOrder
      <4>3. s[x] \in Before(r, k) \/ \E q \in 1..(p - 1) : r[k][q] = s[x]
        BY <2>4, <3>2, <4>2 DEF Orderly, Fits
      <4>4. Before(r, k) \subseteq UNION {Range(r[j]) : j \in 1..(k - 1)}
        BY DEF Before, CharsOf
      <4> DEFINE earlier == UNION {Range(r[j]) : j \in 1..(k - 1)}
                 own == {r[k][q] : q \in 1..(p - 1)}
      <4>5. (\E q \in 1..(p - 1) : r[k][q] = s[x]) => s[x] \in own
        OBVIOUS
      <4> HIDE DEF earlier, own
      <4>6. Before(r, k) \subseteq earlier
        BY <4>4 DEF earlier
      <4>7. s[x] \in earlier \cup own
        BY <4>3, <4>5, <4>6
      <4>8. QED
        BY <4>7 DEF earlier, own
    <3>3. QED
      BY <3>1, <3>2 DEF NothingLost, s, A
  <2>6. TablesStayWhole
    <3>1. CASE IsTable(document)
      BY <2>1, <3>1 DEF TablesStayWhole, CutRight
    <3>2. CASE ~IsTable(document)
      <4>1. document.blocks \in Seq(Block)
        BY <2>1, <3>2, KindsAre, BlocksAre DEF Table
      <4>2. \A b \in DOMAIN document.blocks : document.blocks[b].table => StandsAlone(document, chunks, b)
        BY <2>1, <3>2, <4>1 DEF CutRight
      <4>3. QED
        BY <3>2, <4>2 DEF TablesStayWhole, StandsAlone, TextAt
    <3>3. QED
      BY <3>1, <3>2
  <2>7. ChunkBounded
    BY <2>1 DEF ChunkBounded, CutRight, Short
  <2>8. QED
    BY <2>5, <2>6, <2>7
<1>3. QED
  BY <1>1, <1>2

\* What the chunks bring is the document, in its order, for documents of any
\* form, any sizes and any number of MemoryErrors (chunker.py:77-168, 197-259,
\* 287-376, 428-498).
THEOREM CuttingLosesNothing == SSpec => []NothingLost
<1>1. Inv => NothingLost
  BY InvMeans
<1>2. QED
  BY <1>1, InvHolds, PTL

\* A table is under its header in every part, and a table block is never cut,
\* repeated or mixed into the overlap (chunker.py:249-257, 332-339).
THEOREM CuttingKeepsTables == SSpec => []TablesStayWhole
<1>1. Inv => TablesStayWhole
  BY InvMeans
<1>2. QED
  BY <1>1, InvHolds, PTL

\* No chunk of prose is longer than the maximum with the overlap twice and its
\* blank line, also after the sizes were halved (chunker.py:331-372, 452-496).
THEOREM ChunksAreBounded == SSpec => []ChunkBounded
<1>1. Inv => ChunkBounded
  BY InvMeans
<1>2. QED
  BY <1>1, InvHolds, PTL

\* A search shows as many results as were asked for or all there are, whatever
\* the index holds (search_tool.py:79-114, meilisearch_client.py:304-364,
\* reranker.py:126-171).
THEOREM SearchWithholdsNothing == SSpec => []NothingWithheld
<1>1. Inv => NothingWithheld
  BY DEF Inv
<1>2. QED
  BY <1>1, InvHolds, PTL

\* Its results are the best, by the score or by the words of the query, and the
\* words an expansion adds push none of them out (query_expander.py:189-199,
\* reranker.py:151-158).
THEOREM SearchShowsBest == SSpec => []BestShown
<1>1. Inv => BestShown
  BY DEF Inv
<1>2. QED
  BY <1>1, InvHolds, PTL
===============================================================================
