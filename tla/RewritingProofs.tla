-------------------------- MODULE RewritingProofs ---------------------------
(***************************************************************************)
(* What rewriting does to programs of any length: the mutators and the     *)
(* generators (Mutation), and the minimizing stages with remove_nops       *)
(* (Minimizers).                                                           *)
(*                                                                         *)
(* The argument is the same for all of them.  Within(q, r, f) says that    *)
(* program q sits inside program r, its k-th instruction at f[k], with     *)
(* nothing between two of its instructions but code whose blocks are       *)
(* closed again.  A variable of q then has a counterpart in r that is      *)
(* defined by the same instruction (Same), with the same type and visible  *)
(* in the same places, so that an instruction whose inputs go to their     *)
(* counterparts (Rewired) is valid in r exactly when it is valid in q.     *)
(* An insertion puts the old program within the new one; taking the nops   *)
(* out puts the new program within the old one.                            *)
(***************************************************************************)
EXTENDS Minimizers, Mutation, ReplayProofs

-----------------------------------------------------------------------------
(* Sequences, and the least and the greatest of a set of numbers. *)

\* A function on the first m numbers is a sequence.
LEMMA ListIsSequence ==
  ASSUME NEW T, NEW m \in Nat, NEW s \in [1..m -> T]
  PROVE  s \in Seq(T) /\ Len(s) = m
<1>1. s \in Seq(T)
  BY SeqDef
<1>2. Len(s) \in Nat /\ DOMAIN s = 1..Len(s) /\ DOMAIN s = 1..m
  BY <1>1, LenProperties
<1>3. m \in DOMAIN s \/ m = 0
  BY <1>2
<1>4. Len(s) \in DOMAIN s \/ Len(s) = 0
  BY <1>2
<1>5. QED
  BY <1>1, <1>2, <1>3, <1>4

\* What is where in two sequences, of lengths a and b, put together.
Joined(S, u, s, a, t, b) ==
  /\ u \in Seq(S) /\ Len(u) = a + b
  /\ \A i \in 1..(a + b) : u[i] = IF i <= a THEN s[i] ELSE t[i - a]

LEMMA ConcatIs ==
  ASSUME NEW S, NEW s \in Seq(S), NEW t \in Seq(S)
  PROVE  Joined(S, s \o t, s, Len(s), t, Len(t))
  BY ConcatProperties DEF Joined

\* CHOOSE of Max has a greatest element to choose, in a set that is bounded.
LEMMA MaxIsGreatest ==
  ASSUME NEW n \in Nat, NEW T, T \subseteq 1..n, T # {}
  PROVE  Max(T) \in T /\ \A y \in T : y <= Max(T)
<1> DEFINE U == {n - x : x \in T}
<1>1. U \subseteq Nat /\ U # {}
  <2>1. ASSUME NEW x \in T PROVE n - x \in Nat
    BY <2>1
  <2>2. PICK z \in T : TRUE
    OBVIOUS
  <2>3. n - z \in U
    OBVIOUS
  <2>4. QED
    BY <2>1, <2>3
<1>2. PICK u \in U : \A v \in U : u <= v
  BY <1>1, Least
<1>3. PICK x \in T : u = n - x
  OBVIOUS
<1>4. ASSUME NEW y \in T PROVE x >= y
  <2>1. n - y \in U
    OBVIOUS
  <2>2. n - x <= n - y
    BY <1>2, <1>3, <2>1
  <2>3. x \in Nat /\ y \in Nat
    OBVIOUS
  <2> HIDE DEF U
  <2>4. QED
    BY <2>2, <2>3
<1>5. QED
  BY <1>4 DEF Max

-----------------------------------------------------------------------------
(* A program inside another.  What is around it may be instructions of any *)
(* kind, as long as the blocks they begin are closed again before the next *)
(* instruction of the program.                                             *)

\* Two operations with the same shape: only the data they carry may differ.
Alike(op, o) ==
  /\ op.name = o.name
  /\ InputVariables(op) = InputVariables(o)
  /\ OutputVariables(op) = OutputVariables(o)
  /\ InnerOutputVariables(op) = InnerOutputVariables(o)

\* The gap in r between two instructions, at b and at e, that is closed in itself.
Closed(r, b, e) ==
  /\ \A j \in b..(e - 1) : Depth(r, j) >= Depth(r, b)
  /\ Depth(r, e - 1) = Depth(r, b)

\* The k-th instruction of q is at f[k] in r.
Within(q, r, f) ==
  /\ f \in [0..Len(q) -> 0..Len(r)]
  /\ f[0] = 0
  /\ \A k \in 1..Len(q) :
       /\ f[k - 1] < f[k]
       /\ Alike(q[k].operation, r[f[k]].operation)
       /\ Closed(r, f[k - 1], f[k])

LEMMA AlikeFacts ==
  ASSUME NEW op, NEW o, Alike(op, o)
  PROVE  /\ IsBlockBegin(op) <=> IsBlockBegin(o)
         /\ IsBlockEnd(op) <=> IsBlockEnd(o)
         /\ IsNop(op) <=> IsNop(o)
         /\ Defines(op) = Defines(o)
  BY DEF Alike, IsBlockBegin, IsBlockEnd, IsNop, Defines

\* The places are in order, and every instruction of r up to the last place is at a place or in
\* a gap.
LEMMA Places ==
  ASSUME NEW q, Len(q) \in Nat, NEW r, Len(r) \in Nat, NEW f, Within(q, r, f)
  PROVE  /\ \A k \in 0..Len(q) : f[k] \in Nat /\ f[k] <= Len(r)
         /\ \A k \in 0..Len(q) : \A i \in 0..Len(q) : i < k => f[i] < f[k]
         /\ \A k \in 0..Len(q) : \A j \in 1..f[k] :
              \E i \in 1..k : f[i - 1] < j /\ j <= f[i]
<1>1. \A k \in 0..Len(q) : f[k] \in Nat /\ f[k] <= Len(r)
  BY DEF Within
<1>2. \A k \in 1..Len(q) : f[k - 1] < f[k]
  BY DEF Within
<1>3. f[0] = 0
  BY DEF Within
<1> DEFINE S == {k \in Nat : k <= Len(q) => \A i \in 0..Len(q) : i < k => f[i] < f[k]}
<1>4. \A k \in 0..Len(q) : \A i \in 0..Len(q) : i < k => f[i] < f[k]
  <2>1. 0 \in S
    OBVIOUS
  <2>2. ASSUME NEW k \in Nat, k \in S PROVE k + 1 \in S
    <3>1. SUFFICES ASSUME k + 1 <= Len(q), NEW i \in 0..Len(q), i < k + 1
                   PROVE  f[i] < f[k + 1]
      OBVIOUS
    <3>2. k + 1 \in 1..Len(q) /\ k + 1 - 1 = k /\ k \in 0..Len(q) /\ k + 1 \in 0..Len(q)
      BY <3>1
    <3>3. f[k] < f[k + 1]
      BY <1>2, <3>2
    <3>4. i = k \/ f[i] < f[k]
      BY <2>2, <3>1, <3>2
    <3>5. f[i] \in Nat /\ f[k] \in Nat /\ f[k + 1] \in Nat
      BY <1>1, <3>2
    <3>6. QED
      BY <3>3, <3>4, <3>5
  <2> HIDE DEF S
  <2>3. Nat \subseteq S
    BY <2>1, <2>2, Induction
  <2>4. QED
    BY <2>3 DEF S
<1> DEFINE G == {k \in Nat : k <= Len(q) =>
                   \A j \in 1..f[k] : \E i \in 1..k : f[i - 1] < j /\ j <= f[i]}
<1>5. \A k \in 0..Len(q) : \A j \in 1..f[k] : \E i \in 1..k : f[i - 1] < j /\ j <= f[i]
  <2>1. 0 \in G
    BY <1>3
  <2>2. ASSUME NEW k \in Nat, k \in G PROVE k + 1 \in G
    <3>1. SUFFICES ASSUME k + 1 <= Len(q), NEW j \in 1..f[k + 1]
                   PROVE  \E i \in 1..(k + 1) : f[i - 1] < j /\ j <= f[i]
      OBVIOUS
    <3>2. k + 1 - 1 = k /\ k \in 0..Len(q) /\ k + 1 \in 0..Len(q) /\ k + 1 \in 1..(k + 1)
      BY <3>1
    <3>3. f[k] \in Nat /\ f[k + 1] \in Nat
      BY <1>1, <3>2
    <3>4. CASE j <= f[k]
      <4>1. j \in 1..f[k]
        BY <3>3, <3>4
      <4>2. PICK i \in 1..k : f[i - 1] < j /\ j <= f[i]
        BY <2>2, <3>1, <4>1
      <4>3. i \in 1..(k + 1)
        OBVIOUS
      <4>4. QED
        BY <4>2, <4>3
    <3>5. CASE ~(j <= f[k])
      <4>1. f[k + 1 - 1] < j /\ j <= f[k + 1]
        BY <3>2, <3>3, <3>5
      <4>2. QED
        BY <3>2, <4>1
    <3>6. QED
      BY <3>4, <3>5
  <2> HIDE DEF G
  <2>3. Nat \subseteq G
    BY <2>1, <2>2, Induction
  <2>4. QED
    BY <2>3 DEF G
<1>6. QED
  BY <1>1, <1>4, <1>5

LEMMA PlaceFacts ==
  ASSUME NEW q, Len(q) \in Nat, NEW r, Len(r) \in Nat, NEW f, Within(q, r, f), NEW k \in 1..Len(q)
  PROVE  /\ f[k] \in 1..Len(r) /\ f[k - 1] \in Nat /\ f[k - 1] < f[k]
         /\ k \in 0..Len(q) /\ k - 1 \in 0..Len(q)
<1>1. k \in 0..Len(q) /\ k - 1 \in 0..Len(q)
  OBVIOUS
<1>2. f[k] \in Nat /\ f[k] <= Len(r) /\ f[k - 1] \in Nat
  BY <1>1, Places
<1>3. f[k - 1] < f[k]
  BY DEF Within
<1>4. QED
  BY <1>1, <1>2, <1>3

\* At its place an instruction is as deep as it was.
LEMMA WithinDepth ==
  ASSUME NEW q, Len(q) \in Nat, NEW r, Len(r) \in Nat, NEW f, Within(q, r, f), NEW k \in 0..Len(q)
  PROVE  Depth(r, f[k]) = Depth(q, k)
<1> DEFINE S == {n \in Nat : n <= Len(q) => Depth(r, f[n]) = Depth(q, n)}
<1>1. 0 \in S
  BY DepthSteps DEF Within
<1>2. ASSUME NEW n \in Nat, n \in S PROVE n + 1 \in S
  <2>1. SUFFICES ASSUME n + 1 <= Len(q) PROVE Depth(r, f[n + 1]) = Depth(q, n + 1)
    OBVIOUS
  <2>2. n + 1 - 1 = n /\ n \in 0..Len(q) /\ n + 1 \in 0..Len(q) /\ n + 1 \in 1..Len(q)
    BY <2>1
  <2>3. /\ f[n] < f[n + 1] /\ Alike(q[n + 1].operation, r[f[n + 1]].operation)
        /\ Depth(r, f[n + 1] - 1) = Depth(r, f[n])
    BY <2>2 DEF Within, Closed
  <2>4. f[n] \in Nat /\ f[n + 1] \in Nat
    BY <2>2, Places
  <2>5. f[n + 1] \in Nat \ {0} /\ n + 1 \in Nat \ {0}
    BY <2>3, <2>4
  <2>6. Depth(r, f[n]) = Depth(q, n)
    BY <1>2, <2>1
  <2>7. /\ IsBlockBegin(q[n + 1].operation) <=> IsBlockBegin(r[f[n + 1]].operation)
        /\ IsBlockEnd(q[n + 1].operation) <=> IsBlockEnd(r[f[n + 1]].operation)
    BY <2>3, AlikeFacts
  <2>8. PICK a : a = f[n + 1]
    OBVIOUS
  <2>9. /\ Depth(r, a - 1) \in Int /\ Depth(r, a) \in Int
        /\ IsBlockBegin(r[a].operation) => Depth(r, a) = Depth(r, a - 1) + 1
        /\ IsBlockEnd(r[a].operation) => Depth(r, a) = Depth(r, a - 1) - 1
        /\ ~IsBlockBegin(r[a].operation) /\ ~IsBlockEnd(r[a].operation) =>
             Depth(r, a) = Depth(r, a - 1)
    BY <2>5, <2>8, TextStep
  <2>10. /\ IsBlockBegin(q[n + 1].operation) => Depth(q, n + 1) = Depth(q, n) + 1
         /\ IsBlockEnd(q[n + 1].operation) => Depth(q, n + 1) = Depth(q, n) - 1
         /\ ~IsBlockBegin(q[n + 1].operation) /\ ~IsBlockEnd(q[n + 1].operation) =>
              Depth(q, n + 1) = Depth(q, n)
    <3>1. PICK m : m = n + 1
      OBVIOUS
    <3>2. /\ IsBlockBegin(q[m].operation) => Depth(q, m) = Depth(q, m - 1) + 1
          /\ IsBlockEnd(q[m].operation) => Depth(q, m) = Depth(q, m - 1) - 1
          /\ ~IsBlockBegin(q[m].operation) /\ ~IsBlockEnd(q[m].operation) =>
               Depth(q, m) = Depth(q, m - 1)
      BY <2>5, <3>1, TextStep
    <3>3. m - 1 = n
      BY <3>1
    <3>4. QED
      BY <3>1, <3>2, <3>3
  <2>11. Depth(r, a - 1) = Depth(q, n)
    BY <2>3, <2>6, <2>8
  <2>12. Depth(r, a) = Depth(q, n + 1)
    <3>1. CASE IsBlockBegin(q[n + 1].operation)
      BY <2>7, <2>8, <2>9, <2>10, <2>11, <3>1
    <3>2. CASE IsBlockEnd(q[n + 1].operation)
      BY <2>7, <2>8, <2>9, <2>10, <2>11, <3>2
    <3>3. CASE ~IsBlockBegin(q[n + 1].operation) /\ ~IsBlockEnd(q[n + 1].operation)
      BY <2>7, <2>8, <2>9, <2>10, <2>11, <3>3
    <3>4. QED
      BY <3>1, <3>2, <3>3
  <2>13. QED
    BY <2>8, <2>12
<1> HIDE DEF S
<1>3. Nat \subseteq S
  BY <1>1, <1>2, Induction
<1>4. QED
  BY <1>3 DEF S

\* The instructions of r from the k-th place to j are no less deep than the k-th instruction.
Covered(r, a, j) == j \in a..Len(r) /\ \A i \in a..j : Depth(r, i) >= Depth(r, a)

\* A block of the program is open where it was open.
LEMMA WithinOpen ==
  ASSUME NEW q, Len(q) \in Nat, NEW r, Len(r) \in Nat, NEW f, Within(q, r, f),
         NEW k \in 0..Len(q), NEW b \in 1..k, NEW j, Covered(r, f[k], j)
  PROVE  StillOpen(r, f[b], j) <=> StillOpen(q, b, k)
<1>1. b \in 0..Len(q) /\ f[b] \in Nat /\ f[k] \in Nat /\ f[b] <= f[k]
  BY Places
<1>2. j \in Nat /\ f[k] <= j
  BY <1>1 DEF Covered
<1>3. \A i \in Nat : Depth(r, i) \in Int /\ Depth(q, i) \in Int
  BY DepthSteps
<1>4. Depth(r, f[b]) = Depth(q, b)
  BY <1>1, WithinDepth
<1>5. ASSUME StillOpen(r, f[b], j), NEW i \in b..k PROVE Depth(q, i) >= Depth(q, b)
  <2>1. i \in 0..Len(q)
    OBVIOUS
  <2>2. f[i] \in Nat /\ f[b] <= f[i] /\ f[i] <= f[k]
    BY <1>1, <2>1, Places
  <2>3. f[i] \in f[b]..j
    BY <1>1, <1>2, <2>2
  <2>4. Depth(r, f[i]) >= Depth(r, f[b])
    BY <1>5, <2>3 DEF StillOpen
  <2>5. Depth(r, f[i]) = Depth(q, i)
    BY <2>1, WithinDepth
  <2>6. QED
    BY <1>4, <2>4, <2>5
<1>6. ASSUME StillOpen(q, b, k), NEW i \in f[b]..j PROVE Depth(r, i) >= Depth(r, f[b])
  <2>1. i \in Nat /\ f[b] <= i /\ i <= j
    BY <1>1, <1>2
  <2>2. CASE i >= f[k]
    <3>1. Depth(r, i) >= Depth(r, f[k])
      BY <1>1, <1>2, <2>1, <2>2 DEF Covered
    <3>2. Depth(r, f[k]) = Depth(q, k) /\ k \in b..k
      BY WithinDepth
    <3>3. Depth(q, k) >= Depth(q, b)
      BY <1>6, <3>2 DEF StillOpen
    <3>4. Depth(r, i) \in Int /\ Depth(q, k) \in Int /\ Depth(q, b) \in Int
      BY <1>3, <2>1
    <3>5. QED
      BY <1>4, <3>1, <3>2, <3>3, <3>4
  <2>3. CASE i = f[b]
    <3>1. Depth(r, i) \in Int
      BY <1>3, <2>1
    <3>2. Depth(r, i) >= Depth(r, i)
      BY <3>1
    <3>3. QED
      BY <2>3, <3>2
  <2>4. CASE i < f[k] /\ i # f[b]
    <3>1. i \in 1..f[k] /\ f[b] < i
      BY <1>1, <2>1, <2>4
    <3>2. PICK x \in 1..k : f[x - 1] < i /\ i <= f[x]
      BY <3>1, Places
    <3>3. x \in 0..Len(q) /\ x - 1 \in 0..Len(q) /\ x \in 1..Len(q)
      OBVIOUS
    <3>4. f[x] \in Nat /\ f[x - 1] \in Nat
      BY <3>3, Places
    <3>5. b <= x - 1
      <4>1. SUFFICES ASSUME x <= b PROVE FALSE
        OBVIOUS
      <4>2. f[x] <= f[b]
        BY <1>1, <3>3, <3>4, <4>1, Places
      <4>3. QED
        BY <1>1, <3>1, <3>2, <3>4, <4>2
    <3>6. x - 1 \in b..k /\ x \in b..k
      BY <3>5
    <3>7. CASE i = f[x]
      <4>1. Depth(r, i) = Depth(q, x)
        BY <3>3, <3>7, WithinDepth
      <4>2. QED
        BY <1>4, <1>6, <3>6, <4>1 DEF StillOpen
    <3>8. CASE i # f[x]
      <4>1. i \in f[x - 1]..(f[x] - 1)
        BY <2>1, <3>2, <3>4, <3>8
      <4>2. Depth(r, i) >= Depth(r, f[x - 1])
        BY <3>3, <4>1 DEF Within, Closed
      <4>3. Depth(r, f[x - 1]) = Depth(q, x - 1)
        BY <3>3, WithinDepth
      <4>4. Depth(q, x - 1) >= Depth(q, b)
        BY <1>6, <3>6 DEF StillOpen
      <4>5. Depth(r, i) \in Int /\ Depth(q, x - 1) \in Int /\ Depth(q, b) \in Int
        <5>1. x - 1 \in Nat /\ b \in Nat
          BY <3>3
        <5>2. QED
          BY <1>3, <2>1, <5>1
      <4>6. QED
        BY <1>4, <4>2, <4>3, <4>4, <4>5
    <3>9. QED
      BY <3>7, <3>8
  <2>5. QED
    BY <1>1, <2>1, <2>2, <2>3, <2>4
<1>7. QED
  BY <1>5, <1>6 DEF StillOpen

OpenAt(p, k) == {b \in 1..k : IsBlockBegin(p[b].operation) /\ StillOpen(p, b, k)}

\* No other block is open there, so that the innermost one is the same.
LEMMA WithinEnclosing ==
  ASSUME NEW q, Len(q) \in Nat, NEW r, Len(r) \in Nat, NEW f, Within(q, r, f),
         NEW k \in 0..Len(q), NEW j, Covered(r, f[k], j), Depth(r, j) = Depth(r, f[k])
  PROVE  Enclosing(q, k) \in 0..k /\ Enclosing(r, j) = f[Enclosing(q, k)]
<1>1. f[k] \in Nat /\ f[0] = 0
  BY Places DEF Within
<1>2. j \in Nat /\ f[k] <= j
  BY <1>1 DEF Covered
<1>3. \A i \in Nat : Depth(r, i) \in Int /\ Depth(q, i) \in Int
  BY DepthSteps
<1>4. ASSUME NEW b \in OpenAt(r, j) PROVE \E x \in OpenAt(q, k) : b = f[x]
  <2>1. b \in 1..j /\ IsBlockBegin(r[b].operation) /\ StillOpen(r, b, j)
    BY DEF OpenAt
  <2>2. b \in Nat \ {0} /\ b <= j /\ b - 1 \in Nat
    BY <1>2, <2>1
  <2>3. Depth(r, b) = Depth(r, b - 1) + 1 /\ Depth(r, b) \in Int /\ Depth(r, b - 1) \in Int
    BY <2>1, <2>2, TextStep
  <2>4. \A i \in b..j : Depth(r, i) >= Depth(r, b)
    BY <2>1 DEF StillOpen
  <2>5. b <= f[k]
    <3>1. SUFFICES ASSUME b > f[k] PROVE FALSE
      BY <1>1, <2>2
    <3>2. b - 1 \in f[k]..j /\ j \in b..j
      BY <1>1, <1>2, <2>2, <3>1
    <3>3. Depth(r, b - 1) >= Depth(r, f[k]) /\ Depth(r, j) >= Depth(r, b)
      BY <2>4, <3>2 DEF Covered
    <3>4. Depth(r, f[k]) \in Int
      BY <1>1, <1>3
    <3>5. QED
      BY <2>3, <3>3, <3>4
  <2>6. PICK x \in 1..k : f[x - 1] < b /\ b <= f[x]
    BY <1>1, <2>2, <2>5, Places
  <2>7. x \in 0..Len(q) /\ x - 1 \in 0..Len(q) /\ x \in 1..Len(q)
    OBVIOUS
  <2>8. f[x] \in Nat /\ f[x - 1] \in Nat /\ f[x] <= f[k]
    BY <1>1, <2>7, Places
  <2>9. b = f[x]
    <3>1. SUFFICES ASSUME b < f[x] PROVE FALSE
      BY <2>2, <2>6, <2>8
    <3>2. b - 1 \in f[x - 1]..(f[x] - 1) /\ f[x] - 1 \in b..j
      BY <1>1, <1>2, <2>2, <2>6, <2>8, <3>1
    <3>3. Depth(r, b - 1) >= Depth(r, f[x - 1]) /\ Depth(r, f[x] - 1) = Depth(r, f[x - 1])
      BY <2>7, <3>2 DEF Within, Closed
    <3>4. Depth(r, f[x] - 1) >= Depth(r, b)
      BY <2>4, <3>2
    <3>5. Depth(r, f[x - 1]) \in Int
      BY <1>3, <2>8
    <3>6. QED
      BY <2>3, <3>3, <3>4, <3>5
  <2>10. IsBlockBegin(q[x].operation)
    BY <2>1, <2>7, <2>9, AlikeFacts DEF Within
  <2>11. StillOpen(q, x, k)
    BY <2>1, <2>9, WithinOpen
  <2>12. QED
    BY <2>9, <2>10, <2>11 DEF OpenAt
<1>5. ASSUME NEW x \in OpenAt(q, k) PROVE f[x] \in OpenAt(r, j)
  <2>1. x \in 1..k /\ IsBlockBegin(q[x].operation) /\ StillOpen(q, x, k)
    BY DEF OpenAt
  <2>2. x \in 0..Len(q) /\ 0 \in 0..Len(q) /\ 0 < x /\ x \in 1..Len(q)
    BY <2>1
  <2>3. f[x] \in Nat /\ f[x] <= f[k] /\ 0 < f[x]
    BY <1>1, <2>1, <2>2, Places
  <2>4. f[x] \in 1..j
    BY <1>1, <1>2, <2>3
  <2>5. IsBlockBegin(r[f[x]].operation)
    BY <2>1, <2>2, AlikeFacts DEF Within
  <2>6. StillOpen(r, f[x], j)
    BY <2>1, WithinOpen
  <2>7. QED
    BY <2>4, <2>5, <2>6 DEF OpenAt
<1>6. /\ Enclosing(r, j) = (IF OpenAt(r, j) = {} THEN 0 ELSE Max(OpenAt(r, j)))
      /\ Enclosing(q, k) = (IF OpenAt(q, k) = {} THEN 0 ELSE Max(OpenAt(q, k)))
  BY DEF Enclosing, OpenAt
<1>7. CASE OpenAt(q, k) = {}
  <2>1. OpenAt(r, j) = {}
    BY <1>4, <1>7
  <2>2. QED
    BY <1>1, <1>6, <1>7, <2>1
<1>8. CASE OpenAt(q, k) # {}
  <2>1. PICK m : m = Max(OpenAt(q, k))
    OBVIOUS
  <2>2. OpenAt(q, k) \subseteq 1..k /\ k \in Nat
    BY DEF OpenAt
  <2>3. m \in OpenAt(q, k) /\ \A y \in OpenAt(q, k) : y <= m
    BY <1>8, <2>1, <2>2, MaxIsGreatest
  <2>4. f[m] \in OpenAt(r, j)
    BY <1>5, <2>3
  <2>5. ASSUME NEW b \in OpenAt(r, j) PROVE b <= f[m]
    <3>1. PICK y \in OpenAt(q, k) : b = f[y]
      BY <1>4
    <3>2. y \in 0..Len(q) /\ m \in 0..Len(q) /\ y <= m
      BY <2>2, <2>3
    <3>3. QED
      BY <3>1, <3>2, Places
  <2>6. OpenAt(r, j) \subseteq Nat /\ OpenAt(r, j) # {}
    BY <1>2, <2>4 DEF OpenAt
  <2>7. Max(OpenAt(r, j)) = f[m]
    BY <2>4, <2>5, <2>6, MaxIs
  <2>8. m \in 0..k
    BY <2>2, <2>3
  <2>9. QED
    BY <1>6, <1>8, <2>1, <2>6, <2>7, <2>8
<1>9. QED
  BY <1>7, <1>8

-----------------------------------------------------------------------------
(* The variables of a program inside another. *)

\* The variable of r that is v of q: the same one of its definer.
Carried(q, r, f, v) ==
  DefinedBefore(r, f[DefinerOf(q, v)]) + (v - DefinedBefore(q, DefinerOf(q, v)))

\* v, at its place in r, is w.
Same(q, r, f, v, w) ==
  /\ DefinerOf(q, v) \in 1..Len(q)
  /\ w \in Nat \ {0}
  /\ DefinerOf(r, w) = f[DefinerOf(q, v)]
  /\ w - DefinedBefore(r, DefinerOf(r, w)) = v - DefinedBefore(q, DefinerOf(q, v))
  /\ w <= DefinedBefore(r, DefinerOf(r, w) + 1)

LEMMA Shifted ==
  ASSUME NEW x \in Nat, NEW y \in Nat, NEW n \in Nat, NEW v \in (x + 1)..(x + n)
  PROVE  /\ y + (v - x) \in (y + 1)..(y + n)
         /\ y + (v - x) - y = v - x
  OBVIOUS

LEMMA CarriedIsSame ==
  ASSUME NEW q \in Seq(Instruction), NEW r \in Seq(Instruction), NEW f, Within(q, r, f),
         NEW v \in 1..DefinedBefore(q, Len(q) + 1)
  PROVE  Same(q, r, f, v, Carried(q, r, f, v))
<1>1. Len(q) \in Nat /\ Len(r) \in Nat
  BY ProgramFacts
<1>2. PICK d : d = DefinerOf(q, v)
  OBVIOUS
<1>3. d \in 1..Len(q) /\ v \in (DefinedBefore(q, d) + 1)..DefinedBefore(q, d + 1)
  <2>1. Len(q) + 1 \in 1..(Len(q) + 1) /\ Len(q) + 1 - 1 = Len(q)
    BY <1>1
  <2>2. QED
    BY <1>1, <1>2, <2>1, DefinerExists
<1>4. /\ d \in 0..Len(q) /\ 0 \in 0..Len(q) /\ 0 < d
      /\ d \in 1..(Len(q) + 1) /\ d + 1 \in 1..(Len(q) + 1)
  BY <1>1, <1>3
<1>5. PICK a : a = f[d]
  OBVIOUS
<1>6. a \in 1..Len(r) /\ Alike(q[d].operation, r[a].operation)
  <2>1. f[0] < f[d] /\ f[0] = 0 /\ f[d] \in Nat /\ f[d] <= Len(r)
    BY <1>1, <1>4, Places DEF Within
  <2>2. QED
    BY <1>1, <1>3, <1>5, <2>1 DEF Within
<1>7. a \in 1..(Len(r) + 1) /\ a + 1 \in 1..(Len(r) + 1)
  BY <1>1, <1>6
<1>8. /\ DefinedBefore(q, d) \in Nat /\ DefinedBefore(q, d + 1) \in Nat
      /\ DefinedBefore(r, a) \in Nat /\ DefinedBefore(r, a + 1) \in Nat
  BY <1>4, <1>7, SlotsFinite
<1>9. /\ DefinedBefore(q, d + 1) = DefinedBefore(q, d) + Defines(q[d].operation)
      /\ DefinedBefore(r, a + 1) = DefinedBefore(r, a) + Defines(r[a].operation)
      /\ Defines(q[d].operation) = Defines(r[a].operation)
  BY <1>3, <1>6, DefinedSteps, AlikeFacts
<1>10. Defines(q[d].operation) \in Nat
  BY <1>3, ProgramFacts, DefinesIsNatural
<1>11. PICK w : w = Carried(q, r, f, v)
  OBVIOUS
<1>12. w = DefinedBefore(r, a) + (v - DefinedBefore(q, d))
  BY <1>2, <1>5, <1>11 DEF Carried
<1>13. v \in Nat
  BY <1>3, <1>8
<1>14. w \in (DefinedBefore(r, a) + 1)..DefinedBefore(r, a + 1)
  <2>1. PICK x, y, n : /\ x = DefinedBefore(q, d) /\ y = DefinedBefore(r, a)
                       /\ n = Defines(q[d].operation)
    OBVIOUS
  <2>2. x \in Nat /\ y \in Nat /\ n \in Nat /\ v \in (x + 1)..(x + n) /\ w = y + (v - x)
    BY <1>3, <1>8, <1>9, <1>10, <1>12, <2>1
  <2>3. w \in (y + 1)..(y + n)
    BY <2>2, Shifted
  <2>4. QED
    BY <1>9, <2>1, <2>3
<1>15. DefinerOf(r, w) = a
  BY <1>6, <1>14, DefinerIs
<1>16. /\ w \in Nat \ {0} /\ w <= DefinedBefore(r, a + 1)
       /\ w - DefinedBefore(r, a) = v - DefinedBefore(q, d)
  BY <1>8, <1>12, <1>13, <1>14
<1>17. QED
  BY <1>2, <1>3, <1>5, <1>11, <1>15, <1>16 DEF Same

\* What the same variable has in common.
LEMMA SameFacts ==
  ASSUME NEW q \in Seq(Instruction), NEW r \in Seq(Instruction), NEW f, Within(q, r, f),
         NEW v \in 1..DefinedBefore(q, Len(q) + 1), NEW w, Same(q, r, f, v, w)
  PROVE  /\ TypeOf(r, w) = TypeOf(q, v)
         /\ IsNop(r[DefinerOf(r, w)].operation) <=> IsNop(q[DefinerOf(q, v)].operation)
         /\ HomeOf(q, v) \in 0..DefinerOf(q, v)
         /\ HomeOf(r, w) = f[HomeOf(q, v)]
<1>1. Len(q) \in Nat /\ Len(r) \in Nat
  BY ProgramFacts
<1>2. PICK d, a : d = DefinerOf(q, v) /\ a = DefinerOf(r, w)
  OBVIOUS
<1>3. /\ d \in 1..Len(q) /\ a = f[d] /\ w \in Nat \ {0}
      /\ w - DefinedBefore(r, a) = v - DefinedBefore(q, d)
  BY <1>2 DEF Same
<1>4. Alike(q[d].operation, r[a].operation) /\ f[0] = 0
  BY <1>3 DEF Within
<1>5. /\ d \in 0..Len(q) /\ d - 1 \in 0..Len(q) /\ 0 \in 0..Len(q) /\ 0 < d
      /\ d \in 1..(Len(q) + 1) /\ d \in Nat \ {0}
  BY <1>1, <1>3
<1>6. /\ f[d] \in Nat /\ f[d] <= Len(r) /\ f[d - 1] \in Nat /\ f[d - 1] < f[d]
      /\ a \in Nat \ {0} /\ a \in 1..Len(r)
  <2>1. f[d] \in Nat /\ f[d] <= Len(r) /\ f[d - 1] \in Nat /\ f[d - 1] < f[d]
    BY <1>1, <1>3, <1>5, Places DEF Within
  <2>2. QED
    BY <1>1, <1>3, <2>1
<1>7. TypeOf(r, w) = TypeOf(q, v)
  BY <1>2, <1>3, <1>4 DEF TypeOf, Alike
<1>8. IsNop(r[a].operation) <=> IsNop(q[d].operation)
  BY <1>4, AlikeFacts
<1>9. IsInner(r, w) <=> IsInner(q, v)
  <2>1. PICK n : n = Len(OutputVariables(q[d].operation))
    OBVIOUS
  <2>2. n = Len(OutputVariables(r[a].operation)) /\ n \in Nat
    BY <1>3, <1>4, <2>1, ProgramFacts, DefinesIsNatural DEF Alike
  <2>3. DefinedBefore(q, d) \in Nat /\ DefinedBefore(r, a) \in Nat /\ v \in Nat /\ w \in Nat
    <3>1. a \in 1..(Len(r) + 1)
      BY <1>1, <1>6
    <3>2. DefinedBefore(q, Len(q) + 1) \in Nat
      BY <1>1, SlotsFinite
    <3>3. QED
      BY <1>3, <1>5, <3>1, <3>2, SlotsFinite
  <2>4. w > DefinedBefore(r, a) + n <=> v > DefinedBefore(q, d) + n
    BY <1>3, <2>2, <2>3
  <2>5. QED
    BY <1>2, <2>1, <2>2, <2>4 DEF IsInner
<1>10. Enclosing(q, d) \in 0..d /\ Enclosing(r, a) = f[Enclosing(q, d)]
  <2>1. Covered(r, f[d], a)
    <3>1. Depth(r, a) \in Int /\ a \in a..Len(r)
      BY <1>6, DepthSteps
    <3>2. \A i \in a..a : i = a
      BY <1>6
    <3>3. QED
      BY <1>3, <3>1, <3>2 DEF Covered
  <2>2. QED
    BY <1>1, <1>3, <1>5, <2>1, WithinEnclosing
<1>11. Enclosing(q, d - 1) \in 0..(d - 1) /\ Enclosing(r, a - 1) = f[Enclosing(q, d - 1)]
  <2>1. Closed(r, f[d - 1], a)
    BY <1>3 DEF Within
  <2>2. a - 1 \in f[d - 1]..Len(r)
    BY <1>1, <1>3, <1>6
  <2>3. Covered(r, f[d - 1], a - 1) /\ Depth(r, a - 1) = Depth(r, f[d - 1])
    BY <2>1, <2>2 DEF Covered, Closed
  <2>4. QED
    BY <1>1, <1>5, <2>3, WithinEnclosing
<1>12. IsBlockBegin(r[a].operation) <=> IsBlockBegin(q[d].operation)
  BY <1>4, AlikeFacts
<1>13. HomeOf(q, v) \in 0..d /\ HomeOf(r, w) = f[HomeOf(q, v)]
  <2>1. /\ HomeOf(q, v) = (IF IsInner(q, v) THEN d
                           ELSE IF IsBlockBegin(q[d].operation) THEN Enclosing(q, d - 1)
                           ELSE Enclosing(q, d))
        /\ HomeOf(r, w) = (IF IsInner(r, w) THEN a
                           ELSE IF IsBlockBegin(r[a].operation) THEN Enclosing(r, a - 1)
                           ELSE Enclosing(r, a))
    BY <1>2 DEF HomeOf
  <2>2. d \in 0..d /\ \A x \in 0..(d - 1) : x \in 0..d
    BY <1>5
  <2>3. CASE IsInner(q, v)
    BY <1>3, <1>9, <2>1, <2>2, <2>3
  <2>4. CASE ~IsInner(q, v) /\ IsBlockBegin(q[d].operation)
    BY <1>9, <1>11, <1>12, <2>1, <2>2, <2>4
  <2>5. CASE ~IsInner(q, v) /\ ~IsBlockBegin(q[d].operation)
    BY <1>9, <1>10, <1>12, <2>1, <2>5
  <2>6. QED
    BY <2>3, <2>4, <2>5
<1>14. QED
  BY <1>2, <1>7, <1>8, <1>13

\* And it is visible where it was.
LEMMA SameVisible ==
  ASSUME NEW q \in Seq(Instruction), NEW r \in Seq(Instruction), NEW f, Within(q, r, f),
         NEW v \in 1..DefinedBefore(q, Len(q) + 1), NEW w, Same(q, r, f, v, w),
         NEW k \in 1..Len(q)
  PROVE  Visible(r, w, f[k]) <=> Visible(q, v, k)
<1>1. Len(q) \in Nat /\ Len(r) \in Nat
  BY ProgramFacts
<1>2. PICK d, a : d = DefinerOf(q, v) /\ a = DefinerOf(r, w)
  OBVIOUS
<1>3. /\ d \in 1..Len(q) /\ a = f[d] /\ w \in Nat \ {0}
      /\ w - DefinedBefore(r, a) = v - DefinedBefore(q, d)
      /\ w <= DefinedBefore(r, a + 1)
  BY <1>2 DEF Same
<1>4. /\ d \in 0..Len(q) /\ k \in 0..Len(q) /\ k - 1 \in 0..Len(q) /\ 0 \in 0..Len(q)
      /\ d \in 1..(Len(q) + 1) /\ d + 1 \in 1..(Len(q) + 1) /\ k \in 1..(Len(q) + 1)
      /\ 0 < d
  BY <1>1, <1>3
<1>5. f[k] \in 1..Len(r) /\ a \in 1..Len(r) /\ f[k - 1] \in Nat /\ f[k - 1] < f[k]
  BY <1>1, <1>3, PlaceFacts
<1>6. f[k] \in 1..(Len(r) + 1) /\ a \in 1..(Len(r) + 1) /\ a + 1 \in 1..(Len(r) + 1)
  BY <1>1, <1>5
<1>7. v \in (DefinedBefore(q, d) + 1)..DefinedBefore(q, d + 1)
  <2>1. Len(q) + 1 \in 1..(Len(q) + 1)
    BY <1>1
  <2>2. QED
    BY <1>1, <1>2, <2>1, DefinerExists
<1>8. /\ DefinedBefore(q, d) \in Nat /\ DefinedBefore(q, d + 1) \in Nat
      /\ DefinedBefore(q, k) \in Nat
      /\ DefinedBefore(r, a) \in Nat /\ DefinedBefore(r, a + 1) \in Nat
      /\ DefinedBefore(r, f[k]) \in Nat
  BY <1>4, <1>6, SlotsFinite
<1>9. v \in 1..DefinedBefore(q, k) <=> d < k
  <2>1. ASSUME d < k PROVE v \in 1..DefinedBefore(q, k)
    <3>1. d + 1 \in 1..k
      BY <1>3, <2>1
    <3>2. DefinedBefore(q, d + 1) <= DefinedBefore(q, k)
      BY <1>4, <3>1, DefinedGrows
    <3>3. QED
      BY <1>7, <1>8, <3>2
  <2>2. ASSUME ~(d < k) PROVE ~(v \in 1..DefinedBefore(q, k))
    <3>1. k \in 1..d
      BY <1>3, <2>2
    <3>2. DefinedBefore(q, k) <= DefinedBefore(q, d)
      BY <1>4, <3>1, DefinedGrows
    <3>3. QED
      BY <1>7, <1>8, <3>2
  <2>3. QED
    BY <2>1, <2>2
<1>10. w \in (DefinedBefore(r, a) + 1)..DefinedBefore(r, a + 1)
  <2>1. v > DefinedBefore(q, d)
    BY <1>7, <1>8
  <2>2. v \in Nat
    BY <1>7, <1>8
  <2>3. QED
    BY <1>3, <1>8, <2>1, <2>2
<1>11. w \in 1..DefinedBefore(r, f[k]) <=> a < f[k]
  <2>1. ASSUME a < f[k] PROVE w \in 1..DefinedBefore(r, f[k])
    <3>1. a + 1 \in 1..f[k]
      BY <1>5, <2>1
    <3>2. DefinedBefore(r, a + 1) <= DefinedBefore(r, f[k])
      BY <1>6, <3>1, DefinedGrows
    <3>3. QED
      BY <1>8, <1>10, <3>2
  <2>2. ASSUME ~(a < f[k]) PROVE ~(w \in 1..DefinedBefore(r, f[k]))
    <3>1. f[k] \in 1..a
      BY <1>5, <2>2
    <3>2. DefinedBefore(r, f[k]) <= DefinedBefore(r, a)
      BY <1>6, <3>1, DefinedGrows
    <3>3. QED
      BY <1>8, <1>10, <3>2
  <2>3. QED
    BY <2>1, <2>2
<1>12. a < f[k] <=> d < k
  <2>1. d < k \/ d = k \/ k < d
    BY <1>3
  <2>2. (d < k => f[d] < f[k]) /\ (k < d => f[k] < f[d])
    BY <1>1, <1>4, Places
  <2>3. QED
    BY <1>3, <1>5, <2>1, <2>2
<1>13. /\ IsNop(r[a].operation) <=> IsNop(q[d].operation)
       /\ HomeOf(q, v) \in 0..d
       /\ HomeOf(r, w) = f[HomeOf(q, v)]
  BY <1>2, SameFacts
<1>14. ASSUME d < k
       PROVE  (HomeOf(r, w) # 0 => StillOpen(r, HomeOf(r, w), f[k] - 1))
                <=> (HomeOf(q, v) # 0 => StillOpen(q, HomeOf(q, v), k - 1))
  <2>1. PICK h : h = HomeOf(q, v)
    OBVIOUS
  <2>2. f[0] = 0
    BY DEF Within
  <2>3. CASE h = 0
    BY <1>13, <2>1, <2>2, <2>3
  <2>4. CASE h # 0
    <3>1. h \in 1..(k - 1) /\ h \in 0..Len(q) /\ 0 < h
      BY <1>3, <1>13, <1>14, <2>1, <2>4
    <3>2. 0 < f[h] /\ f[h] \in Nat
      BY <1>1, <1>4, <2>2, <3>1, Places
    <3>3. Closed(r, f[k - 1], f[k])
      BY DEF Within
    <3>4. f[k] - 1 \in f[k - 1]..Len(r)
      BY <1>1, <1>5
    <3>5. Covered(r, f[k - 1], f[k] - 1)
      BY <3>3, <3>4 DEF Covered, Closed
    <3>6. StillOpen(r, f[h], f[k] - 1) <=> StillOpen(q, h, k - 1)
      <4>1. PICK m, e : m = k - 1 /\ e = f[k] - 1
        OBVIOUS
      <4>2. m \in 0..Len(q) /\ h \in 1..m /\ Covered(r, f[m], e)
        BY <1>4, <3>1, <3>5, <4>1
      <4>3. StillOpen(r, f[h], e) <=> StillOpen(q, h, m)
        BY <1>1, <4>2, WithinOpen
      <4>4. QED
        BY <4>1, <4>3
    <3>7. QED
      BY <1>13, <2>1, <2>4, <3>2, <3>6
  <2>5. QED
    BY <2>3, <2>4
<1>15. QED
  BY <1>2, <1>9, <1>11, <1>12, <1>13, <1>14 DEF Visible

\* The inputs of the k-th instruction of q are those it has at its place in r.
Rewired(q, r, f, k) ==
  /\ q[k].inputs \in Seq(Nat) /\ r[f[k]].inputs \in Seq(Nat)
  /\ Len(q[k].inputs) = Len(r[f[k]].inputs)
  /\ \A j \in 1..Len(q[k].inputs) :
       /\ q[k].inputs[j] \in 1..DefinedBefore(q, Len(q) + 1)
       /\ Same(q, r, f, q[k].inputs[j], r[f[k]].inputs[j])

\* An index within the context stays within it.
Indexed(op) ==
  /\ op.name = "LoadRole" => op.index < NumRoles
  /\ op.name = "LoadConnection" => op.index < NumConnections

\* Validity but for the index.
LEMMA WithinValid ==
  ASSUME NEW q \in Seq(Instruction), NEW r \in Seq(Instruction), NEW f, Within(q, r, f),
         NEW k \in 1..Len(q), Rewired(q, r, f, k),
         Indexed(q[k].operation) <=> Indexed(r[f[k]].operation)
  PROVE  ValidInstruction(q, k, NumRoles, NumConnections)
           <=> ValidInstruction(r, f[k], NumRoles, NumConnections)
<1>1. Len(q) \in Nat /\ Len(r) \in Nat
  BY ProgramFacts
<1>2. PICK a : a = f[k]
  OBVIOUS
<1>3. Alike(q[k].operation, r[a].operation) /\ Closed(r, f[k - 1], a)
  BY <1>2 DEF Within
<1>4. /\ f[k - 1] \in Nat /\ f[k - 1] < a /\ a \in Nat /\ a <= Len(r)
      /\ k - 1 \in 0..Len(q) /\ k \in 0..Len(q)
  <2>1. f[k] \in 1..Len(r) /\ f[k - 1] \in Nat /\ f[k - 1] < f[k]
    BY <1>1, PlaceFacts
  <2>2. QED
    BY <1>1, <1>2, <2>1
<1>5. Enclosing(q, k - 1) \in 0..(k - 1) /\ Enclosing(r, a - 1) = f[Enclosing(q, k - 1)]
  <2>1. a - 1 \in f[k - 1]..Len(r)
    BY <1>1, <1>4
  <2>2. Covered(r, f[k - 1], a - 1) /\ Depth(r, a - 1) = Depth(r, f[k - 1])
    BY <1>3, <2>1 DEF Covered, Closed
  <2>3. QED
    BY <1>1, <1>4, <2>2, WithinEnclosing
<1>6. Len(q[k].inputs) = Len(InputVariables(q[k].operation))
        <=> Len(r[a].inputs) = Len(InputVariables(r[a].operation))
  BY <1>2, <1>3 DEF Rewired, Alike
<1>7. DOMAIN q[k].inputs = 1..Len(q[k].inputs) /\ DOMAIN r[a].inputs = 1..Len(q[k].inputs)
  BY <1>2, LenProperties DEF Rewired
<1>8. ASSUME NEW j \in 1..Len(q[k].inputs)
      PROVE  /\ Visible(r, r[a].inputs[j], a) <=> Visible(q, q[k].inputs[j], k)
             /\ TypeOf(r, r[a].inputs[j]) = InputVariables(r[a].operation)[j]
                  <=> TypeOf(q, q[k].inputs[j]) = InputVariables(q[k].operation)[j]
  <2>1. PICK v, w : v = q[k].inputs[j] /\ w = r[a].inputs[j]
    OBVIOUS
  <2>2. v \in 1..DefinedBefore(q, Len(q) + 1) /\ Same(q, r, f, v, w)
    BY <1>2, <2>1 DEF Rewired
  <2>3. Visible(r, w, a) <=> Visible(q, v, k)
    BY <1>2, <2>2, SameVisible
  <2>4. TypeOf(r, w) = TypeOf(q, v)
    BY <2>2, SameFacts
  <2>5. InputVariables(r[a].operation) = InputVariables(q[k].operation)
    BY <1>3 DEF Alike
  <2>6. QED
    BY <2>1, <2>3, <2>4, <2>5
<1>9. IsBlockEnd(q[k].operation) <=> IsBlockEnd(r[a].operation)
  BY <1>3, AlikeFacts
<1>10. /\ Enclosing(q, k - 1) # 0 <=> Enclosing(r, a - 1) # 0
       /\ Enclosing(q, k - 1) # 0 =>
            (IsMatchingBlockBegin(q[k].operation, q[Enclosing(q, k - 1)].operation)
               <=> IsMatchingBlockBegin(r[a].operation, r[Enclosing(r, a - 1)].operation))
  <2>1. PICK e : e = Enclosing(q, k - 1)
    OBVIOUS
  <2>2. e \in 0..(k - 1) /\ Enclosing(r, a - 1) = f[e] /\ f[0] = 0
    BY <1>5, <2>1 DEF Within
  <2>3. CASE e = 0
    BY <2>1, <2>2, <2>3
  <2>4. CASE e # 0
    <3>1. e \in 1..Len(q) /\ e \in 0..Len(q) /\ 0 \in 0..Len(q) /\ 0 < e
      BY <1>1, <2>2, <2>4
    <3>2. f[e] # 0
      BY <1>1, <2>2, <3>1, Places
    <3>3. q[e].operation.name = r[f[e]].operation.name
      BY <3>1 DEF Within, Alike
    <3>4. q[k].operation.name = r[a].operation.name
      BY <1>3 DEF Alike
    <3>5. IsMatchingBlockBegin(q[k].operation, q[e].operation)
            <=> IsMatchingBlockBegin(r[a].operation, r[f[e]].operation)
      BY <3>3, <3>4 DEF IsMatchingBlockBegin
    <3>6. QED
      BY <2>1, <2>2, <2>4, <3>2, <3>5
  <2>5. QED
    BY <2>3, <2>4
<1>11. /\ ValidInstruction(q, k, NumRoles, NumConnections) <=>
            /\ Len(q[k].inputs) = Len(InputVariables(q[k].operation))
            /\ \A j \in 1..Len(q[k].inputs) :
                 /\ Visible(q, q[k].inputs[j], k)
                 /\ TypeOf(q, q[k].inputs[j]) = InputVariables(q[k].operation)[j]
            /\ Indexed(q[k].operation)
            /\ IsBlockEnd(q[k].operation) =>
                 /\ Enclosing(q, k - 1) # 0
                 /\ IsMatchingBlockBegin(q[k].operation, q[Enclosing(q, k - 1)].operation)
  BY <1>7 DEF ValidInstruction, Indexed
<1>12. /\ ValidInstruction(r, a, NumRoles, NumConnections) <=>
            /\ Len(r[a].inputs) = Len(InputVariables(r[a].operation))
            /\ \A j \in 1..Len(q[k].inputs) :
                 /\ Visible(r, r[a].inputs[j], a)
                 /\ TypeOf(r, r[a].inputs[j]) = InputVariables(r[a].operation)[j]
            /\ Indexed(r[a].operation)
            /\ IsBlockEnd(r[a].operation) =>
                 /\ Enclosing(r, a - 1) # 0
                 /\ IsMatchingBlockBegin(r[a].operation, r[Enclosing(r, a - 1)].operation)
  BY <1>7 DEF ValidInstruction, Indexed
<1>13. (\A j \in 1..Len(q[k].inputs) :
          /\ Visible(q, q[k].inputs[j], k)
          /\ TypeOf(q, q[k].inputs[j]) = InputVariables(q[k].operation)[j])
         <=> (\A j \in 1..Len(q[k].inputs) :
                /\ Visible(r, r[a].inputs[j], a)
                /\ TypeOf(r, r[a].inputs[j]) = InputVariables(r[a].operation)[j])
  BY <1>8
<1>14. Indexed(q[k].operation) <=> Indexed(r[a].operation)
  BY <1>2
<1>15. QED
  BY <1>2, <1>6, <1>9, <1>10, <1>11, <1>12, <1>13, <1>14

-----------------------------------------------------------------------------
(* Depths and variables of programs that agree on a stretch. *)

\* Whether the operations of c after a are those of t after b, for n instructions.
Agree(c, a, t, b, n) == \A i \in 1..n : Alike(c[a + i].operation, t[b + i].operation)

LEMMA DepthShift ==
  ASSUME NEW c, NEW t, NEW a \in Nat, NEW b \in Nat, NEW n \in Nat, Agree(c, a, t, b, n)
  PROVE  \A m \in 0..n : Depth(c, a + m) = Depth(c, a) + (Depth(t, b + m) - Depth(t, b))
<1> DEFINE S == {m \in Nat : m <= n =>
                   Depth(c, a + m) = Depth(c, a) + (Depth(t, b + m) - Depth(t, b))}
<1>1. \A i \in Nat : Depth(c, i) \in Int /\ Depth(t, i) \in Int
  BY DepthSteps
<1>2. 0 \in S
  <2>1. a + 0 = a /\ b + 0 = b /\ Depth(c, a) \in Int /\ Depth(t, b) \in Int
    BY <1>1
  <2>2. QED
    BY <2>1
<1>3. ASSUME NEW m \in Nat, m \in S PROVE m + 1 \in S
  <2>1. SUFFICES ASSUME m + 1 <= n
                 PROVE  Depth(c, a + (m + 1))
                          = Depth(c, a) + (Depth(t, b + (m + 1)) - Depth(t, b))
    OBVIOUS
  <2>2. Depth(c, a + m) = Depth(c, a) + (Depth(t, b + m) - Depth(t, b))
    BY <1>3, <2>1
  <2>3. PICK x, y : x = a + (m + 1) /\ y = b + (m + 1)
    OBVIOUS
  <2>4. /\ x \in Nat \ {0} /\ y \in Nat \ {0} /\ x - 1 = a + m /\ y - 1 = b + m
        /\ a + m \in Nat /\ b + m \in Nat /\ m + 1 \in 1..n
    BY <2>1, <2>3
  <2>5. Alike(c[x].operation, t[y].operation)
    BY <2>3, <2>4 DEF Agree
  <2>6. /\ IsBlockBegin(c[x].operation) <=> IsBlockBegin(t[y].operation)
        /\ IsBlockEnd(c[x].operation) <=> IsBlockEnd(t[y].operation)
    BY <2>5, AlikeFacts
  <2>7. /\ IsBlockBegin(c[x].operation) => Depth(c, x) = Depth(c, x - 1) + 1
        /\ IsBlockEnd(c[x].operation) => Depth(c, x) = Depth(c, x - 1) - 1
        /\ ~IsBlockBegin(c[x].operation) /\ ~IsBlockEnd(c[x].operation) =>
             Depth(c, x) = Depth(c, x - 1)
    BY <2>4, TextStep
  <2>8. /\ IsBlockBegin(t[y].operation) => Depth(t, y) = Depth(t, y - 1) + 1
        /\ IsBlockEnd(t[y].operation) => Depth(t, y) = Depth(t, y - 1) - 1
        /\ ~IsBlockBegin(t[y].operation) /\ ~IsBlockEnd(t[y].operation) =>
             Depth(t, y) = Depth(t, y - 1)
    BY <2>4, TextStep
  <2>9. PICK dc, dt, ec, et, fc, ft :
          /\ dc = Depth(c, a) /\ dt = Depth(t, b) /\ ec = Depth(c, x - 1)
          /\ et = Depth(t, y - 1) /\ fc = Depth(c, x) /\ ft = Depth(t, y)
    OBVIOUS
  <2>10. dc \in Int /\ dt \in Int /\ et \in Int /\ ec = dc + (et - dt)
    BY <1>1, <2>2, <2>4, <2>9
  <2>11. fc = dc + (ft - dt)
    <3>1. CASE IsBlockBegin(c[x].operation)
      <4>1. fc = ec + 1 /\ ft = et + 1
        BY <2>6, <2>7, <2>8, <2>9, <3>1
      <4>2. QED
        BY <2>10, <4>1
    <3>2. CASE IsBlockEnd(c[x].operation)
      <4>1. fc = ec - 1 /\ ft = et - 1
        BY <2>6, <2>7, <2>8, <2>9, <3>2
      <4>2. QED
        BY <2>10, <4>1
    <3>3. CASE ~IsBlockBegin(c[x].operation) /\ ~IsBlockEnd(c[x].operation)
      <4>1. fc = ec /\ ft = et
        BY <2>6, <2>7, <2>8, <2>9, <3>3
      <4>2. QED
        BY <2>10, <4>1
    <3>4. QED
      BY <3>1, <3>2, <3>3
  <2>12. QED
    BY <2>3, <2>9, <2>11
<1> HIDE DEF S
<1>4. Nat \subseteq S
  BY <1>2, <1>3, Induction
<1>5. QED
  BY <1>4 DEF S

\* As many blocks are opened in c after a as in t after b, by every step of n.
Deepening(c, a, t, b, n) ==
  \A m \in 0..n : Depth(c, a + m) = Depth(c, a) + (Depth(t, b + m) - Depth(t, b))

LEMMA DeepensAsMuch ==
  ASSUME NEW c, NEW t, NEW a \in Nat, NEW b \in Nat, NEW n \in Nat, Agree(c, a, t, b, n)
  PROVE  Deepening(c, a, t, b, n)
BY DepthShift DEF Deepening

\* As many variables are defined in c after a as in t after b, by every step of n.
Defining(c, a, t, b, n) ==
  \A m \in 0..n : DefinedBefore(c, a + m + 1)
    = DefinedBefore(c, a + 1) + (DefinedBefore(t, b + m + 1) - DefinedBefore(t, b + 1))

LEMMA DefinedShift ==
  ASSUME NEW c \in Seq(Instruction), NEW t \in Seq(Instruction),
         NEW a \in Nat, NEW b \in Nat, NEW n \in Nat, Agree(c, a, t, b, n),
         a + n <= Len(c), b + n <= Len(t)
  PROVE  \A m \in 0..n : DefinedBefore(c, a + m + 1)
           = DefinedBefore(c, a + 1) + (DefinedBefore(t, b + m + 1) - DefinedBefore(t, b + 1))
<1> DEFINE S == {m \in Nat : m <= n => DefinedBefore(c, a + m + 1)
             = DefinedBefore(c, a + 1) + (DefinedBefore(t, b + m + 1) - DefinedBefore(t, b + 1))}
<1>1. Len(c) \in Nat /\ Len(t) \in Nat
  BY ProgramFacts
<1>2. \A i \in 0..n : /\ DefinedBefore(c, a + i + 1) \in Nat
                      /\ DefinedBefore(t, b + i + 1) \in Nat
  <2>1. ASSUME NEW i \in 0..n PROVE a + i + 1 \in 1..(Len(c) + 1) /\ b + i + 1 \in 1..(Len(t) + 1)
    BY <1>1
  <2>2. QED
    BY <2>1, SlotsFinite
<1>3. 0 \in S
  <2>1. a + 0 + 1 = a + 1 /\ b + 0 + 1 = b + 1 /\ 0 \in 0..n
    OBVIOUS
  <2>2. DefinedBefore(c, a + 1) \in Nat /\ DefinedBefore(t, b + 1) \in Nat
    BY <1>2, <2>1
  <2>3. QED
    BY <2>1, <2>2
<1>4. ASSUME NEW m \in Nat, m \in S PROVE m + 1 \in S
  <2>1. SUFFICES ASSUME m + 1 <= n
                 PROVE  DefinedBefore(c, a + (m + 1) + 1) = DefinedBefore(c, a + 1)
                          + (DefinedBefore(t, b + (m + 1) + 1) - DefinedBefore(t, b + 1))
    OBVIOUS
  <2>2. DefinedBefore(c, a + m + 1)
          = DefinedBefore(c, a + 1) + (DefinedBefore(t, b + m + 1) - DefinedBefore(t, b + 1))
    BY <1>4, <2>1
  <2>3. PICK x, y : x = a + (m + 1) /\ y = b + (m + 1)
    OBVIOUS
  <2>4. /\ x \in 1..Len(c) /\ y \in 1..Len(t) /\ a + m + 1 = x /\ b + m + 1 = y
        /\ m \in 0..n /\ 0 \in 0..n /\ m + 1 \in 1..n /\ a + 0 + 1 = a + 1 /\ b + 0 + 1 = b + 1
    BY <1>1, <2>1, <2>3
  <2>5. Defines(c[x].operation) = Defines(t[y].operation) /\ Defines(t[y].operation) \in Nat
    BY <2>3, <2>4, AlikeFacts, DefinesIsNatural, ProgramFacts DEF Agree
  <2>6. /\ DefinedBefore(c, x + 1) = DefinedBefore(c, x) + Defines(c[x].operation)
        /\ DefinedBefore(t, y + 1) = DefinedBefore(t, y) + Defines(t[y].operation)
    BY <2>4, DefinedSteps
  <2>7. PICK dc, dt, ec, et, e :
          /\ dc = DefinedBefore(c, a + 1) /\ dt = DefinedBefore(t, b + 1)
          /\ ec = DefinedBefore(c, x) /\ et = DefinedBefore(t, y) /\ e = Defines(t[y].operation)
    OBVIOUS
  <2>8. dc \in Nat /\ dt \in Nat /\ et \in Nat /\ e \in Nat /\ ec = dc + (et - dt)
    BY <1>2, <2>2, <2>4, <2>5, <2>7
  <2>9. ec + e = dc + ((et + e) - dt)
    BY <2>8
  <2>10. QED
    BY <2>3, <2>5, <2>6, <2>7, <2>9
<1> HIDE DEF S
<1>5. Nat \subseteq S
  BY <1>3, <1>4, Induction
<1>6. QED
  BY <1>5 DEF S

-----------------------------------------------------------------------------
(* A program that another one begins with. *)

LEMMA DefinesAsMany ==
  ASSUME NEW c \in Seq(Instruction), NEW t \in Seq(Instruction),
         NEW a \in Nat, NEW b \in Nat, NEW n \in Nat, Agree(c, a, t, b, n),
         a + n <= Len(c), b + n <= Len(t)
  PROVE  Defining(c, a, t, b, n)
BY DefinedShift DEF Defining


Stay(n) == [k \in 0..n |-> k]

\* The instructions of q are the first of r, but for the data of their operations.
Opens(q, r) ==
  /\ q \in Seq(Instruction) /\ r \in Seq(Instruction)
  /\ Len(q) <= Len(r)
  /\ \A k \in 1..Len(q) : Alike(q[k].operation, r[k].operation)

LEMMA StayWithin ==
  ASSUME NEW q, NEW r, Opens(q, r)
  PROVE  Within(q, r, Stay(Len(q)))
<1>1. Len(q) \in Nat /\ Len(r) \in Nat /\ Len(q) <= Len(r)
  BY ProgramFacts DEF Opens
<1>2. PICK f : f = Stay(Len(q))
  OBVIOUS
<1>3. /\ f \in [0..Len(q) -> 0..Len(r)] /\ \A k \in 0..Len(q) : f[k] = k
  BY <1>1, <1>2 DEF Stay
<1>4. ASSUME NEW k \in 1..Len(q)
      PROVE  f[k - 1] < f[k] /\ Alike(q[k].operation, r[f[k]].operation)
               /\ Closed(r, f[k - 1], f[k])
  <2>1. k - 1 \in 0..Len(q) /\ k \in 0..Len(q) /\ k - 1 \in Nat
    BY <1>1
  <2>2. f[k - 1] = k - 1 /\ f[k] = k
    BY <1>3, <2>1
  <2>3. Depth(r, k - 1) \in Int
    BY <2>1, DepthSteps
  <2>4. \A j \in (k - 1)..(k - 1) : j = k - 1
    BY <2>1
  <2>5. Closed(r, k - 1, k)
    <3>1. Depth(r, k - 1) >= Depth(r, k - 1)
      BY <2>3
    <3>2. QED
      BY <2>4, <3>1 DEF Closed
  <2>6. Alike(q[k].operation, r[k].operation)
    BY DEF Opens
  <2>7. QED
    BY <2>1, <2>2, <2>5, <2>6
<1>5. f[0] = 0
  BY <1>1, <1>3
<1>6. QED
  BY <1>2, <1>3, <1>4, <1>5 DEF Within

LEMMA StayDefined ==
  ASSUME NEW q, NEW r, Opens(q, r), NEW k \in 1..(Len(q) + 1)
  PROVE  DefinedBefore(r, k) = DefinedBefore(q, k)
<1>1. Len(q) \in Nat /\ Len(r) \in Nat /\ q \in Seq(Instruction) /\ r \in Seq(Instruction)
  BY ProgramFacts DEF Opens
<1>2. Agree(q, 0, r, 0, Len(q))
  <2>1. ASSUME NEW i \in 1..Len(q) PROVE 0 + i = i
    BY <1>1
  <2>2. QED
    BY <2>1 DEF Agree, Opens
<1>3. 0 + Len(q) <= Len(q) /\ 0 + Len(q) <= Len(r)
  BY <1>1 DEF Opens
<1>4. PICK m : m = k - 1
  OBVIOUS
<1>5. m \in 0..Len(q) /\ 0 + m + 1 = k /\ 0 + 1 = 1
  BY <1>1, <1>4
<1>6. DefinedBefore(q, 0 + m + 1)
        = DefinedBefore(q, 0 + 1) + (DefinedBefore(r, 0 + m + 1) - DefinedBefore(r, 0 + 1))
  BY <1>1, <1>2, <1>3, <1>5, DefinedShift
<1>7. DefinedBefore(q, 1) = 0 /\ DefinedBefore(r, 1) = 0
  BY <1>1, DefinedSteps
<1>8. DefinedBefore(r, k) \in Nat
  <2>1. k \in 1..(Len(r) + 1)
    BY <1>1 DEF Opens
  <2>2. QED
    BY <1>1, <2>1, SlotsFinite
<1>9. QED
  BY <1>5, <1>6, <1>7, <1>8

LEMMA StaySame ==
  ASSUME NEW q, NEW r, Opens(q, r), NEW v \in 1..DefinedBefore(q, Len(q) + 1)
  PROVE  Same(q, r, Stay(Len(q)), v, v)
<1>1. Len(q) \in Nat /\ Len(r) \in Nat /\ q \in Seq(Instruction) /\ r \in Seq(Instruction)
  BY ProgramFacts DEF Opens
<1>2. PICK d : d = DefinerOf(q, v)
  OBVIOUS
<1>3. d \in 1..Len(q) /\ v \in (DefinedBefore(q, d) + 1)..DefinedBefore(q, d + 1)
  <2>1. Len(q) + 1 \in 1..(Len(q) + 1) /\ Len(q) + 1 - 1 = Len(q)
    BY <1>1
  <2>2. QED
    BY <1>1, <1>2, <2>1, DefinerExists
<1>4. d \in 1..(Len(q) + 1) /\ d \in 0..Len(q) /\ Len(q) + 1 \in 1..(Len(q) + 1)
  BY <1>1, <1>3
<1>5. DefinedBefore(r, d) = DefinedBefore(q, d) /\ DefinedBefore(q, d) \in Nat
  BY <1>1, <1>4, StayDefined, SlotsFinite
<1>6. v \in Nat /\ DefinedBefore(q, Len(q) + 1) \in Nat
  <2>1. DefinedBefore(q, Len(q) + 1) \in Nat
    BY <1>1, <1>4, SlotsFinite
  <2>2. QED
    BY <2>1
<1>7. Carried(q, r, Stay(Len(q)), v) = v
  <2>1. Stay(Len(q))[d] = d
    BY <1>4 DEF Stay
  <2>2. DefinedBefore(q, d) + (v - DefinedBefore(q, d)) = v
    BY <1>5, <1>6
  <2>3. QED
    BY <1>2, <1>5, <2>1, <2>2 DEF Carried
<1>8. Same(q, r, Stay(Len(q)), v, Carried(q, r, Stay(Len(q)), v))
  BY <1>1, StayWithin, CarriedIsSame
<1>9. QED
  BY <1>7, <1>8

\* What the text says of q it says of r.
LEMMA StayVisible ==
  ASSUME NEW q, NEW r, Opens(q, r), NEW k \in 1..Len(q),
         NEW v \in 1..DefinedBefore(q, Len(q) + 1)
  PROVE  /\ Visible(r, v, k) <=> Visible(q, v, k)
         /\ TypeOf(r, v) = TypeOf(q, v)
<1>1. q \in Seq(Instruction) /\ r \in Seq(Instruction) /\ Len(q) \in Nat
  BY ProgramFacts DEF Opens
<1>2. PICK f : f = Stay(Len(q))
  OBVIOUS
<1>3. Within(q, r, f) /\ Same(q, r, f, v, v) /\ f[k] = k
  <2>1. k \in 0..Len(q)
    OBVIOUS
  <2>2. QED
    BY <1>2, <2>1, StayWithin, StaySame DEF Stay
<1>4. Visible(r, v, f[k]) <=> Visible(q, v, k)
  BY <1>1, <1>3, SameVisible
<1>5. TypeOf(r, v) = TypeOf(q, v)
  BY <1>1, <1>3, SameFacts
<1>6. QED
  BY <1>3, <1>4, <1>5

\* An input of a valid instruction is a variable defined before.
LEMMA InputsDefined ==
  ASSUME NEW p \in Seq(Instruction), NEW k \in 1..Len(p),
         ValidInstruction(p, k, NumRoles, NumConnections), NEW j \in 1..Len(p[k].inputs)
  PROVE  /\ p[k].inputs[j] \in 1..DefinedBefore(p, k)
         /\ p[k].inputs[j] \in 1..DefinedBefore(p, Len(p) + 1)
         /\ Visible(p, p[k].inputs[j], k)
         /\ TypeOf(p, p[k].inputs[j]) = InputVariables(p[k].operation)[j]
<1>1. Len(p) \in Nat /\ p[k].inputs \in Seq(Nat)
  BY ProgramFacts
<1>2. j \in DOMAIN p[k].inputs
  BY <1>1, LenProperties
<1>3. /\ Visible(p, p[k].inputs[j], k)
      /\ TypeOf(p, p[k].inputs[j]) = InputVariables(p[k].operation)[j]
  BY <1>2 DEF ValidInstruction
<1>4. p[k].inputs[j] \in 1..DefinedBefore(p, k)
  BY <1>3 DEF Visible
<1>5. Len(p) + 1 \in 1..(Len(p) + 1) /\ k \in 1..(Len(p) + 1)
  BY <1>1
<1>6. DefinedBefore(p, k) <= DefinedBefore(p, Len(p) + 1)
  BY <1>5, DefinedGrows
<1>7. DefinedBefore(p, k) \in Nat /\ DefinedBefore(p, Len(p) + 1) \in Nat
  BY <1>5, SlotsFinite
<1>8. p[k].inputs[j] \in 1..DefinedBefore(p, Len(p) + 1)
  BY <1>4, <1>6, <1>7
<1>9. QED
  BY <1>3, <1>4, <1>8

\* An instruction that is the same in q and r, but for data within the context, stays valid.
LEMMA StayValid ==
  ASSUME NEW q, NEW r, Opens(q, r), NEW k \in 1..Len(q),
         q[k].inputs = r[k].inputs, Indexed(r[k].operation),
         ValidInstruction(q, k, NumRoles, NumConnections)
  PROVE  ValidInstruction(r, k, NumRoles, NumConnections)
<1>1. q \in Seq(Instruction) /\ r \in Seq(Instruction) /\ Len(q) \in Nat
  BY ProgramFacts DEF Opens
<1>2. PICK f : f = Stay(Len(q))
  OBVIOUS
<1>3. Within(q, r, f) /\ f[k] = k
  <2>1. k \in 0..Len(q)
    OBVIOUS
  <2>2. QED
    BY <1>2, <2>1, StayWithin DEF Stay
<1>4. q[k].inputs \in Seq(Nat)
  BY <1>1, ProgramFacts
<1>5. Rewired(q, r, f, k)
  <2>1. ASSUME NEW j \in 1..Len(q[k].inputs)
        PROVE  /\ q[k].inputs[j] \in 1..DefinedBefore(q, Len(q) + 1)
               /\ Same(q, r, f, q[k].inputs[j], r[k].inputs[j])
    <3>1. q[k].inputs[j] \in 1..DefinedBefore(q, Len(q) + 1)
      BY <1>1, InputsDefined
    <3>2. QED
      BY <1>2, <3>1, StaySame
  <2>2. QED
    BY <1>3, <1>4, <2>1 DEF Rewired
<1>6. Indexed(q[k].operation)
  BY DEF ValidInstruction, Indexed
<1>7. QED
  BY <1>1, <1>3, <1>5, <1>6, WithinValid

LEMMA StayEnclosing ==
  ASSUME NEW q, NEW r, Opens(q, r), NEW k \in 0..Len(q)
  PROVE  Enclosing(q, k) \in 0..k /\ Enclosing(r, k) = Enclosing(q, k)
<1>1. q \in Seq(Instruction) /\ r \in Seq(Instruction) /\ Len(q) \in Nat /\ Len(r) \in Nat
  BY ProgramFacts DEF Opens
<1>2. PICK f : f = Stay(Len(q))
  OBVIOUS
<1>3. Within(q, r, f) /\ \A i \in 0..Len(q) : f[i] = i
  BY <1>2, StayWithin DEF Stay
<1>4. Covered(r, f[k], k)
  <2>1. Depth(r, k) \in Int /\ k \in k..Len(r) /\ f[k] = k
    BY <1>1, <1>3, DepthSteps DEF Opens
  <2>2. \A i \in k..k : i = k
    OBVIOUS
  <2>3. QED
    BY <2>1, <2>2 DEF Covered
<1>5. Enclosing(q, k) \in 0..k /\ Enclosing(r, k) = f[Enclosing(q, k)]
  BY <1>1, <1>3, <1>4, WithinEnclosing
<1>6. Enclosing(q, k) \in 0..Len(q)
  BY <1>1, <1>5
<1>7. QED
  BY <1>3, <1>5, <1>6

-----------------------------------------------------------------------------
(* Candidates of the two mutators that change one instruction. *)

Valid(p) == p \in Seq(Instruction) /\ ValidProgram(p, NumRoles, NumConnections)

LEMMA ValidFacts ==
  ASSUME NEW p, Valid(p)
  PROVE  /\ p \in Seq(Instruction) /\ Len(p) \in Nat /\ DOMAIN p = 1..Len(p)
         /\ \A k \in 1..Len(p) : ValidInstruction(p, k, NumRoles, NumConnections)
         /\ Depth(p, Len(p)) = 0
  BY ProgramFacts DEF Valid, ValidProgram, ValidPrefix

LEMMA StaysValid ==
  ASSUME NEW q, Valid(q), NEW r, Opens(q, r), Len(r) = Len(q),
         \A k \in 1..Len(q) : ValidInstruction(r, k, NumRoles, NumConnections)
  PROVE  Valid(r)
<1>1. r \in Seq(Instruction) /\ Len(q) \in Nat /\ DOMAIN r = 1..Len(q)
  BY ProgramFacts DEF Opens, Valid
<1>2. Depth(r, Len(r)) = 0
  <2>1. PICK f : f = Stay(Len(q))
    OBVIOUS
  <2>2. Len(q) \in 0..Len(q)
    BY <1>1
  <2>3. f[Len(q)] = Len(q) /\ Within(q, r, f)
    BY <2>1, <2>2, StayWithin DEF Stay
  <2>4. Depth(r, f[Len(q)]) = Depth(q, Len(q))
    BY <1>1, <2>2, <2>3, WithinDepth
  <2>5. QED
    BY <2>3, <2>4, ValidFacts
<1>3. QED
  BY <1>1, <1>2 DEF Valid, ValidProgram, ValidPrefix

LEMMA AlikeItself == ASSUME NEW op PROVE Alike(op, op)
  BY DEF Alike

\* InputMutator: the replacement is in scope and of the type.
LEMMA RewiredIsValid ==
  ASSUME NEW p, Valid(p), NEW k \in 1..Len(p), NEW slot \in DOMAIN p[k].inputs,
         NEW v \in Replacements(p, k, p[k].inputs[slot])
  PROVE  Valid([p EXCEPT ![k].inputs[slot] = v])
<1>1. /\ p \in Seq(Instruction) /\ Len(p) \in Nat /\ DOMAIN p = 1..Len(p)
      /\ \A i \in 1..Len(p) : ValidInstruction(p, i, NumRoles, NumConnections)
  BY ValidFacts
<1>2. \A i \in 1..Len(p) : /\ p[i] \in Instruction /\ p[i].operation \in Operation
                           /\ p[i].inputs \in Seq(Nat)
  BY <1>1, ProgramFacts
<1>3. PICK in : in = p[k].inputs
  OBVIOUS
<1>4. in \in Seq(Nat) /\ DOMAIN in = 1..Len(in) /\ slot \in 1..Len(in) /\ Len(in) \in Nat
  BY <1>2, <1>3, LenProperties
<1>5. PICK b : b = Builders(p)[k - 1]
  OBVIOUS
<1>6. Reads(b, p, k - 1)
  <2>1. k - 1 \in 0..Len(p) /\ \A j \in 1..(k - 1) : j \in 1..Len(p)
    BY <1>1
  <2>2. QED
    BY <1>1, <1>5, <2>1, ReplayedAlways DEF Replayed
<1>7. v \in VisibleOfType(b, b.variables[in[slot]].var)
  BY <1>3, <1>5 DEF Replacements
<1>8. v \in Nat /\ in[slot] \in Nat
  <2>1. WellFormed(b, k - 1) /\ k - 1 \in Nat
    BY <1>1, <1>6 DEF Reads
  <2>2. DOMAIN b.variables = 1..Len(b.variables) /\ Len(b.variables) \in Nat
    BY <2>1, StackFacts
  <2>3. v \in 1..Len(b.variables)
    BY <1>7, <2>2 DEF VisibleOfType
  <2>4. in[slot] \in Nat
    BY <1>4, ElementOfSeq
  <2>5. QED
    BY <2>2, <2>3, <2>4
<1>9. Visible(p, v, k) /\ TypeOf(p, v) = TypeOf(p, in[slot])
  <2>1. Visible(p, in[slot], k)
    BY <1>1, <1>3, <1>4, InputsDefined
  <2>2. VisibleTo(b, in[slot]) /\ b.variables[in[slot]].var = TypeOf(p, in[slot])
    BY <1>1, <1>6, <1>8, <2>1, SeesVisible
  <2>3. VisibleTo(b, v) /\ b.variables[v].var = b.variables[in[slot]].var
    BY <1>7 DEF VisibleOfType
  <2>4. Visible(p, v, k) /\ b.variables[v].var = TypeOf(p, v)
    BY <1>1, <1>6, <1>8, <2>3, SeesVisible
  <2>5. QED
    BY <2>2, <2>3, <2>4
<1>10. PICK c, new : c = [p EXCEPT ![k].inputs[slot] = v] /\ new = [in EXCEPT ![slot] = v]
  OBVIOUS
<1>11. /\ new \in Seq(Nat) /\ Len(new) = Len(in) /\ DOMAIN new = 1..Len(in)
       /\ \A j \in 1..Len(in) : new[j] = IF j = slot THEN v ELSE in[j]
  BY <1>4, <1>8, <1>10, ExceptSeq
<1>12. c = [p EXCEPT ![k] = [p[k] EXCEPT !.inputs = new]]
  BY <1>3, <1>10, Zenon
<1>13. PICK ins : ins = [p[k] EXCEPT !.inputs = new]
  OBVIOUS
<1>14. ins \in Instruction /\ ins.inputs = new /\ ins.operation = p[k].operation
  BY <1>2, <1>11, <1>13 DEF Instruction
<1>15. /\ c \in Seq(Instruction) /\ Len(c) = Len(p)
       /\ \A i \in 1..Len(p) : c[i] = IF i = k THEN ins ELSE p[i]
  BY <1>1, <1>12, <1>13, <1>14, ExceptSeq
<1>16. Opens(p, c)
  <2>1. ASSUME NEW i \in 1..Len(p) PROVE Alike(p[i].operation, c[i].operation)
    <3>1. c[i].operation = p[i].operation
      BY <1>14, <1>15
    <3>2. QED
      BY <3>1, AlikeItself
  <2>2. QED
    BY <1>1, <1>15, <2>1 DEF Opens
<1>17. ASSUME NEW i \in 1..Len(p), i # k PROVE ValidInstruction(c, i, NumRoles, NumConnections)
  <2>1. c[i] = p[i]
    BY <1>15, <1>17
  <2>2. Indexed(p[i].operation)
    BY <1>1 DEF ValidInstruction, Indexed
  <2>3. QED
    BY <1>1, <1>16, <2>1, <2>2, StayValid
<1>18. ValidInstruction(c, k, NumRoles, NumConnections)
  <2>1. c[k].inputs = new /\ c[k].operation = p[k].operation
    BY <1>14, <1>15
  <2>2. ASSUME NEW j \in 1..Len(in)
        PROVE  /\ Visible(c, new[j], k)
               /\ TypeOf(c, new[j]) = InputVariables(p[k].operation)[j]
    <3>1. PICK w : w = new[j]
      OBVIOUS
    <3>2. /\ w \in 1..DefinedBefore(p, Len(p) + 1)
          /\ Visible(p, w, k) /\ TypeOf(p, w) = InputVariables(p[k].operation)[j]
      <4>1. CASE j # slot
        BY <1>1, <1>3, <1>11, <3>1, <4>1, InputsDefined
      <4>2. CASE j = slot
        <5>1. w = v
          BY <1>11, <3>1, <4>2
        <5>2. TypeOf(p, in[slot]) = InputVariables(p[k].operation)[j]
          BY <1>1, <1>3, <1>4, <4>2, InputsDefined
        <5>3. v \in 1..DefinedBefore(p, k)
          BY <1>9 DEF Visible
        <5>4. Len(p) + 1 \in 1..(Len(p) + 1) /\ k \in 1..(Len(p) + 1)
          BY <1>1
        <5>5. DefinedBefore(p, k) <= DefinedBefore(p, Len(p) + 1)
          BY <1>1, <5>4, DefinedGrows
        <5>6. DefinedBefore(p, k) \in Nat /\ DefinedBefore(p, Len(p) + 1) \in Nat
          BY <1>1, <5>4, SlotsFinite
        <5>7. v \in 1..DefinedBefore(p, Len(p) + 1)
          BY <5>3, <5>5, <5>6
        <5>8. QED
          BY <1>9, <5>1, <5>2, <5>7
      <4>3. QED
        BY <4>1, <4>2
    <3>3. (Visible(c, w, k) <=> Visible(p, w, k)) /\ TypeOf(c, w) = TypeOf(p, w)
      BY <1>16, <3>2, StayVisible
    <3>4. QED
      BY <3>1, <3>2, <3>3
  <2>3. k - 1 \in 0..Len(p)
    BY <1>1
  <2>4. PICK e : e = Enclosing(p, k - 1)
    OBVIOUS
  <2>5. Enclosing(c, k - 1) = e /\ e \in 0..(k - 1)
    BY <1>16, <2>3, <2>4, StayEnclosing
  <2>6. e # 0 => c[e].operation = p[e].operation
    <3>1. e # 0 => e \in 1..Len(p) /\ e # k
      BY <1>1, <2>5
    <3>2. QED
      BY <1>15, <3>1
  <2>7. Len(in) = Len(InputVariables(p[k].operation))
    BY <1>1, <1>3 DEF ValidInstruction
  <2>8. /\ Indexed(p[k].operation)
        /\ IsBlockEnd(p[k].operation) =>
             e # 0 /\ IsMatchingBlockBegin(p[k].operation, p[e].operation)
    BY <1>1, <2>4 DEF ValidInstruction, Indexed
  <2>9. QED
    BY <1>11, <2>1, <2>2, <2>5, <2>6, <2>7, <2>8 DEF ValidInstruction, Indexed
<1>19. Valid(c)
  BY <1>1, <1>15, <1>16, <1>17, <1>18, StaysValid
<1>20. QED
  BY <1>10, <1>19

\* What an operation is rewritten to has its shape, and an index within the context.
LEMMA RewritesAlike ==
  ASSUME NEW op \in Operation, NEW o \in Rewrites(op), Indexed(op)
  PROVE  o \in Operation /\ Alike(op, o) /\ Indexed(o)
<1>1. CASE op.name = "LoadRole"
  <2>1. PICK i \in OtherIndices(op.index, NumRoles) : o = LoadRole(i)
    BY <1>1 DEF Rewrites
  <2>2. i \in Nat /\ i < NumRoles
    BY <2>1, ContextAssumption DEF OtherIndices
  <2>3. o \in Operation
    BY <2>1, <2>2 DEF Operation, LoadRole
  <2>4. o.name = "LoadRole" /\ o.index = i
    BY <2>1 DEF LoadRole
  <2>5. QED
    BY <1>1, <2>2, <2>3, <2>4
       DEF Alike, Indexed, InputVariables, OutputVariables, InnerOutputVariables
<1>2. CASE op.name = "LoadConnection"
  <2>1. PICK i \in OtherIndices(op.index, NumConnections) : o = LoadConnection(i)
    BY <1>2 DEF Rewrites
  <2>2. i \in Nat /\ i < NumConnections
    BY <2>1, ContextAssumption DEF OtherIndices
  <2>3. o \in Operation
    BY <2>1, <2>2 DEF Operation, LoadConnection
  <2>4. o.name = "LoadConnection" /\ o.index = i
    BY <2>1 DEF LoadConnection
  <2>5. QED
    BY <1>2, <2>2, <2>3, <2>4
       DEF Alike, Indexed, InputVariables, OutputVariables, InnerOutputVariables
<1>3. CASE op.name = "LoadVersion"
  <2>1. PICK v \in Versions : o = LoadVersion(v)
    BY <1>3 DEF Rewrites
  <2>2. o \in Operation /\ o.name = "LoadVersion"
    BY <2>1 DEF Operation, LoadVersion
  <2>3. QED
    BY <1>3, <2>2 DEF Alike, Indexed, InputVariables, OutputVariables, InnerOutputVariables
<1>4. CASE op.name = "LoadFlags"
  <2>1. PICK f \in SUBSET Flags : o = LoadFlags(f)
    BY <1>4 DEF Rewrites
  <2>2. o \in Operation /\ o.name = "LoadFlags"
    BY <2>1 DEF Operation, LoadFlags
  <2>3. QED
    BY <1>4, <2>2 DEF Alike, Indexed, InputVariables, OutputVariables, InnerOutputVariables
<1>5. CASE op.name = "LoadStr"
  <2>1. PICK long \in BOOLEAN : o = LoadStr(long)
    BY <1>5 DEF Rewrites
  <2>2. o \in Operation /\ o.name = "LoadStr"
    BY <2>1 DEF Operation, LoadStr
  <2>3. QED
    BY <1>5, <2>2 DEF Alike, Indexed, InputVariables, OutputVariables, InnerOutputVariables
<1>6. CASE op.name \in {"LoadPort", "LoadBytes", "LoadDuration", "SendRawFrame"}
  <2>1. o = op
    BY <1>6 DEF Rewrites
  <2>2. QED
    BY <2>1, AlikeItself
<1>7. CASE op.name \notin {"LoadRole", "LoadConnection", "LoadVersion", "LoadFlags", "LoadStr",
                           "LoadPort", "LoadBytes", "LoadDuration", "SendRawFrame"}
  BY <1>7 DEF Rewrites
<1>8. QED
  BY <1>1, <1>2, <1>3, <1>4, <1>5, <1>6, <1>7

\* OperationMutator.
LEMMA RewrittenIsValid ==
  ASSUME NEW p, Valid(p), NEW k \in 1..Len(p), NEW o \in Rewrites(p[k].operation)
  PROVE  Valid([p EXCEPT ![k].operation = o])
<1>1. /\ p \in Seq(Instruction) /\ Len(p) \in Nat /\ DOMAIN p = 1..Len(p)
      /\ \A i \in 1..Len(p) : ValidInstruction(p, i, NumRoles, NumConnections)
  BY ValidFacts
<1>2. \A i \in 1..Len(p) : /\ p[i] \in Instruction /\ p[i].operation \in Operation
                           /\ p[i].inputs \in Seq(Nat)
  BY <1>1, ProgramFacts
<1>3. \A i \in 1..Len(p) : Indexed(p[i].operation)
  BY <1>1 DEF ValidInstruction, Indexed
<1>4. o \in Operation /\ Alike(p[k].operation, o) /\ Indexed(o)
  BY <1>2, <1>3, RewritesAlike
<1>5. PICK c, ins : /\ c = [p EXCEPT ![k].operation = o]
                    /\ ins = [p[k] EXCEPT !.operation = o]
  OBVIOUS
<1>6. c = [p EXCEPT ![k] = ins]
  BY <1>5, Zenon
<1>7. ins \in Instruction /\ ins.operation = o /\ ins.inputs = p[k].inputs
  BY <1>2, <1>4, <1>5 DEF Instruction
<1>8. /\ c \in Seq(Instruction) /\ Len(c) = Len(p)
      /\ \A i \in 1..Len(p) : c[i] = IF i = k THEN ins ELSE p[i]
  BY <1>1, <1>6, <1>7, ExceptSeq
<1>9. ASSUME NEW i \in 1..Len(p)
      PROVE  /\ Alike(p[i].operation, c[i].operation) /\ Indexed(c[i].operation)
             /\ p[i].inputs = c[i].inputs
  BY <1>3, <1>4, <1>7, <1>8, AlikeItself
<1>10. Opens(p, c)
  BY <1>1, <1>8, <1>9 DEF Opens
<1>11. \A i \in 1..Len(p) : ValidInstruction(c, i, NumRoles, NumConnections)
  BY <1>1, <1>9, <1>10, StayValid
<1>12. Valid(c)
  BY <1>8, <1>10, <1>11, StaysValid
<1>13. QED
  BY <1>5, <1>12

-----------------------------------------------------------------------------
(* Inserting code where no block is open. *)

LEMMA StayDepth ==
  ASSUME NEW q, NEW r, Opens(q, r), NEW k \in 0..Len(q)
  PROVE  Depth(r, k) = Depth(q, k)
<1>1. Len(q) \in Nat /\ Len(r) \in Nat
  BY ProgramFacts DEF Opens
<1>2. PICK f : f = Stay(Len(q))
  OBVIOUS
<1>3. Within(q, r, f) /\ f[k] = k
  BY <1>2, StayWithin DEF Stay
<1>4. QED
  BY <1>1, <1>3, WithinDepth

\* c is p with code inserted after its first n instructions.
Insertion(p, n, code, c) ==
  /\ c \in Seq(Instruction) /\ Len(c) = Len(p) + Len(code)
  /\ \A i \in 1..n : c[i] = p[i]
  /\ \A i \in 1..Len(code) : c[n + i] = code[i]
  /\ \A k \in (n + 1)..Len(p) :
       /\ c[k + Len(code)].operation = p[k].operation
       /\ Len(c[k + Len(code)].inputs) = Len(p[k].inputs)
       /\ \A j \in 1..Len(p[k].inputs) :
            c[k + Len(code)].inputs[j]
              = Moved(p[k].inputs[j], DefinedBefore(p, n + 1), VariableCount(code))

MovedInputs(s, before, added) == [j \in DOMAIN s |-> Moved(s[j], before, added)]

LEMMA MovedTyped ==
  ASSUME NEW s \in Seq(Nat), NEW b, NEW added \in Nat
  PROVE  /\ MovedInputs(s, b, added) \in Seq(Nat) /\ Len(MovedInputs(s, b, added)) = Len(s)
         /\ \A j \in 1..Len(s) : MovedInputs(s, b, added)[j] = Moved(s[j], b, added)
<1>1. Len(s) \in Nat /\ DOMAIN s = 1..Len(s)
  BY LenProperties
<1>2. ASSUME NEW j \in 1..Len(s) PROVE Moved(s[j], b, added) \in Nat
  <2>1. s[j] \in Nat
    BY ElementOfSeq
  <2>2. QED
    BY <2>1 DEF Moved
<1>3. PICK m : m = MovedInputs(s, b, added)
  OBVIOUS
<1>4. m \in [1..Len(s) -> Nat] /\ \A j \in 1..Len(s) : m[j] = Moved(s[j], b, added)
  BY <1>1, <1>2, <1>3 DEF MovedInputs
<1>5. m \in Seq(Nat)
  BY <1>1, <1>4, SeqDef
<1>6. QED
  BY <1>1, <1>3, <1>4, <1>5, LenProperties

LEMMA PrefixFacts ==
  ASSUME NEW p \in Seq(Instruction), NEW n \in 0..Len(p)
  PROVE  /\ SubSeq(p, 1, n) \in Seq(Instruction) /\ Len(SubSeq(p, 1, n)) = n
         /\ \A i \in 1..n : SubSeq(p, 1, n)[i] = p[i]
         /\ Opens(SubSeq(p, 1, n), p)
         /\ VariableCount(SubSeq(p, 1, n)) = DefinedBefore(p, n + 1)
<1>1. Len(p) \in Nat /\ n \in Nat
  BY ProgramFacts
<1>2. PICK pre : pre = SubSeq(p, 1, n)
  OBVIOUS
<1>3. pre \in Seq(Instruction) /\ Len(pre) = n /\ \A i \in 1..n : pre[i] = p[i]
  BY <1>1, <1>2, SubSeqProperties
<1>4. Opens(pre, p)
  BY <1>1, <1>3, AlikeItself DEF Opens
<1>5. DefinedBefore(p, n + 1) = DefinedBefore(pre, n + 1)
  <2>1. n + 1 \in 1..(Len(pre) + 1)
    BY <1>1, <1>3
  <2>2. QED
    BY <1>4, <2>1, StayDefined
<1>6. QED
  BY <1>2, <1>3, <1>4, <1>5 DEF VariableCount

LEMMA InsertedIs ==
  ASSUME NEW p \in Seq(Instruction), NEW n \in 0..Len(p), NEW code \in Seq(Instruction)
  PROVE  Insertion(p, n, code, Inserted(p, n, code))
<1>1. Len(p) \in Nat /\ Len(code) \in Nat /\ n \in Nat
  BY ProgramFacts
<1>2. PICK pre, rest, before, added, len :
        /\ pre = SubSeq(p, 1, n) /\ rest = SubSeq(p, n + 1, Len(p))
        /\ before = VariableCount(pre) /\ added = VariableCount(code) /\ len = Len(code)
  OBVIOUS
<1>3. /\ pre \in Seq(Instruction) /\ Len(pre) = n /\ \A i \in 1..n : pre[i] = p[i]
      /\ before = DefinedBefore(p, n + 1)
  BY <1>2, PrefixFacts
<1>4. /\ rest \in Seq(Instruction) /\ Len(rest) = Len(p) - n
      /\ \A i \in 1..(Len(p) - n) : rest[i] = p[n + i]
  <2>1. n + 1 \in 1..(Len(p) + 1) /\ Len(p) \in n..Len(p)
    BY <1>1
  <2>2. PICK a, b : a = n + 1 /\ b = Len(p)
    OBVIOUS
  <2>3. SubSeq(p, a, b) \in Seq(Instruction)
    BY <1>1, <2>1, <2>2, SubSeqProperties
  <2>4. Len(SubSeq(p, a, b)) = IF a <= b THEN b - a + 1 ELSE 0
    BY <1>1, <2>1, <2>2, SubSeqProperties
  <2>5. \A i \in 1..(b - a + 1) : SubSeq(p, a, b)[i] = p[a + i - 1]
    BY <1>1, <2>1, <2>2, SubSeqProperties
  <2>6. b - a + 1 = Len(p) - n /\ (~(a <= b) => Len(p) - n = 0)
    BY <1>1, <2>2
  <2>7. ASSUME NEW i \in 1..(Len(p) - n) PROVE rest[i] = p[n + i]
    <3>1. i \in 1..(b - a + 1) /\ a + i - 1 = n + i
      BY <1>1, <2>2
    <3>2. QED
      BY <1>2, <2>2, <2>5, <3>1
  <2>8. QED
    BY <1>2, <2>2, <2>3, <2>4, <2>6, <2>7
<1>5. Len(rest) \in Nat /\ DOMAIN rest = 1..Len(rest) /\ added \in Nat
  <2>1. len + 1 \in 1..(len + 1)
    BY <1>1, <1>2
  <2>2. QED
    BY <1>2, <1>4, <2>1, ProgramFacts, SlotsFinite DEF VariableCount
<1>6. PICK moved :
        moved = [k \in DOMAIN rest |->
                   [rest[k] EXCEPT !.inputs = [j \in DOMAIN @ |-> Moved(@[j], before, added)]]]
  OBVIOUS
<1>7. ASSUME NEW k \in 1..Len(rest)
      PROVE  /\ moved[k] \in Instruction
             /\ moved[k].operation = rest[k].operation
             /\ Len(moved[k].inputs) = Len(rest[k].inputs)
             /\ \A j \in 1..Len(rest[k].inputs) :
                  moved[k].inputs[j] = Moved(rest[k].inputs[j], before, added)
  <2>1. rest[k] \in Instruction /\ rest[k].inputs \in Seq(Nat)
    BY <1>4, ProgramFacts
  <2>2. PICK s, m : s = rest[k].inputs /\ m = MovedInputs(s, before, added)
    OBVIOUS
  <2>3. moved[k] = [rest[k] EXCEPT !.inputs = m]
    BY <1>5, <1>6, <2>2 DEF MovedInputs
  <2>4. /\ m \in Seq(Nat) /\ Len(m) = Len(s)
        /\ \A j \in 1..Len(s) : m[j] = Moved(s[j], before, added)
    BY <1>5, <2>1, <2>2, MovedTyped
  <2>5. /\ moved[k] \in Instruction /\ moved[k].operation = rest[k].operation
        /\ moved[k].inputs = m
    BY <2>1, <2>3, <2>4 DEF Instruction
  <2>6. QED
    BY <2>2, <2>4, <2>5
<1>8. moved \in Seq(Instruction) /\ Len(moved) = Len(rest)
  <2>1. moved \in [1..Len(rest) -> Instruction]
    BY <1>5, <1>6, <1>7
  <2>2. QED
    BY <1>5, <2>1, ListIsSequence
<1>9. PICK x, c : x = pre \o code /\ c = x \o moved
  OBVIOUS
<1>10. c = Inserted(p, n, code)
  BY <1>2, <1>6, <1>9 DEF Inserted
<1>11. /\ x \in Seq(Instruction) /\ Len(x) = n + len
       /\ \A i \in 1..n : x[i] = p[i]
       /\ \A i \in 1..len : x[n + i] = code[i]
  <2>1. /\ x \in Seq(Instruction) /\ Len(x) = Len(pre) + Len(code)
        /\ \A i \in 1..(Len(pre) + Len(code)) :
             x[i] = IF i <= Len(pre) THEN pre[i] ELSE code[i - Len(pre)]
    BY <1>3, <1>9, ConcatProperties
  <2>2. ASSUME NEW i \in 1..n PROVE x[i] = p[i]
    <3>1. i \in 1..(Len(pre) + Len(code)) /\ i <= Len(pre)
      BY <1>1, <1>3
    <3>2. QED
      BY <1>3, <2>1, <3>1
  <2>3. ASSUME NEW i \in 1..len PROVE x[n + i] = code[i]
    <3>1. n + i \in 1..(Len(pre) + Len(code)) /\ ~(n + i <= Len(pre)) /\ n + i - Len(pre) = i
      BY <1>1, <1>2, <1>3
    <3>2. QED
      BY <2>1, <3>1
  <2>4. QED
    BY <1>2, <1>3, <2>1, <2>2, <2>3
<1>12. /\ c \in Seq(Instruction) /\ Len(c) = (n + len) + (Len(p) - n)
       /\ \A i \in 1..(n + len) : c[i] = x[i]
       /\ \A i \in 1..(Len(p) - n) : c[n + len + i] = moved[i]
  <2>1. /\ c \in Seq(Instruction) /\ Len(c) = Len(x) + Len(moved)
        /\ \A i \in 1..(Len(x) + Len(moved)) :
             c[i] = IF i <= Len(x) THEN x[i] ELSE moved[i - Len(x)]
    BY <1>8, <1>9, <1>11, ConcatProperties
  <2>2. /\ Len(x) = n + len /\ Len(moved) = Len(p) - n
        /\ Len(x) \in Nat /\ Len(moved) \in Nat /\ len \in Nat
    BY <1>1, <1>2, <1>4, <1>8, <1>11
  <2>3. ASSUME NEW i \in 1..(n + len) PROVE c[i] = x[i]
    <3>1. i \in 1..(Len(x) + Len(moved)) /\ i <= Len(x)
      BY <2>2
    <3>2. QED
      BY <2>1, <3>1
  <2>4. ASSUME NEW i \in 1..(Len(p) - n) PROVE c[n + len + i] = moved[i]
    <3>1. PICK e : e = n + len + i
      OBVIOUS
    <3>2. e \in 1..(Len(x) + Len(moved)) /\ ~(e <= Len(x)) /\ e - Len(x) = i
      BY <1>1, <2>2, <3>1
    <3>3. c[e] = moved[e - Len(x)]
      BY <2>1, <3>2
    <3>4. QED
      BY <3>1, <3>2, <3>3
  <2>5. QED
    BY <2>1, <2>2, <2>3, <2>4
<1>13. Len(c) = Len(p) + len
  BY <1>1, <1>2, <1>12
<1>14. ASSUME NEW i \in 1..n PROVE c[i] = p[i]
  <2>1. i \in 1..(n + len)
    BY <1>1, <1>2
  <2>2. QED
    BY <1>11, <1>12, <2>1
<1>15. ASSUME NEW i \in 1..len PROVE c[n + i] = code[i]
  <2>1. n + i \in 1..(n + len)
    BY <1>1, <1>2
  <2>2. QED
    BY <1>11, <1>12, <2>1
<1>16. ASSUME NEW k \in (n + 1)..Len(p)
       PROVE  /\ c[k + len].operation = p[k].operation
              /\ Len(c[k + len].inputs) = Len(p[k].inputs)
              /\ \A j \in 1..Len(p[k].inputs) :
                   c[k + len].inputs[j] = Moved(p[k].inputs[j], before, added)
  <2>1. PICK i : i = k - n
    OBVIOUS
  <2>2. i \in 1..(Len(p) - n) /\ n + len + i = k + len /\ n + i = k /\ i \in 1..Len(rest)
    <3>1. k \in Nat /\ n + 1 <= k /\ k <= Len(p) /\ len \in Nat
      BY <1>1, <1>2
    <3>2. i \in 1..(Len(p) - n) /\ n + len + i = k + len /\ n + i = k
      BY <1>1, <2>1, <3>1
    <3>3. QED
      BY <1>4, <3>2
  <2>3. c[k + len] = moved[i] /\ rest[i] = p[k]
    BY <1>4, <1>12, <2>2
  <2>4. QED
    BY <1>7, <2>2, <2>3
<1>17. QED
  BY <1>2, <1>3, <1>10, <1>12, <1>13, <1>14, <1>15, <1>16 DEF Insertion

\* In a valid program no block ends that was not begun.
LEMMA DepthNotNegative ==
  ASSUME NEW p \in Seq(Instruction), NEW k \in 0..Len(p),
         \A j \in 1..k : ValidInstruction(p, j, NumRoles, NumConnections)
  PROVE  Depth(p, k) >= 0
<1>1. k \in Nat
  BY ProgramFacts
<1>2. PICK b : b = Builders(p)[k]
  OBVIOUS
<1>3. WellFormed(b, k) /\ TextScopes(b, p, k)
  BY <1>2, ReplayedAlways DEF Replayed, Reads
<1>4. Len(b.scopes) \in Nat /\ Len(b.scopes) >= 1 /\ Depth(p, k) = Len(b.scopes) - 1
  BY <1>1, <1>3, StackFacts DEF WellFormed, TextScopes
<1>5. QED
  BY <1>4

\* Nothing is between two neighbours.
LEMMA NothingBetween ==
  ASSUME NEW r, NEW k \in Nat, NEW e \in Nat, k = e - 1
  PROVE  Closed(r, k, e)
<1>1. Depth(r, k) \in Int
  BY DepthSteps
<1>2. \A j \in k..(e - 1) : j = k
  OBVIOUS
<1>3. Depth(r, k) >= Depth(r, k)
  BY <1>1
<1>4. QED
  BY <1>2, <1>3 DEF Closed

Place(n, len, m) == [k \in 0..m |-> IF k <= n THEN k ELSE k + len]

LEMMA InsertionWithin ==
  ASSUME NEW p \in Seq(Instruction), NEW n \in 0..Len(p), NEW code \in Seq(Instruction),
         NEW c, Insertion(p, n, code, c), Closed(c, n, n + Len(code) + 1)
  PROVE  Within(p, c, Place(n, Len(code), Len(p)))
<1>1. Len(p) \in Nat /\ Len(code) \in Nat /\ n \in Nat
  BY ProgramFacts
<1>2. PICK f, len : f = Place(n, Len(code), Len(p)) /\ len = Len(code)
  OBVIOUS
<1>3. /\ \A k \in 0..Len(p) : f[k] = IF k <= n THEN k ELSE k + len
      /\ f \in [0..Len(p) -> 0..Len(c)]
  <2>1. Len(c) = Len(p) + len
    BY <1>2 DEF Insertion
  <2>2. \A k \in 0..Len(p) : k \in 0..(Len(p) + len) /\ k + len \in 0..(Len(p) + len)
    BY <1>1, <1>2
  <2>3. QED
    BY <1>2, <2>1, <2>2 DEF Place
<1>4. f[0] = 0
  BY <1>1, <1>3
<1>5. ASSUME NEW k \in 1..Len(p)
      PROVE  /\ f[k - 1] < f[k]
             /\ Alike(p[k].operation, c[f[k]].operation)
             /\ Closed(c, f[k - 1], f[k])
  <2>1. k - 1 \in 0..Len(p) /\ k \in 0..Len(p) /\ k \in Nat /\ k - 1 \in Nat
    BY <1>1
  <2>2. CASE k <= n
    <3>1. f[k] = k /\ f[k - 1] = k - 1 /\ k \in 1..n
      BY <1>1, <1>3, <2>1, <2>2
    <3>2. c[k] = p[k]
      BY <3>1 DEF Insertion
    <3>3. Closed(c, k - 1, k)
      BY <2>1, NothingBetween
    <3>4. QED
      BY <2>1, <3>1, <3>2, <3>3, AlikeItself
  <2>3. CASE ~(k <= n)
    <3>1. f[k] = k + len /\ k \in (n + 1)..Len(p) /\ k + len \in Nat
      BY <1>1, <1>2, <1>3, <2>1, <2>3
    <3>2. c[k + len].operation = p[k].operation
      BY <1>2, <3>1 DEF Insertion
    <3>3. CASE k = n + 1
      <4>1. f[k - 1] = n /\ k + len = n + len + 1
        BY <1>1, <1>2, <1>3, <2>1, <3>3
      <4>2. Closed(c, f[k - 1], f[k])
        BY <1>2, <3>1, <4>1
      <4>3. f[k - 1] < f[k]
        BY <1>1, <1>2, <3>1, <4>1
      <4>4. QED
        BY <3>1, <3>2, <4>2, <4>3, AlikeItself
    <3>4. CASE k # n + 1
      <4>1. f[k - 1] = k - 1 + len /\ k - 1 + len = k + len - 1 /\ k + len - 1 \in Nat
        BY <1>1, <1>2, <1>3, <2>1, <2>3, <3>4
      <4>2. PICK e : e = k + len
        OBVIOUS
      <4>3. e \in Nat /\ e - 1 \in Nat
        <5>1. k \in Nat /\ len \in Nat /\ k >= 1
          BY <1>1, <1>2, <2>1
        <5>2. QED
          BY <4>2, <5>1
      <4>4. PICK h : h = e - 1
        OBVIOUS
      <4>5. Closed(c, h, e)
        BY <4>3, <4>4, NothingBetween
      <4>6. f[k - 1] = h /\ f[k] = e
        <5>1. k \in Nat /\ len \in Nat
          BY <1>1, <1>2, <2>1
        <5>2. k + len - 1 = h
          BY <4>2, <4>4, <5>1
        <5>3. QED
          BY <3>1, <4>1, <4>2, <5>2, Zenon
      <4>7. h < e
        BY <4>3, <4>4
      <4>8. QED
        BY <3>1, <3>2, <4>5, <4>6, <4>7, AlikeItself
    <3>5. QED
      BY <3>3, <3>4
  <2>4. QED
    BY <2>2, <2>3
<1>6. QED
  BY <1>2, <1>3, <1>4, <1>5 DEF Within

\* How many variables come before an instruction, once the code is in.
LEMMA InsertionDefined ==
  ASSUME NEW p \in Seq(Instruction), NEW n \in 0..Len(p), NEW code \in Seq(Instruction),
         NEW c, Insertion(p, n, code, c), NEW d \in 1..Len(p)
  PROVE  /\ d <= n => DefinedBefore(c, d) = DefinedBefore(p, d)
         /\ d > n => DefinedBefore(c, d + Len(code)) = DefinedBefore(p, d) + VariableCount(code)
         /\ VariableCount(code) \in Nat
<1>1. Len(p) \in Nat /\ Len(code) \in Nat /\ n \in Nat
  BY ProgramFacts
<1>2. PICK len : len = Len(code)
  OBVIOUS
<1>3. c \in Seq(Instruction) /\ Len(c) = Len(p) + len /\ len \in Nat
  BY <1>1, <1>2 DEF Insertion
<1>4. Agree(c, 0, p, 0, n)
  <2>1. ASSUME NEW i \in 1..n PROVE 0 + i = i
    BY <1>1
  <2>2. QED
    BY <2>1, AlikeItself DEF Agree, Insertion
<1>5. Agree(c, n, code, 0, len)
  <2>1. ASSUME NEW i \in 1..len PROVE 0 + i = i
    BY <1>3
  <2>2. QED
    BY <1>2, <2>1, AlikeItself DEF Agree, Insertion
<1>6. Agree(c, n + len, p, n, Len(p) - n)
  <2>1. ASSUME NEW i \in 1..(Len(p) - n) PROVE Alike(c[n + len + i].operation, p[n + i].operation)
    <3>1. PICK k : k = n + i
      OBVIOUS
    <3>2. k \in (n + 1)..Len(p) /\ n + len + i = k + len
      BY <1>1, <1>3, <3>1
    <3>3. c[k + len].operation = p[k].operation
      BY <1>2, <3>2 DEF Insertion
    <3>4. QED
      BY <3>1, <3>2, <3>3, AlikeItself
  <2>2. QED
    BY <2>1 DEF Agree
<1>7. /\ DefinedBefore(c, 1) = 0 /\ DefinedBefore(p, 1) = 0 /\ DefinedBefore(code, 1) = 0
  BY <1>3, DefinedSteps
<1>8. \A k \in 1..(Len(p) + 1) : DefinedBefore(p, k) \in Nat
  BY SlotsFinite
<1>9. \A m \in 0..n : DefinedBefore(c, m + 1) = DefinedBefore(p, m + 1)
  <2>1. 0 + n <= Len(c) /\ 0 + n <= Len(p)
    BY <1>1, <1>3
  <2>2. \A m \in 0..n : DefinedBefore(c, 0 + m + 1)
          = DefinedBefore(c, 0 + 1) + (DefinedBefore(p, 0 + m + 1) - DefinedBefore(p, 0 + 1))
    BY <1>1, <1>3, <1>4, <2>1, DefinedShift
  <2>3. ASSUME NEW m \in 0..n PROVE DefinedBefore(c, m + 1) = DefinedBefore(p, m + 1)
    <3>1. 0 + m + 1 = m + 1 /\ 0 + 1 = 1 /\ m + 1 \in 1..(Len(p) + 1)
      BY <1>1
    <3>2. DefinedBefore(c, m + 1) = 0 + (DefinedBefore(p, m + 1) - 0)
      BY <1>7, <2>2, <3>1
    <3>3. QED
      BY <1>8, <3>1, <3>2
  <2>4. QED
    BY <2>3
<1>10. VariableCount(code) = DefinedBefore(code, len + 1) /\ VariableCount(code) \in Nat
  <2>1. len + 1 \in 1..(Len(code) + 1)
    BY <1>2, <1>3
  <2>2. QED
    BY <1>2, <2>1, SlotsFinite DEF VariableCount
<1>11. DefinedBefore(c, n + len + 1) = DefinedBefore(p, n + 1) + VariableCount(code)
  <2>1. n + len <= Len(c) /\ 0 + len <= Len(code) /\ len \in 0..len /\ n \in 0..n
    BY <1>1, <1>2, <1>3
  <2>2. DefinedBefore(c, n + len + 1)
          = DefinedBefore(c, n + 1)
               + (DefinedBefore(code, 0 + len + 1) - DefinedBefore(code, 0 + 1))
    <3>1. \A m \in 0..len : DefinedBefore(c, n + m + 1)
            = DefinedBefore(c, n + 1)
                 + (DefinedBefore(code, 0 + m + 1) - DefinedBefore(code, 0 + 1))
      <4>1. 0 \in Nat
        OBVIOUS
      <4>2. Defining(c, n, code, 0, len)
        BY <1>1, <1>3, <1>5, <2>1, <4>1, DefinesAsMany
      <4>3. QED
        BY <4>2 DEF Defining
    <3>2. QED
      BY <2>1, <3>1
  <2>3. 0 + len + 1 = len + 1 /\ 0 + 1 = 1
    BY <1>3
  <2>4. DefinedBefore(c, n + 1) = DefinedBefore(p, n + 1)
    BY <1>9, <2>1
  <2>5. QED
    BY <1>7, <1>10, <2>2, <2>3, <2>4
<1>12. ASSUME d <= n PROVE DefinedBefore(c, d) = DefinedBefore(p, d)
  <2>1. d - 1 \in 0..n /\ d - 1 + 1 = d
    BY <1>1, <1>12
  <2>2. QED
    BY <1>9, <2>1
<1>13. ASSUME d > n
       PROVE  DefinedBefore(c, d + len) = DefinedBefore(p, d) + VariableCount(code)
  <2>1. PICK m, size, a : m = d - 1 - n /\ size = Len(p) - n /\ a = n + len
    OBVIOUS
  <2>2. /\ m \in 0..size /\ size \in Nat /\ a \in Nat /\ a + size <= Len(c)
        /\ n + size <= Len(p) /\ a + m + 1 = d + len /\ n + m + 1 = d
    BY <1>1, <1>3, <1>13, <2>1
  <2>3. DefinedBefore(c, a + m + 1)
          = DefinedBefore(c, a + 1) + (DefinedBefore(p, n + m + 1) - DefinedBefore(p, n + 1))
    <3>1. Agree(c, a, p, n, size)
      BY <1>6, <2>1
    <3>2. \A i \in 0..size : DefinedBefore(c, a + i + 1)
            = DefinedBefore(c, a + 1) + (DefinedBefore(p, n + i + 1) - DefinedBefore(p, n + 1))
      <4>1. Defining(c, a, p, n, size)
        BY <1>1, <1>3, <2>2, <3>1, DefinesAsMany
      <4>2. QED
        BY <4>1 DEF Defining
    <3>3. QED
      BY <2>2, <3>2
  <2>4. DefinedBefore(c, a + 1) = DefinedBefore(p, n + 1) + VariableCount(code)
    BY <1>11, <2>1
  <2>5. n + 1 \in 1..(Len(p) + 1) /\ d \in 1..(Len(p) + 1)
    BY <1>1
  <2>6. DefinedBefore(p, d) \in Nat /\ DefinedBefore(p, n + 1) \in Nat
    BY <1>8, <2>5
  <2>7. DefinedBefore(c, d + len) = (DefinedBefore(p, n + 1) + VariableCount(code))
                                      + (DefinedBefore(p, d) - DefinedBefore(p, n + 1))
    BY <2>2, <2>3, <2>4
  <2>8. PICK x, y, z : x = DefinedBefore(p, n + 1) /\ y = DefinedBefore(p, d)
                         /\ z = VariableCount(code)
    OBVIOUS
  <2>9. (x + z) + (y - x) = y + z
    BY <1>10, <2>6, <2>8
  <2>10. QED
    BY <2>7, <2>8, <2>9
<1>14. QED
  BY <1>2, <1>10, <1>12, <1>13

LEMMA InsertionSame ==
  ASSUME NEW p \in Seq(Instruction), NEW n \in 0..Len(p), NEW code \in Seq(Instruction),
         NEW c, Insertion(p, n, code, c), Closed(c, n, n + Len(code) + 1),
         NEW v \in 1..DefinedBefore(p, Len(p) + 1)
  PROVE  Same(p, c, Place(n, Len(code), Len(p)), v,
              Moved(v, DefinedBefore(p, n + 1), VariableCount(code)))
<1>1. Len(p) \in Nat /\ Len(code) \in Nat /\ n \in Nat /\ c \in Seq(Instruction)
  BY ProgramFacts DEF Insertion
<1>2. PICK f, len, d : /\ f = Place(n, Len(code), Len(p)) /\ len = Len(code)
                       /\ d = DefinerOf(p, v)
  OBVIOUS
<1>3. d \in 1..Len(p) /\ v \in (DefinedBefore(p, d) + 1)..DefinedBefore(p, d + 1)
  <2>1. Len(p) + 1 \in 1..(Len(p) + 1) /\ Len(p) + 1 - 1 = Len(p)
    BY <1>1
  <2>2. QED
    BY <1>1, <1>2, <2>1, DefinerExists
<1>4. /\ d \in 0..Len(p) /\ d \in 1..(Len(p) + 1) /\ d + 1 \in 1..(Len(p) + 1)
      /\ n + 1 \in 1..(Len(p) + 1)
  BY <1>1, <1>3
<1>5. PICK x, y, z, a : /\ x = DefinedBefore(p, d) /\ y = DefinedBefore(p, d + 1)
                        /\ z = DefinedBefore(p, n + 1) /\ a = VariableCount(code)
  OBVIOUS
<1>6. x \in Nat /\ y \in Nat /\ z \in Nat /\ v \in Nat /\ a \in Nat /\ x < v /\ v <= y
  <2>1. x \in Nat /\ y \in Nat /\ z \in Nat
    BY <1>4, <1>5, SlotsFinite
  <2>2. a \in Nat
    BY <1>3, <1>5, InsertionDefined
  <2>3. QED
    BY <1>3, <1>5, <2>1, <2>2
<1>7. Carried(p, c, f, v) = Moved(v, z, a)
  <2>1. CASE d <= n
    <3>1. f[d] = d
      BY <1>2, <1>4, <2>1 DEF Place
    <3>2. DefinedBefore(c, d) = x
      BY <1>3, <1>5, <2>1, InsertionDefined
    <3>3. y <= z
      <4>1. d + 1 \in 1..(n + 1)
        BY <1>1, <1>3, <2>1
      <4>2. QED
        BY <1>4, <1>5, <4>1, DefinedGrows
    <3>4. Moved(v, z, a) = v /\ x + (v - x) = v
      BY <1>6, <3>3 DEF Moved
    <3>5. QED
      BY <1>2, <1>5, <3>1, <3>2, <3>4 DEF Carried
  <2>2. CASE d > n
    <3>1. f[d] = d + len
      BY <1>1, <1>2, <1>3, <1>4, <2>2 DEF Place
    <3>2. DefinedBefore(c, d + len) = x + a
      BY <1>2, <1>3, <1>5, <2>2, InsertionDefined
    <3>3. z <= x
      <4>1. n + 1 \in 1..d
        BY <1>1, <1>3, <2>2
      <4>2. QED
        BY <1>4, <1>5, <4>1, DefinedGrows
    <3>4. Moved(v, z, a) = v + a /\ (x + a) + (v - x) = v + a
      BY <1>6, <3>3 DEF Moved
    <3>5. QED
      BY <1>2, <1>5, <3>1, <3>2, <3>4 DEF Carried
  <2>3. QED
    BY <1>1, <1>3, <2>1, <2>2
<1>8. Within(p, c, f)
  BY <1>2, InsertionWithin
<1>9. Same(p, c, f, v, Carried(p, c, f, v))
  BY <1>1, <1>8, CarriedIsSame
<1>10. QED
  BY <1>2, <1>5, <1>7, <1>9

\* p is found in c: its k-th instruction at f[k], using the same variables.
Placed(p, c, f) ==
  /\ Within(p, c, f)
  /\ \A k \in 1..Len(p) : Rewired(p, c, f, k) /\ c[f[k]].operation = p[k].operation

\* Code that is closed in itself, and valid after the first n instructions of p, may be
\* inserted there.
LEMMA InsertionIsValid ==
  ASSUME NEW p, Valid(p), NEW n \in 0..Len(p), Depth(p, n) = 0, NEW code \in Seq(Instruction),
         NEW c, Insertion(p, n, code, c),
         NEW x \in Seq(Instruction), Len(x) = n + Len(code), \A i \in 1..Len(x) : c[i] = x[i],
         \A i \in 1..Len(x) : ValidInstruction(x, i, NumRoles, NumConnections),
         Depth(x, Len(x)) = 0
  PROVE  Valid(c) /\ Placed(p, c, Place(n, Len(code), Len(p)))
<1>1. /\ p \in Seq(Instruction) /\ Len(p) \in Nat /\ DOMAIN p = 1..Len(p)
      /\ \A k \in 1..Len(p) : ValidInstruction(p, k, NumRoles, NumConnections)
      /\ Depth(p, Len(p)) = 0 /\ n \in Nat /\ Len(code) \in Nat
  BY ValidFacts, ProgramFacts
<1>2. PICK f, len : f = Place(n, Len(code), Len(p)) /\ len = Len(code)
  OBVIOUS
<1>3. /\ c \in Seq(Instruction) /\ Len(c) = Len(p) + len /\ len \in Nat /\ Len(x) = n + len
      /\ DOMAIN c = 1..Len(c)
  BY <1>1, <1>2, ProgramFacts DEF Insertion
<1>4. Opens(x, c)
  <2>1. Len(x) <= Len(c)
    BY <1>1, <1>3
  <2>2. QED
    BY <1>3, <2>1, AlikeItself DEF Opens
<1>5. \A j \in 0..(n + len) : Depth(c, j) = Depth(x, j) /\ Depth(x, j) >= 0 /\ Depth(c, j) \in Int
  <2>1. ASSUME NEW j \in 0..(n + len)
        PROVE  Depth(c, j) = Depth(x, j) /\ Depth(x, j) >= 0 /\ Depth(c, j) \in Int
    <3>1. j \in 0..Len(x) /\ j \in Nat
      BY <1>1, <1>3
    <3>2. \A i \in 1..j : i \in 1..Len(x)
      BY <1>1, <1>3
    <3>3. Depth(x, j) >= 0
      BY <3>1, <3>2, DepthNotNegative
    <3>4. QED
      BY <1>4, <3>1, <3>3, StayDepth, DepthSteps
  <2>2. QED
    BY <2>1
<1>6. Depth(c, n) = 0 /\ Depth(c, n + len) = 0
  <2>1. Agree(c, 0, p, 0, n)
    <3>1. ASSUME NEW i \in 1..n PROVE 0 + i = i
      BY <1>1
    <3>2. QED
      BY <3>1, AlikeItself DEF Agree, Insertion
  <2>2. 0 \in Nat /\ n \in 0..n /\ 0 + n = n /\ n + len \in 0..(n + len)
    BY <1>1, <1>3
  <2>3. Depth(c, 0 + n) = Depth(c, 0) + (Depth(p, 0 + n) - Depth(p, 0))
    <3>1. Deepening(c, 0, p, 0, n)
      BY <1>1, <2>1, <2>2, DeepensAsMuch
    <3>2. QED
      BY <2>2, <3>1 DEF Deepening
  <2>4. Depth(c, 0) = 0 /\ Depth(p, 0) = 0
    BY DepthSteps
  <2>5. Depth(c, n) = 0
    BY <2>2, <2>3, <2>4
  <2>6. Depth(x, n + len) = 0
    BY <1>3
  <2>7. QED
    BY <1>5, <2>2, <2>5, <2>6
<1>7. Closed(c, n, n + Len(code) + 1)
  <2>1. PICK e : e = n + Len(code) + 1
    OBVIOUS
  <2>2. e - 1 = n + len /\ \A j \in n..(e - 1) : j \in 0..(n + len)
    BY <1>1, <1>2, <2>1
  <2>3. ASSUME NEW j \in n..(e - 1) PROVE Depth(c, j) >= Depth(c, n)
    <3>1. j \in 0..(n + len)
      BY <2>2
    <3>2. QED
      BY <1>5, <1>6, <3>1
  <2>4. QED
    BY <1>6, <2>1, <2>2, <2>3 DEF Closed
<1>8. Within(p, c, f)
  BY <1>1, <1>2, <1>7, InsertionWithin
<1>9. \A k \in 0..Len(p) : f[k] = IF k <= n THEN k ELSE k + len
  BY <1>2 DEF Place
<1>10. ASSUME NEW k \in 1..Len(p)
       PROVE  Rewired(p, c, f, k) /\ c[f[k]].operation = p[k].operation
  <2>1. PICK in, out : in = p[k].inputs /\ out = c[f[k]].inputs
    OBVIOUS
  <2>2. PICK before, added : before = DefinedBefore(p, n + 1) /\ added = VariableCount(code)
    OBVIOUS
  <2>3. in \in Seq(Nat) /\ k \in 0..Len(p)
    BY <1>1, <2>1, ProgramFacts
  <2>4. f[k] \in 1..Len(c)
    <3>1. k \in 1..(Len(p) + len) /\ k + len \in 1..(Len(p) + len)
      BY <1>1, <1>3
    <3>2. QED
      BY <1>3, <1>9, <2>3, <3>1
  <2>5. out \in Seq(Nat)
    BY <1>3, <2>1, <2>4, ProgramFacts
  <2>6. ASSUME NEW j \in 1..Len(in)
        PROVE  /\ in[j] \in 1..DefinedBefore(p, Len(p) + 1)
               /\ Same(p, c, f, in[j], Moved(in[j], before, added))
    <3>1. in[j] \in 1..DefinedBefore(p, Len(p) + 1)
      BY <1>1, <2>1, InputsDefined
    <3>2. QED
      BY <1>1, <1>2, <1>7, <2>2, <3>1, InsertionSame
  <2>7. CASE k <= n
    <3>1. f[k] = k /\ c[k] = p[k]
      BY <1>1, <1>9, <2>3, <2>7 DEF Insertion
    <3>2. ASSUME NEW j \in 1..Len(in) PROVE Moved(in[j], before, added) = in[j]
      <4>1. Visible(p, in[j], k)
        BY <1>1, <2>1, InputsDefined
      <4>2. in[j] \in 1..DefinedBefore(p, k)
        BY <4>1 DEF Visible
      <4>3. k \in 1..(n + 1) /\ n + 1 \in 1..(Len(p) + 1) /\ k \in 1..(Len(p) + 1)
        BY <1>1, <2>7
      <4>4. DefinedBefore(p, k) <= before /\ DefinedBefore(p, k) \in Nat /\ before \in Nat
        BY <1>1, <2>2, <4>3, DefinedGrows, SlotsFinite
      <4>5. ~(in[j] > before)
        BY <4>2, <4>4
      <4>6. QED
        BY <4>5 DEF Moved
    <3>3. out = in
      BY <2>1, <3>1
    <3>4. QED
      BY <2>1, <2>3, <2>5, <2>6, <3>1, <3>2, <3>3 DEF Rewired
  <2>8. CASE ~(k <= n)
    <3>1. f[k] = k + len /\ k \in (n + 1)..Len(p)
      BY <1>1, <1>9, <2>3, <2>8
    <3>2. /\ c[f[k]].operation = p[k].operation /\ Len(out) = Len(in)
          /\ \A j \in 1..Len(in) : out[j] = Moved(in[j], before, added)
      BY <1>2, <2>1, <2>2, <3>1 DEF Insertion
    <3>3. QED
      BY <2>1, <2>3, <2>5, <2>6, <3>2 DEF Rewired
  <2>9. QED
    BY <2>7, <2>8
<1>11. ASSUME NEW i \in 1..Len(c) PROVE ValidInstruction(c, i, NumRoles, NumConnections)
  <2>1. CASE i <= n + len
    <3>1. i \in 1..Len(x)
      BY <1>3, <2>1
    <3>2. Indexed(c[i].operation) /\ x[i].inputs = c[i].inputs
      BY <3>1 DEF ValidInstruction, Indexed
    <3>3. QED
      BY <1>4, <3>1, <3>2, StayValid
  <2>2. CASE ~(i <= n + len)
    <3>1. PICK k : k = i - len
      OBVIOUS
    <3>2. k \in 1..Len(p) /\ k \in 0..Len(p) /\ ~(k <= n) /\ k + len = i
      BY <1>1, <1>3, <2>2, <3>1
    <3>3. f[k] = i
      BY <1>9, <3>2
    <3>4. Rewired(p, c, f, k) /\ c[f[k]].operation = p[k].operation
      BY <1>10, <3>2
    <3>5. QED
      <4>1. Indexed(p[k].operation) <=> Indexed(c[f[k]].operation)
        BY <3>4
      <4>2. ValidInstruction(p, k, NumRoles, NumConnections)
        BY <1>1, <3>2
      <4>3. ValidInstruction(c, f[k], NumRoles, NumConnections)
        BY <1>1, <1>3, <1>8, <3>2, <3>4, <4>1, <4>2, WithinValid
      <4>4. QED
        BY <3>3, <4>3
  <2>3. QED
    BY <2>1, <2>2
<1>12. Depth(c, Len(c)) = 0
  <2>1. CASE n = Len(p)
    BY <1>3, <1>6, <2>1
  <2>2. CASE n # Len(p)
    <3>1. f[Len(p)] = Len(c) /\ Len(p) \in 0..Len(p)
      <4>1. Len(p) \in 0..Len(p) /\ ~(Len(p) <= n)
        <5>1. Len(p) \in Nat /\ n \in Nat /\ n <= Len(p)
          BY <1>1
        <5>2. QED
          BY <2>2, <5>1
      <4>2. f[Len(p)] = Len(p) + len
        BY <1>9, <4>1
      <4>3. QED
        BY <1>3, <4>1, <4>2
    <3>2. Depth(c, f[Len(p)]) = Depth(p, Len(p))
      BY <1>1, <1>3, <1>8, <3>1, WithinDepth
    <3>3. QED
      BY <1>1, <3>1, <3>2
  <2>3. QED
    BY <2>1, <2>2
<1>13. QED
  BY <1>2, <1>3, <1>8, <1>10, <1>11, <1>12 DEF Valid, ValidProgram, ValidPrefix, Placed

\* IrGenerator: a fragment the builder accepts after the prefix, closed in itself, inserted where
\* no block is open.
LEMMA GeneratedIsValid ==
  ASSUME NEW p, Valid(p), NEW n \in Points(p), NEW code \in Seq(Instruction),
         Depth(code, Len(code)) = 0, FromPrefix(SubSeq(p, 1, n) \o code).accepted
  PROVE  /\ Valid(Inserted(p, n, code))
         /\ Placed(p, Inserted(p, n, code), Place(n, Len(code), Len(p)))
<1>1. /\ p \in Seq(Instruction) /\ Len(p) \in Nat /\ n \in 0..Len(p) /\ n \in Nat
      /\ Depth(p, n) = 0 /\ Len(code) \in Nat
  BY ValidFacts, ProgramFacts DEF Points
<1>2. PICK pre, c : pre = SubSeq(p, 1, n) /\ c = Inserted(p, n, code)
  OBVIOUS
<1>3. Insertion(p, n, code, c)
  BY <1>1, <1>2, InsertedIs
<1>4. pre \in Seq(Instruction) /\ Len(pre) = n /\ \A i \in 1..n : pre[i] = p[i]
  BY <1>1, <1>2, PrefixFacts
<1>5. PICK x, len : x = pre \o code /\ len = Len(code)
  OBVIOUS
<1>6. /\ x \in Seq(Instruction) /\ Len(x) = n + len
      /\ \A i \in 1..(n + len) : x[i] = IF i <= n THEN pre[i] ELSE code[i - n]
  <2>1. /\ x \in Seq(Instruction) /\ Len(x) = Len(pre) + Len(code)
        /\ \A i \in 1..(Len(pre) + Len(code)) :
             x[i] = IF i <= Len(pre) THEN pre[i] ELSE code[i - Len(pre)]
    BY <1>4, <1>5, ConcatProperties
  <2>2. QED
    BY <1>4, <1>5, <2>1
<1>7. ASSUME NEW i \in 1..(n + len) PROVE c[i] = x[i]
  <2>1. CASE i <= n
    <3>1. i \in 1..n
      BY <1>1, <2>1
    <3>2. QED
      BY <1>3, <1>4, <1>6, <2>1, <3>1 DEF Insertion
  <2>2. CASE ~(i <= n)
    <3>1. PICK m : m = i - n
      OBVIOUS
    <3>2. m \in 1..len /\ n + m = i
      BY <1>1, <1>5, <2>2, <3>1
    <3>3. c[n + m] = code[m]
      BY <1>3, <1>5, <3>2 DEF Insertion
    <3>4. x[i] = code[m]
      BY <1>6, <2>2, <3>1
    <3>5. QED
      BY <3>2, <3>3, <3>4
  <2>3. QED
    BY <2>1, <2>2
<1>8. \A i \in 1..Len(x) : ValidInstruction(x, i, NumRoles, NumConnections)
  <2>1. Len(x) \in 0..Len(x)
    BY <1>6, ProgramFacts
  <2>2. Builders(x)[Len(x)].accepted
    BY <1>2, <1>5 DEF FromPrefix
  <2>3. QED
    BY <1>6, <2>1, <2>2, ReplayedAlways DEF Replayed
<1>9. Depth(x, Len(x)) = 0
  <2>1. Agree(x, 0, p, 0, n) /\ Agree(x, n, code, 0, len)
    <3>1. ASSUME NEW i \in 1..n PROVE Alike(x[0 + i].operation, p[0 + i].operation)
      <4>1. 0 + i = i /\ i \in 1..(n + len) /\ i <= n
        BY <1>1, <1>5
      <4>2. x[i] = p[i]
        BY <1>4, <1>6, <4>1
      <4>3. QED
        BY <4>1, <4>2, AlikeItself
    <3>2. ASSUME NEW i \in 1..len PROVE Alike(x[n + i].operation, code[0 + i].operation)
      <4>1. PICK e : e = n + i
        OBVIOUS
      <4>2. 0 + i = i /\ e \in 1..(n + len) /\ ~(e <= n) /\ e - n = i
        BY <1>1, <1>5, <4>1
      <4>3. x[e] = code[i]
        BY <1>6, <4>2
      <4>4. QED
        BY <4>1, <4>2, <4>3, AlikeItself
    <3>3. QED
      BY <3>1, <3>2 DEF Agree
  <2>2. 0 \in Nat /\ n \in 0..n /\ len \in 0..len /\ 0 + n = n /\ 0 + len = len /\ len \in Nat
    BY <1>1, <1>5
  <2>3. Deepening(x, 0, p, 0, n) /\ Deepening(x, n, code, 0, len)
    BY <1>1, <2>1, <2>2, DeepensAsMuch
  <2>4. Depth(x, 0 + n) = Depth(x, 0) + (Depth(p, 0 + n) - Depth(p, 0))
    BY <2>2, <2>3 DEF Deepening
  <2>5. Depth(x, n + len) = Depth(x, n) + (Depth(code, 0 + len) - Depth(code, 0))
    BY <2>2, <2>3 DEF Deepening
  <2>6. Depth(x, 0) = 0 /\ Depth(p, 0) = 0 /\ Depth(code, 0) = 0
    BY DepthSteps
  <2>7. Depth(x, n) = 0
    BY <1>1, <2>2, <2>4, <2>6
  <2>8. Depth(code, len) = 0
    BY <1>5
  <2>9. QED
    BY <1>6, <2>2, <2>5, <2>6, <2>7, <2>8
<1>10. Len(x) = n + Len(code) /\ \A i \in 1..Len(x) : c[i] = x[i]
  BY <1>5, <1>6, <1>7
<1>11. Valid(c) /\ Placed(p, c, Place(n, Len(code), Len(p)))
  BY <1>1, <1>3, <1>6, <1>8, <1>9, <1>10, InsertionIsValid
<1>12. QED
  BY <1>2, <1>11

\* The opening of a program is found in it where it stands.
LEMMA OpeningPlaced ==
  ASSUME NEW p, Valid(p), NEW c, Opens(p, c), \A k \in 1..Len(p) : c[k] = p[k]
  PROVE  Placed(p, c, Stay(Len(p)))
<1>1. /\ p \in Seq(Instruction) /\ Len(p) \in Nat /\ DOMAIN p = 1..Len(p)
      /\ \A k \in 1..Len(p) : ValidInstruction(p, k, NumRoles, NumConnections)
  BY ValidFacts
<1>2. PICK f : f = Stay(Len(p))
  OBVIOUS
<1>3. Within(p, c, f)
  BY <1>2, StayWithin
<1>4. ASSUME NEW k \in 1..Len(p)
      PROVE  Rewired(p, c, f, k) /\ c[f[k]].operation = p[k].operation
  <2>1. k \in 0..Len(p)
    OBVIOUS
  <2>2. f[k] = k /\ c[k] = p[k]
    BY <1>2, <2>1 DEF Stay
  <2>3. p[k].inputs \in Seq(Nat)
    BY <1>1, ProgramFacts
  <2>4. ASSUME NEW j \in 1..Len(p[k].inputs)
        PROVE  /\ p[k].inputs[j] \in 1..DefinedBefore(p, Len(p) + 1)
               /\ Same(p, c, f, p[k].inputs[j], p[k].inputs[j])
    <3>1. p[k].inputs[j] \in 1..DefinedBefore(p, Len(p) + 1)
      BY <1>1, InputsDefined
    <3>2. QED
      BY <1>2, <3>1, StaySame
  <2>5. QED
    BY <2>2, <2>3, <2>4 DEF Rewired
<1>5. QED
  BY <1>2, <1>3, <1>4 DEF Placed

\* ConcatMutator: appending a program inserts the one it is appended to before it.
LEMMA SplicedIs ==
  ASSUME NEW p \in Seq(Instruction), NEW other, Valid(other)
  PROVE  Insertion(other, 0, p, Spliced(p, other))
<1>1. /\ other \in Seq(Instruction) /\ Len(other) \in Nat /\ DOMAIN other = 1..Len(other)
      /\ \A k \in 1..Len(other) : ValidInstruction(other, k, NumRoles, NumConnections)
      /\ Len(p) \in Nat
  BY ValidFacts, ProgramFacts
<1>2. PICK added, before, len :
        added = VariableCount(p) /\ before = DefinedBefore(other, 0 + 1) /\ len = Len(p)
  OBVIOUS
<1>3. added \in Nat /\ before = 0
  <2>1. Len(p) + 1 \in 1..(Len(p) + 1) /\ 0 + 1 = 1
    BY <1>1
  <2>2. QED
    BY <1>1, <1>2, <2>1, SlotsFinite, DefinedSteps DEF VariableCount
<1>4. PICK moved :
        moved = [k \in DOMAIN other |->
                   [other[k] EXCEPT !.inputs = [j \in DOMAIN @ |-> @[j] + added]]]
  OBVIOUS
<1>5. ASSUME NEW k \in 1..Len(other)
      PROVE  /\ moved[k] \in Instruction
             /\ moved[k].operation = other[k].operation
             /\ Len(moved[k].inputs) = Len(other[k].inputs)
             /\ \A j \in 1..Len(other[k].inputs) :
                  moved[k].inputs[j] = Moved(other[k].inputs[j], before, added)
  <2>1. other[k] \in Instruction /\ other[k].inputs \in Seq(Nat)
    BY <1>1, ProgramFacts
  <2>2. PICK s, m, u : /\ s = other[k].inputs /\ m = [j \in DOMAIN s |-> s[j] + added]
                       /\ u = MovedInputs(s, before, added)
    OBVIOUS
  <2>3. moved[k] = [other[k] EXCEPT !.inputs = m]
    BY <1>1, <1>4, <2>2
  <2>4. s \in Seq(Nat) /\ DOMAIN s = 1..Len(s)
    BY <2>1, <2>2, LenProperties
  <2>5. ASSUME NEW j \in 1..Len(s) PROVE Moved(s[j], before, added) = s[j] + added
    <3>1. s[j] \in 1..DefinedBefore(other, k)
      BY <1>1, <2>2, InputsDefined
    <3>2. s[j] > before
      BY <1>3, <3>1
    <3>3. QED
      BY <3>2 DEF Moved
  <2>6. m = u
    BY <2>2, <2>4, <2>5 DEF MovedInputs
  <2>7. /\ m \in Seq(Nat) /\ Len(m) = Len(s)
        /\ \A j \in 1..Len(s) : m[j] = Moved(s[j], before, added)
    <3>1. before \in Nat
      BY <1>3
    <3>2. QED
      <4>1. /\ u \in Seq(Nat) /\ Len(u) = Len(s)
            /\ \A j \in 1..Len(s) : u[j] = Moved(s[j], before, added)
        BY <1>3, <2>2, <2>4, <3>1, MovedTyped
      <4>2. QED
        BY <2>6, <4>1
  <2>8. /\ moved[k] \in Instruction /\ moved[k].operation = other[k].operation
        /\ moved[k].inputs = m
    BY <2>1, <2>3, <2>7 DEF Instruction
  <2>9. QED
    BY <2>2, <2>7, <2>8
<1>6. moved \in Seq(Instruction) /\ Len(moved) = Len(other)
  <2>1. moved \in [1..Len(other) -> Instruction]
    BY <1>1, <1>4, <1>5
  <2>2. QED
    BY <1>1, <2>1, ListIsSequence
<1>7. PICK c : c = p \o moved
  OBVIOUS
<1>8. c = Spliced(p, other)
  BY <1>2, <1>4, <1>7 DEF Spliced
<1>9. /\ c \in Seq(Instruction) /\ Len(c) = len + Len(other)
      /\ \A i \in 1..(len + Len(other)) : c[i] = IF i <= len THEN p[i] ELSE moved[i - len]
  <2>1. Joined(Instruction, c, p, len, moved, Len(other))
    BY <1>2, <1>6, <1>7, ConcatIs
  <2>2. QED
    BY <2>1 DEF Joined
<1>10. Len(c) = Len(other) + len
  BY <1>1, <1>2, <1>9
<1>11. ASSUME NEW i \in 1..len PROVE c[0 + i] = p[i]
  <2>1. i \in 1..(len + Len(other)) /\ i <= len /\ 0 + i = i
    BY <1>1, <1>2
  <2>2. QED
    BY <1>9, <2>1
<1>12. ASSUME NEW k \in (0 + 1)..Len(other)
       PROVE  /\ c[k + len].operation = other[k].operation
              /\ Len(c[k + len].inputs) = Len(other[k].inputs)
              /\ \A j \in 1..Len(other[k].inputs) :
                   c[k + len].inputs[j] = Moved(other[k].inputs[j], before, added)
  <2>1. PICK e : e = k + len
    OBVIOUS
  <2>2. e \in 1..(len + Len(other)) /\ ~(e <= len) /\ e - len = k /\ k \in 1..Len(other)
    <3>1. 0 + 1 = 1 /\ len \in Nat /\ Len(other) \in Nat
      BY <1>1, <1>2
    <3>2. k \in Nat /\ 1 <= k /\ k <= Len(other)
      BY <3>1
    <3>3. QED
      BY <2>1, <3>1, <3>2
  <2>3. c[e] = moved[k]
    BY <1>9, <2>2
  <2>4. QED
    BY <1>5, <2>1, <2>2, <2>3
<1>13. \A i \in 1..0 : c[i] = other[i]
  OBVIOUS
<1>14. QED
  BY <1>2, <1>8, <1>9, <1>10, <1>11, <1>12, <1>13 DEF Insertion

LEMMA SplicedIsValid ==
  ASSUME NEW p, Valid(p), NEW other, Valid(other)
  PROVE  /\ Valid(Spliced(p, other))
         /\ Placed(p, Spliced(p, other), Stay(Len(p)))
         /\ Placed(other, Spliced(p, other), Place(0, Len(p), Len(other)))
<1>1. /\ p \in Seq(Instruction) /\ Len(p) \in Nat /\ Depth(p, Len(p)) = 0
      /\ \A k \in 1..Len(p) : ValidInstruction(p, k, NumRoles, NumConnections)
      /\ other \in Seq(Instruction) /\ Len(other) \in Nat
  BY ValidFacts
<1>2. PICK c : c = Spliced(p, other)
  OBVIOUS
<1>3. Insertion(other, 0, p, c)
  BY <1>1, <1>2, SplicedIs
<1>4. 0 \in 0..Len(other) /\ Depth(other, 0) = 0 /\ Len(p) = 0 + Len(p)
  BY <1>1, DepthSteps
<1>5. \A i \in 1..Len(p) : c[i] = p[i]
  <2>1. \A i \in 1..Len(p) : 0 + i = i
    BY <1>1
  <2>2. QED
    BY <1>3, <2>1 DEF Insertion
<1>6. Valid(c) /\ Placed(other, c, Place(0, Len(p), Len(other)))
  BY <1>1, <1>3, <1>4, <1>5, InsertionIsValid
<1>7. Opens(p, c)
  <2>1. c \in Seq(Instruction) /\ Len(p) <= Len(c)
    BY <1>1, <1>3 DEF Insertion
  <2>2. QED
    BY <1>1, <1>5, <2>1, AlikeItself DEF Opens
<1>8. Placed(p, c, Stay(Len(p)))
  BY <1>5, <1>7, OpeningPlaced
<1>9. QED
  BY <1>2, <1>6, <1>8

-----------------------------------------------------------------------------
(* The code of a fragment is closed in itself. *)

\* Code that opens d blocks more than it closes.
Net(code, d) == code \in Seq(Instruction) /\ Depth(code, Len(code)) = d

Starts(s) == {j \in 1..Len(s) : IsBlockBegin(s[j].operation)}
Stops(s)  == {j \in 1..Len(s) : IsBlockEnd(s[j].operation)}

LEMMA DepthAtEnd ==
  ASSUME NEW s, NEW b, NEW e, b = Cardinality(Starts(s)), e = Cardinality(Stops(s))
  PROVE  Depth(s, Len(s)) = b - e
  BY Zenon DEF Depth, Starts, Stops

LEMMA NetFlat ==
  ASSUME NEW s \in Seq(Instruction),
         \A k \in 1..Len(s) : ~IsBlockBegin(s[k].operation) /\ ~IsBlockEnd(s[k].operation)
  PROVE  Net(s, 0)
<1>1. Starts(s) = {} /\ Stops(s) = {}
  BY DEF Starts, Stops
<1>2. 0 = Cardinality(Starts(s)) /\ 0 = Cardinality(Stops(s))
  BY <1>1, FS_EmptySet
<1>3. Depth(s, Len(s)) = 0 - 0
  BY <1>2, DepthAtEnd
<1>4. QED
  BY <1>3 DEF Net

LEMMA NetOpening ==
  ASSUME NEW s \in Seq(Instruction), NEW m \in 1..Len(s), IsBlockBegin(s[m].operation),
         \A k \in 1..Len(s) : ~IsBlockEnd(s[k].operation),
         \A k \in 1..Len(s) : k # m => ~IsBlockBegin(s[k].operation)
  PROVE  Net(s, 1)
<1>1. Starts(s) = {m} /\ Stops(s) = {}
  BY DEF Starts, Stops
<1>2. 1 = Cardinality(Starts(s)) /\ 0 = Cardinality(Stops(s))
  BY <1>1, FS_EmptySet, FS_Singleton
<1>3. Depth(s, Len(s)) = 1 - 0
  BY <1>2, DepthAtEnd
<1>4. QED
  BY <1>3 DEF Net

LEMMA NetClosing ==
  ASSUME NEW s \in Seq(Instruction), NEW m \in 1..Len(s), IsBlockEnd(s[m].operation),
         \A k \in 1..Len(s) : ~IsBlockBegin(s[k].operation),
         \A k \in 1..Len(s) : k # m => ~IsBlockEnd(s[k].operation)
  PROVE  Net(s, -1)
<1>1. Starts(s) = {} /\ Stops(s) = {m}
  BY DEF Starts, Stops
<1>2. 0 = Cardinality(Starts(s)) /\ 1 = Cardinality(Stops(s))
  BY <1>1, FS_EmptySet, FS_Singleton
<1>3. Depth(s, Len(s)) = 0 - 1
  BY <1>2, DepthAtEnd
<1>4. QED
  BY <1>3 DEF Net

LEMMA NetConcat ==
  ASSUME NEW s, NEW t, NEW d \in Int, NEW e \in Int, Net(s, d), Net(t, e)
  PROVE  Net(s \o t, d + e)
<1>1. s \in Seq(Instruction) /\ t \in Seq(Instruction) /\ Len(s) \in Nat /\ Len(t) \in Nat
  BY ProgramFacts DEF Net
<1>2. PICK x, m, n : x = s \o t /\ m = Len(s) /\ n = Len(t)
  OBVIOUS
<1>3. /\ x \in Seq(Instruction) /\ Len(x) = Len(s) + Len(t)
      /\ \A i \in 1..(Len(s) + Len(t)) : x[i] = IF i <= Len(s) THEN s[i] ELSE t[i - Len(s)]
  BY <1>1, <1>2, ConcatProperties
<1>4. /\ m \in Nat /\ n \in Nat /\ Len(x) = m + n
      /\ \A i \in 1..(m + n) : x[i] = IF i <= m THEN s[i] ELSE t[i - m]
  BY <1>1, <1>2, <1>3
<1>5. Agree(x, 0, s, 0, m) /\ Agree(x, m, t, 0, n)
  <2>1. ASSUME NEW i \in 1..m PROVE Alike(x[0 + i].operation, s[0 + i].operation)
    <3>1. 0 + i = i /\ i \in 1..(m + n) /\ i <= m
      BY <1>4
    <3>2. x[i] = s[i]
      BY <1>4, <3>1
    <3>3. QED
      BY <3>1, <3>2, AlikeItself
  <2>2. ASSUME NEW i \in 1..n PROVE Alike(x[m + i].operation, t[0 + i].operation)
    <3>1. PICK k : k = m + i
      OBVIOUS
    <3>2. 0 + i = i /\ k \in 1..(m + n) /\ ~(k <= m) /\ k - m = i
      BY <1>4, <3>1
    <3>3. x[k] = t[i]
      BY <1>4, <3>2
    <3>4. QED
      BY <3>1, <3>2, <3>3, AlikeItself
  <2>3. QED
    BY <2>1, <2>2 DEF Agree
<1>6. 0 \in Nat /\ m \in 0..m /\ n \in 0..n /\ 0 + m = m /\ 0 + n = n
  BY <1>4
<1>7. Deepening(x, 0, s, 0, m) /\ Deepening(x, m, t, 0, n)
  BY <1>4, <1>5, <1>6, DeepensAsMuch
<1>8. Depth(x, 0 + m) = Depth(x, 0) + (Depth(s, 0 + m) - Depth(s, 0))
  BY <1>6, <1>7 DEF Deepening
<1>9. Depth(x, m + n) = Depth(x, m) + (Depth(t, 0 + n) - Depth(t, 0))
  BY <1>6, <1>7 DEF Deepening
<1>10. Depth(x, 0) = 0 /\ Depth(s, 0) = 0 /\ Depth(t, 0) = 0
  BY DepthSteps
<1>11. Depth(s, m) = d /\ Depth(t, n) = e
  BY <1>2 DEF Net
<1>12. Depth(x, m) = d
  BY <1>6, <1>8, <1>10, <1>11
<1>13. Depth(x, m + n) = d + e
  BY <1>6, <1>9, <1>10, <1>11, <1>12
<1>14. QED
  BY <1>2, <1>3, <1>4, <1>13 DEF Net

LEMMA InstrIs ==
  ASSUME NEW op \in Operation, NEW in \in Seq(Nat)
  PROVE  /\ Instr(op, in) \in Instruction
         /\ Instr(op, in).operation = op /\ Instr(op, in).inputs = in
  BY DEF Instr, Instruction

\* The operations the generators use.
LEMMA GeneratedOperations ==
  /\ \A i \in Nat : LoadRole(i) \in Operation
  /\ \A v \in Versions : LoadVersion(v) \in Operation
  /\ \A f \in SUBSET Flags : LoadFlags(f) \in Operation
  /\ LoadStr(FALSE) \in Operation
  /\ \A n \in {"LoadPort", "LoadBytes", "Connect", "BeginBuildSetupConnection", "SetVersions",
               "SetFlags", "SetEndpoint", "SetDeviceInfo", "SendRawFrame"} :
       Plain(n) \in Operation
  /\ \A n \in {"EndBuildSetupConnection", "SendSetupConnection"}, p \in Protocols :
       WithProtocol(n, p) \in Operation
  BY DEF Operation, LoadRole, LoadVersion, LoadFlags, LoadStr, Plain, WithProtocol

LEMMA GeneratedBlocks ==
  /\ \A n \in {"LoadPort", "LoadBytes", "Connect", "SetVersions", "SetFlags", "SetEndpoint",
               "SetDeviceInfo", "SendRawFrame"} :
       ~IsBlockBegin(Plain(n)) /\ ~IsBlockEnd(Plain(n))
  /\ \A x : /\ ~IsBlockBegin(LoadRole(x)) /\ ~IsBlockEnd(LoadRole(x))
            /\ ~IsBlockBegin(LoadVersion(x)) /\ ~IsBlockEnd(LoadVersion(x))
            /\ ~IsBlockBegin(LoadFlags(x)) /\ ~IsBlockEnd(LoadFlags(x))
            /\ ~IsBlockBegin(LoadStr(x)) /\ ~IsBlockEnd(LoadStr(x))
            /\ ~IsBlockBegin(WithProtocol("SendSetupConnection", x))
            /\ ~IsBlockEnd(WithProtocol("SendSetupConnection", x))
            /\ ~IsBlockBegin(WithProtocol("EndBuildSetupConnection", x))
            /\ IsBlockEnd(WithProtocol("EndBuildSetupConnection", x))
  /\ IsBlockBegin(Plain("BeginBuildSetupConnection"))
  /\ ~IsBlockEnd(Plain("BeginBuildSetupConnection"))
  BY DEF IsBlockBegin, IsBlockEnd, LoadRole, LoadVersion, LoadFlags, LoadStr, Plain,
         WithProtocol

\* An instruction that neither begins nor ends a block.
Flat(i) == i \in Instruction /\ ~IsBlockBegin(i.operation) /\ ~IsBlockEnd(i.operation)

LEMMA NetNone == Net(<< >>, 0)
<1>1. << >> \in Seq(Instruction) /\ Len(<< >>) = 0 /\ 1..0 = {}
  OBVIOUS
<1>2. QED
  BY <1>1, NetFlat

LEMMA NetTwo == ASSUME NEW i, NEW j, Flat(i), Flat(j) PROVE Net(<<i, j>>, 0)
<1>1. PICK s : s = <<i, j>>
  OBVIOUS
<1>2. s \in Seq(Instruction) /\ Len(s) = 2 /\ s[1] = i /\ s[2] = j
  BY <1>1 DEF Flat
<1>3. \A k \in 1..2 : k = 1 \/ k = 2
  OBVIOUS
<1>4. \A k \in 1..Len(s) : ~IsBlockBegin(s[k].operation) /\ ~IsBlockEnd(s[k].operation)
  BY <1>2, <1>3 DEF Flat
<1>5. QED
  BY <1>1, <1>2, <1>4, NetFlat

LEMMA NetThree == ASSUME NEW i, NEW j, NEW k, Flat(i), Flat(j), Flat(k) PROVE Net(<<i, j, k>>, 0)
<1>1. PICK s : s = <<i, j, k>>
  OBVIOUS
<1>2. s \in Seq(Instruction) /\ Len(s) = 3 /\ s[1] = i /\ s[2] = j /\ s[3] = k
  BY <1>1 DEF Flat
<1>3. \A n \in 1..3 : n = 1 \/ n = 2 \/ n = 3
  OBVIOUS
<1>4. \A n \in 1..Len(s) : ~IsBlockBegin(s[n].operation) /\ ~IsBlockEnd(s[n].operation)
  BY <1>2, <1>3 DEF Flat
<1>5. QED
  BY <1>1, <1>2, <1>4, NetFlat

LEMMA NetFive ==
  ASSUME NEW i, NEW j, Flat(i), Flat(j) PROVE Net(<<i, i, i, i, j>>, 0)
<1>1. PICK s : s = <<i, i, i, i, j>>
  OBVIOUS
<1>2. /\ s \in Seq(Instruction) /\ Len(s) = 5
      /\ s[1] = i /\ s[2] = i /\ s[3] = i /\ s[4] = i /\ s[5] = j
  BY <1>1 DEF Flat
<1>3. \A n \in 1..5 : n = 1 \/ n = 2 \/ n = 3 \/ n = 4 \/ n = 5
  OBVIOUS
<1>4. \A n \in 1..Len(s) : ~IsBlockBegin(s[n].operation) /\ ~IsBlockEnd(s[n].operation)
  BY <1>2, <1>3 DEF Flat
<1>5. QED
  BY <1>1, <1>2, <1>4, NetFlat

LEMMA FlatInstr ==
  ASSUME NEW op \in Operation, NEW in \in Seq(Nat), ~IsBlockBegin(op), ~IsBlockEnd(op)
  PROVE  Flat(Instr(op, in))
  BY InstrIs DEF Flat

\* The beginning of a setup's code opens the block of its message.
LEMMA NetSetupBegin ==
  ASSUME NEW i1, NEW i2, NEW i3, NEW i4 \in Instruction, NEW i5, NEW i6,
         Flat(i1), Flat(i2), Flat(i3), Flat(i5), Flat(i6),
         IsBlockBegin(i4.operation), ~IsBlockEnd(i4.operation)
  PROVE  Net(<<i1, i2, i3, i4, i5, i6>>, 1)
<1>1. PICK s : s = <<i1, i2, i3, i4, i5, i6>>
  OBVIOUS
<1>2. /\ s \in Seq(Instruction) /\ Len(s) = 6
      /\ s[1] = i1 /\ s[2] = i2 /\ s[3] = i3 /\ s[4] = i4 /\ s[5] = i5 /\ s[6] = i6
  BY <1>1 DEF Flat
<1>3. \A n \in 1..6 : n = 1 \/ n = 2 \/ n = 3 \/ n = 4 \/ n = 5 \/ n = 6
  OBVIOUS
<1>4. ASSUME NEW n \in 1..Len(s)
      PROVE  ~IsBlockEnd(s[n].operation) /\ (n # 4 => ~IsBlockBegin(s[n].operation))
  BY <1>2, <1>3 DEF Flat
<1>5. 4 \in 1..Len(s) /\ IsBlockBegin(s[4].operation)
  BY <1>2
<1>6. QED
  BY <1>1, <1>2, <1>4, <1>5, NetOpening

LEMMA NetSetupEnd ==
  ASSUME NEW i \in Instruction, NEW j, ~IsBlockBegin(i.operation), IsBlockEnd(i.operation), Flat(j)
  PROVE  Net(<<i, j>>, -1)
<1>1. PICK s : s = <<i, j>>
  OBVIOUS
<1>2. s \in Seq(Instruction) /\ Len(s) = 2 /\ s[1] = i /\ s[2] = j
  BY <1>1 DEF Flat
<1>3. \A n \in 1..2 : n = 1 \/ n = 2
  OBVIOUS
<1>4. ASSUME NEW n \in 1..Len(s)
      PROVE  ~IsBlockBegin(s[n].operation) /\ (n # 1 => ~IsBlockEnd(s[n].operation))
  BY <1>2, <1>3 DEF Flat
<1>5. 1 \in 1..Len(s) /\ IsBlockEnd(s[1].operation)
  BY <1>2
<1>6. QED
  BY <1>1, <1>2, <1>4, <1>5, NetClosing

\* The parts setup() puts together.
SetupBegin(n, min, max, flags) ==
  <<Instr(LoadVersion(min), << >>), Instr(LoadVersion(max), << >>),
    Instr(LoadFlags(flags), << >>), Instr(Plain("BeginBuildSetupConnection"), << >>),
    Instr(Plain("SetVersions"), <<n + 3, n, n + 1>>),
    Instr(Plain("SetFlags"), <<n + 3, n + 2>>)>>

SetupEndpoint(n) ==
  <<Instr(LoadStr(FALSE), << >>), Instr(Plain("LoadPort"), << >>),
    Instr(Plain("SetEndpoint"), <<n + 3, n + 4, n + 5>>)>>

SetupDevice(n, vendor) ==
  <<Instr(LoadStr(FALSE), << >>), Instr(LoadStr(FALSE), << >>), Instr(LoadStr(FALSE), << >>),
    Instr(LoadStr(FALSE), << >>),
    Instr(Plain("SetDeviceInfo"), <<n + 3, vendor, vendor + 1, vendor + 2, vendor + 3>>)>>

SetupEnd(n, c, p, message) ==
  <<Instr(WithProtocol("EndBuildSetupConnection", p), <<n + 3>>),
    Instr(WithProtocol("SendSetupConnection", p), <<c, message>>)>>

LEMMA SetupIs ==
  ASSUME NEW n, NEW c, NEW p, NEW min, NEW max, NEW flags, NEW shape
  PROVE  Setup(n, c, p, min, max, flags, shape)
           = SetupBegin(n, min, max, flags)
               \o (IF "endpoint" \in shape THEN SetupEndpoint(n) ELSE << >>)
               \o (IF "device" \in shape
                     THEN SetupDevice(n, IF "endpoint" \in shape THEN n + 6 ELSE n + 4)
                     ELSE << >>)
               \o SetupEnd(n, c, p, n + SetupDefines(shape) - 2)
  BY Zenon DEF Setup, SetupBegin, SetupEndpoint, SetupDevice, SetupEnd

LEMMA SetupDefinesIs ==
  ASSUME NEW shape PROVE SetupDefines(shape) \in Nat /\ SetupDefines(shape) >= 6
  BY DEF SetupDefines

\* Each part of a setup's code, and how many blocks it leaves open.
LEMMA SetupParts ==
  ASSUME NEW n \in Nat, NEW c \in Nat, NEW p \in Protocols, NEW min \in Versions,
         NEW max \in Versions, NEW flags \in SUBSET Flags
  PROVE  /\ Net(SetupBegin(n, min, max, flags), 1) /\ Net(SetupEndpoint(n), 0)
         /\ \A vendor \in Nat : Net(SetupDevice(n, vendor), 0)
         /\ \A message \in Nat : Net(SetupEnd(n, c, p, message), -1)
<1>1. << >> \in Seq(Nat)
  OBVIOUS
<1>2. Net(SetupBegin(n, min, max, flags), 1)
  <2>1. <<n + 3, n, n + 1>> \in Seq(Nat) /\ <<n + 3, n + 2>> \in Seq(Nat)
    OBVIOUS
  <2>2. /\ Flat(Instr(LoadVersion(min), << >>)) /\ Flat(Instr(LoadVersion(max), << >>))
        /\ Flat(Instr(LoadFlags(flags), << >>))
        /\ Flat(Instr(Plain("SetVersions"), <<n + 3, n, n + 1>>))
        /\ Flat(Instr(Plain("SetFlags"), <<n + 3, n + 2>>))
    BY <1>1, <2>1, GeneratedOperations, GeneratedBlocks, FlatInstr
  <2>3. PICK i : i = Instr(Plain("BeginBuildSetupConnection"), << >>)
    OBVIOUS
  <2>4. i \in Instruction /\ i.operation = Plain("BeginBuildSetupConnection")
    BY <1>1, <2>3, GeneratedOperations, InstrIs
  <2>5. IsBlockBegin(i.operation) /\ ~IsBlockEnd(i.operation)
    BY <2>4, GeneratedBlocks
  <2>6. QED
    BY <2>2, <2>3, <2>4, <2>5, NetSetupBegin DEF SetupBegin
<1>3. Net(SetupEndpoint(n), 0)
  <2>1. <<n + 3, n + 4, n + 5>> \in Seq(Nat)
    OBVIOUS
  <2>2. /\ Flat(Instr(LoadStr(FALSE), << >>)) /\ Flat(Instr(Plain("LoadPort"), << >>))
        /\ Flat(Instr(Plain("SetEndpoint"), <<n + 3, n + 4, n + 5>>))
    BY <1>1, <2>1, GeneratedOperations, GeneratedBlocks, FlatInstr
  <2>3. QED
    BY <2>2, NetThree DEF SetupEndpoint
<1>4. ASSUME NEW vendor \in Nat PROVE Net(SetupDevice(n, vendor), 0)
  <2>1. <<n + 3, vendor, vendor + 1, vendor + 2, vendor + 3>> \in Seq(Nat)
    OBVIOUS
  <2>2. /\ Flat(Instr(LoadStr(FALSE), << >>))
        /\ Flat(Instr(Plain("SetDeviceInfo"),
                      <<n + 3, vendor, vendor + 1, vendor + 2, vendor + 3>>))
    BY <1>1, <2>1, GeneratedOperations, GeneratedBlocks, FlatInstr
  <2>3. QED
    BY <2>2, NetFive DEF SetupDevice
<1>5. ASSUME NEW message \in Nat PROVE Net(SetupEnd(n, c, p, message), -1)
  <2>1. <<n + 3>> \in Seq(Nat) /\ <<c, message>> \in Seq(Nat)
    OBVIOUS
  <2>2. Flat(Instr(WithProtocol("SendSetupConnection", p), <<c, message>>))
    BY <2>1, GeneratedOperations, GeneratedBlocks, FlatInstr
  <2>3. PICK i : i = Instr(WithProtocol("EndBuildSetupConnection", p), <<n + 3>>)
    OBVIOUS
  <2>4. i \in Instruction /\ i.operation = WithProtocol("EndBuildSetupConnection", p)
    BY <2>1, <2>3, GeneratedOperations, InstrIs
  <2>5. ~IsBlockBegin(i.operation) /\ IsBlockEnd(i.operation)
    BY <2>4, GeneratedBlocks
  <2>6. QED
    BY <2>2, <2>3, <2>4, <2>5, NetSetupEnd DEF SetupEnd
<1>6. QED
  BY <1>2, <1>3, <1>4, <1>5

LEMMA NetSetup ==
  ASSUME NEW n \in Nat, NEW c \in Nat, NEW p \in Protocols, NEW min \in Versions,
         NEW max \in Versions, NEW flags \in SUBSET Flags, NEW shape
  PROVE  Net(Setup(n, c, p, min, max, flags, shape), 0)
<1>1. PICK vendor, message, a, b, d, e :
        /\ vendor = (IF "endpoint" \in shape THEN n + 6 ELSE n + 4)
        /\ message = n + SetupDefines(shape) - 2
        /\ a = SetupBegin(n, min, max, flags)
        /\ b = (IF "endpoint" \in shape THEN SetupEndpoint(n) ELSE << >>)
        /\ d = (IF "device" \in shape THEN SetupDevice(n, vendor) ELSE << >>)
        /\ e = SetupEnd(n, c, p, message)
  OBVIOUS
<1>2. vendor \in Nat /\ message \in Nat
  <2>1. SetupDefines(shape) \in Nat /\ SetupDefines(shape) >= 6
    BY SetupDefinesIs
  <2>2. QED
    BY <1>1, <2>1
<1>3. Net(a, 1) /\ Net(b, 0) /\ Net(d, 0) /\ Net(e, -1)
  BY <1>1, <1>2, SetupParts, NetNone
<1>4. Net(a \o b, 1 + 0)
  BY <1>3, NetConcat
<1>5. Net(a \o b, 1)
  BY <1>4
<1>6. Net((a \o b) \o d, 1 + 0)
  BY <1>3, <1>5, NetConcat
<1>7. Net((a \o b) \o d, 1)
  BY <1>6
<1>8. -1 \in Int /\ 1 + (-1) = 0
  OBVIOUS
<1>9. Net(((a \o b) \o d) \o e, 1 + (-1))
  BY <1>3, <1>7, <1>8, NetConcat
<1>10. Setup(n, c, p, min, max, flags, shape) = ((a \o b) \o d) \o e
  BY <1>1, SetupIs, Zenon
<1>11. QED
  BY <1>8, <1>9, <1>10

\* What a generator starts from: the code that makes or finds its connection.
Connects(c) == Net(c.code, 0) /\ c.connection \in Nat /\ c.next \in Nat

LEMMA OpenedConnects ==
  ASSUME NEW b, Len(b.variables) \in Nat, NEW role \in Roles
  PROVE  Connects(Opened(b, role))
<1>1. PICK n : n = NextVariable(b)
  OBVIOUS
<1>2. n \in Nat /\ n + 1 \in Nat /\ n + 2 \in Nat
  BY <1>1 DEF NextVariable
<1>3. role \in Nat
  BY DEF Roles
<1>4. PICK i, j : i = Instr(LoadRole(role), << >>) /\ j = Instr(Plain("Connect"), <<n>>)
  OBVIOUS
<1>5. << >> \in Seq(Nat) /\ <<n>> \in Seq(Nat)
  BY <1>2
<1>6. Flat(i) /\ Flat(j)
  BY <1>3, <1>4, <1>5, GeneratedOperations, GeneratedBlocks, FlatInstr
<1>7. Net(<<i, j>>, 0)
  BY <1>6, NetTwo
<1>8. Opened(b, role) = [code |-> <<i, j>>, connection |-> n + 1, next |-> n + 2]
  BY <1>1, <1>4, Zenon DEF Opened
<1>9. QED
  BY <1>2, <1>7, <1>8 DEF Connects

LEMMA ReusedConnects ==
  ASSUME NEW b, Len(b.variables) \in Nat, DOMAIN b.variables = 1..Len(b.variables),
         NEW role \in Roles, NEW c \in Reused(b, role)
  PROVE  Connects(c)
<1>1. PICK open : open = VisibleOfType(b, <<"Connection">>)
  OBVIOUS
<1>2. CASE open = {}
  <2>1. c = Opened(b, role)
    BY <1>1, <1>2 DEF Reused
  <2>2. QED
    BY <2>1, OpenedConnects
<1>3. CASE open # {}
  <2>1. PICK v \in open : c = [code |-> << >>, connection |-> v, next |-> NextVariable(b)]
    BY <1>1, <1>3 DEF Reused
  <2>2. v \in 1..Len(b.variables)
    BY <1>1, <2>1 DEF VisibleOfType
  <2>3. v \in Nat /\ NextVariable(b) \in Nat
    BY <2>2 DEF NextVariable
  <2>4. QED
    BY <2>1, <2>3, NetNone DEF Connects
<1>4. QED
  BY <1>2, <1>3

LEMMA NetRaw ==
  ASSUME NEW c \in Nat, NEW n \in Nat
  PROVE  Net(<<Instr(Plain("LoadBytes"), << >>), Instr(Plain("SendRawFrame"), <<c, n>>)>>, 0)
<1>1. << >> \in Seq(Nat) /\ <<c, n>> \in Seq(Nat)
  OBVIOUS
<1>2. /\ Flat(Instr(Plain("LoadBytes"), << >>))
      /\ Flat(Instr(Plain("SendRawFrame"), <<c, n>>))
  BY <1>1, GeneratedOperations, GeneratedBlocks, FlatInstr
<1>3. QED
  BY <1>2, NetTwo

LEMMA NetBoth ==
  ASSUME NEW s, NEW t, Net(s, 0), Net(t, 0) PROVE Net(s \o t, 0)
<1>1. Net(s \o t, 0 + 0)
  BY NetConcat
<1>2. QED
  BY <1>1

LEMMA PrecedingIs ==
  ASSUME NEW v \in SetupViolation, NEW n \in Nat, NEW c \in Nat, NEW p \in Protocols,
         NEW flags \in SUBSET Flags, NEW shape
  PROVE  /\ Net(Preceding(v, n, c, p, flags, shape).code, 0)
         /\ Preceding(v, n, c, p, flags, shape).defines \in Nat
<1>1. CurrentVersion \in Versions
  BY VersionAssumption
<1>2. Net(Setup(n, c, p, CurrentVersion, CurrentVersion, flags, shape), 0)
  BY <1>1, NetSetup
<1>3. SetupDefines(shape) \in Nat
  BY SetupDefinesIs
<1>4. CASE v = "AfterRawFrame"
  BY <1>4, NetRaw DEF Preceding
<1>5. CASE v = "SecondSetup"
  BY <1>2, <1>3, <1>5 DEF Preceding
<1>6. CASE v # "AfterRawFrame" /\ v # "SecondSetup"
  BY <1>6, NetNone DEF Preceding
<1>7. QED
  BY <1>4, <1>5, <1>6

LEMMA ViolatingIs ==
  ASSUME NEW v \in SetupViolation, NEW p \in Protocols, NEW flags \in SUBSET Flags,
         NEW w \in Violating(v, p, flags)
  PROVE  w[1] \in Versions /\ w[2] \in Versions /\ w[3] \in SUBSET Flags
  BY VersionAssumption DEF Violating, SetupViolation

\* A conforming setup on connection c.
ConformingWith(p, flags, shape, c) ==
  [kind |-> "conforming",
   code |-> c.code \o Setup(c.next, c.connection, p, CurrentVersion, CurrentVersion,
                            flags, shape)]

LEMMA ConformingSetupsAre ==
  ASSUME NEW b
  PROVE  ConformingSetups(b)
           = UNION {{ConformingWith(p, flags, shape, c) :
                       flags \in SUBSET DefinedFlags[p], shape \in Shapes,
                       c \in UNION {Fresh(b, r) : r \in Roles}} : p \in Protocols}
  BY DEF ConformingSetups, ConformingWith

LEMMA ConformingIsClosed ==
  ASSUME NEW b, Len(b.variables) \in Nat, NEW f \in ConformingSetups(b)
  PROVE  Net(f.code, 0)
<1>1. PICK p \in Protocols :
        f \in {ConformingWith(p, flags, shape, c) :
                 flags \in SUBSET DefinedFlags[p], shape \in Shapes,
                 c \in UNION {Fresh(b, r) : r \in Roles}}
  BY ConformingSetupsAre
<1>2. PICK flags \in SUBSET DefinedFlags[p], shape \in Shapes,
           c \in UNION {Fresh(b, r) : r \in Roles} : f = ConformingWith(p, flags, shape, c)
  BY <1>1
<1>3. flags \in SUBSET Flags /\ CurrentVersion \in Versions
  BY DefinedFlagsAssumption, VersionAssumption
<1>4. Connects(c)
  BY OpenedConnects DEF Fresh
<1>5. Net(Setup(c.next, c.connection, p, CurrentVersion, CurrentVersion, flags, shape), 0)
  BY <1>3, <1>4, NetSetup DEF Connects
<1>6. f.code = c.code \o Setup(c.next, c.connection, p, CurrentVersion, CurrentVersion, flags,
                                shape)
  BY <1>2 DEF ConformingWith
<1>7. QED
  BY <1>4, <1>5, <1>6, NetBoth DEF Connects

\* The adversarial setups on connection c.
AdversarialOf(v, p, flags, shape, c) ==
  {AdversarialSetup(v, p, flags, shape, c, w, other) :
     w \in Violating(v, p, flags), other \in IF v = "SecondSetup" THEN Shapes ELSE {shape}}

AdversarialFor(b, v, p) ==
  UNION {AdversarialOf(v, p, flags, shape, c) :
           flags \in SUBSET DefinedFlags[p], shape \in Shapes,
           c \in UNION {Fresh(b, r) : r \in Roles}}

LEMMA AdversarialSetupsAre ==
  ASSUME NEW b
  PROVE  AdversarialSetups(b)
           = UNION {AdversarialFor(b, v, p) : v \in SetupViolation, p \in Protocols}
  BY DEF AdversarialSetups, AdversarialFor, AdversarialOf

LEMMA AdversarialIsClosed ==
  ASSUME NEW b, Len(b.variables) \in Nat, NEW f \in AdversarialSetups(b)
  PROVE  Net(f.code, 0)
<1>1. PICK v \in SetupViolation, p \in Protocols : f \in AdversarialFor(b, v, p)
  BY AdversarialSetupsAre
<1>2. PICK flags \in SUBSET DefinedFlags[p], shape \in Shapes,
            c \in UNION {Fresh(b, r) : r \in Roles} :
         f \in AdversarialOf(v, p, flags, shape, c)
  BY <1>1 DEF AdversarialFor
<1>3. PICK w \in Violating(v, p, flags), other \in IF v = "SecondSetup" THEN Shapes ELSE {shape} :
        f = AdversarialSetup(v, p, flags, shape, c, w, other)
  BY <1>2 DEF AdversarialOf
<1>4. flags \in SUBSET Flags
  BY DefinedFlagsAssumption
<1>5. Connects(c)
  BY OpenedConnects DEF Fresh
<1>6. PICK before : before = Preceding(v, c.next, c.connection, p, flags, shape)
  OBVIOUS
<1>7. Net(before.code, 0) /\ before.defines \in Nat
  BY <1>4, <1>5, <1>6, PrecedingIs DEF Connects
<1>8. w[1] \in Versions /\ w[2] \in Versions /\ w[3] \in SUBSET Flags
  BY <1>4, ViolatingIs
<1>9. PICK n : n = c.next + before.defines
  OBVIOUS
<1>10. n \in Nat
  BY <1>5, <1>7, <1>9 DEF Connects
<1>11. Net(Setup(n, c.connection, p, w[1], w[2], w[3], other), 0)
  BY <1>5, <1>8, <1>10, NetSetup DEF Connects
<1>12. Net(c.code \o before.code, 0)
  BY <1>5, <1>7, NetBoth DEF Connects
<1>13. Net((c.code \o before.code) \o Setup(n, c.connection, p, w[1], w[2], w[3], other), 0)
  BY <1>11, <1>12, NetBoth
<1>14. f.code = (c.code \o before.code) \o Setup(n, c.connection, p, w[1], w[2], w[3], other)
  BY <1>3, <1>6, <1>9 DEF AdversarialSetup
<1>15. QED
  BY <1>13, <1>14

LEMMA RawIsClosed ==
  ASSUME NEW b, Len(b.variables) \in Nat, DOMAIN b.variables = 1..Len(b.variables),
         NEW f \in RawFrames(b)
  PROVE  Net(f.code, 0)
<1>1. PICK c \in UNION {Reused(b, r) : r \in Roles} :
        f = [kind |-> "raw",
             code |-> c.code \o <<Instr(Plain("LoadBytes"), << >>),
                                  Instr(Plain("SendRawFrame"), <<c.connection, c.next>>)>>]
  BY DEF RawFrames
<1>2. Connects(c)
  BY ReusedConnects
<1>3. Net(<<Instr(Plain("LoadBytes"), << >>),
            Instr(Plain("SendRawFrame"), <<c.connection, c.next>>)>>, 0)
  BY <1>2, NetRaw DEF Connects
<1>4. QED
  BY <1>1, <1>2, <1>3, NetBoth DEF Connects

\* The builder of a prefix of a valid program has its variables.
LEMMA PrefixBuilder ==
  ASSUME NEW p, Valid(p), NEW n \in 0..Len(p), NEW b, b = FromPrefix(SubSeq(p, 1, n))
  PROVE  /\ Reads(b, p, n) /\ b.accepted
         /\ Len(b.variables) \in Nat /\ DOMAIN b.variables = 1..Len(b.variables)
<1>1. /\ p \in Seq(Instruction) /\ Len(p) \in Nat /\ n \in Nat /\ n <= Len(p)
      /\ \A k \in 1..Len(p) : ValidInstruction(p, k, NumRoles, NumConnections)
  BY ValidFacts
<1>2. PICK pre : pre = SubSeq(p, 1, n)
  OBVIOUS
<1>3. pre \in Seq(Instruction) /\ Len(pre) = n /\ \A i \in 1..n : pre[i] = p[i]
  BY <1>1, <1>2, PrefixFacts
<1>4. Builders(pre)[n] = Builders(p)[n]
  <2>1. Len(pre) <= Len(p) /\ n \in 0..Len(pre) /\ \A j \in 1..Len(pre) : pre[j] = p[j]
    BY <1>1, <1>3
  <2>2. QED
    BY <1>1, <1>3, <2>1, BuildersAgree
<1>5. Replayed(p, n)
  BY <1>1, ReplayedAlways
<1>6. \A j \in 1..n : ValidInstruction(p, j, NumRoles, NumConnections)
  BY <1>1
<1>7. Builders(p)[n].accepted /\ Reads(Builders(p)[n], p, n)
  BY <1>5, <1>6 DEF Replayed
<1>8. b = Builders(p)[n]
  BY <1>2, <1>3, <1>4 DEF FromPrefix
<1>9. WellFormed(b, n)
  BY <1>7, <1>8 DEF Reads
<1>10. QED
  BY <1>1, <1>7, <1>8, <1>9, StackFacts

LEMMA FragmentIsClosed ==
  ASSUME NEW p, Valid(p), NEW n \in 0..Len(p),
         NEW g \in {"setup", "adversarial", "raw_frame"},
         NEW f \in Fragments(g, FromPrefix(SubSeq(p, 1, n)))
  PROVE  Net(f.code, 0)
<1>1. PICK b : b = FromPrefix(SubSeq(p, 1, n))
  OBVIOUS
<1>2. Len(b.variables) \in Nat /\ DOMAIN b.variables = 1..Len(b.variables)
  BY <1>1, PrefixBuilder
<1>3. f \in ConformingSetups(b) \/ f \in AdversarialSetups(b) \/ f \in RawFrames(b)
  BY <1>1 DEF Fragments
<1>4. QED
  BY <1>2, <1>3, ConformingIsClosed, AdversarialIsClosed, RawIsClosed

-----------------------------------------------------------------------------
(* What FlattenSeq computes, and which instruction defines which variable. *)

\* f[i] is the first i sequences of ss, one after the other.
Flattens(f, ss, n) ==
  f = [i \in 1..n |-> IF i = 1 THEN ss[i] ELSE f[i - 1] \o ss[i]]

LEMMA FlattensExist ==
  ASSUME NEW ss, NEW n \in Nat
  PROVE  \E f : Flattens(f, ss, n)
<1> DEFINE S == {m \in Nat : \E f : Flattens(f, ss, m)}
<1>1. 0 \in S
  <2> DEFINE f == [i \in 1..0 |-> ss[i]]
  <2>1. f = [i \in 1..0 |-> IF i = 1 THEN ss[i] ELSE f[i - 1] \o ss[i]]
    OBVIOUS
  <2> HIDE DEF f
  <2>2. QED
    BY <2>1 DEF Flattens
<1>2. ASSUME NEW m \in Nat, m \in S PROVE m + 1 \in S
  <2>1. PICK f : Flattens(f, ss, m)
    BY <1>2
  <2> DEFINE top == IF m = 0 THEN ss[1] ELSE f[m] \o ss[m + 1]
             g == [i \in 1..(m + 1) |-> IF i = m + 1 THEN top ELSE f[i]]
  <2> HIDE DEF top
  <2>2. ASSUME NEW i \in 1..(m + 1)
        PROVE  g[i] = IF i = 1 THEN ss[i] ELSE g[i - 1] \o ss[i]
    <3>1. CASE i \in 1..m
      <4>1. f[i] = IF i = 1 THEN ss[i] ELSE f[i - 1] \o ss[i]
        BY <2>1, <3>1 DEF Flattens
      <4>2. i # m + 1 /\ (i # 1 => i - 1 \in 1..(m + 1) /\ i - 1 # m + 1)
        BY <3>1
      <4>3. g[i] = f[i] /\ (i # 1 => g[i - 1] = f[i - 1])
        BY <4>2
      <4>4. QED
        BY <4>1, <4>3
    <3>2. CASE i = m + 1
      <4>1. g[i] = top
        BY <3>2
      <4>2. m # 0 => m \in 1..(m + 1) /\ m # m + 1 /\ i - 1 = m /\ i # 1
        BY <3>2
      <4>3. m # 0 => g[i - 1] = f[m]
        BY <4>2
      <4>4. m = 0 => i = 1
        BY <3>2
      <4> HIDE DEF g
      <4>5. QED
        BY <3>2, <4>1, <4>2, <4>3, <4>4 DEF top
    <3>3. QED
      BY <3>1, <3>2
  <2>3. g = [i \in 1..(m + 1) |-> g[i]]
    OBVIOUS
  <2> HIDE DEF g
  <2>4. Flattens(g, ss, m + 1)
    BY <2>2, <2>3 DEF Flattens
  <2>5. QED
    BY <2>4
<1> HIDE DEF S
<1>3. n \in S
  BY <1>1, <1>2, Induction
<1>4. QED
  BY <1>3 DEF S

LEMMA FlattenSeqIs ==
  ASSUME NEW ss, Len(ss) \in Nat \ {0}
  PROVE  \E f : Flattens(f, ss, Len(ss)) /\ FlattenSeq(ss) = f[Len(ss)]
<1> DEFINE g == CHOOSE f : f = [i \in 1..Len(ss) |-> IF i = 1 THEN ss[i] ELSE f[i - 1] \o ss[i]]
<1>1. \E f : f = [i \in 1..Len(ss) |-> IF i = 1 THEN ss[i] ELSE f[i - 1] \o ss[i]]
  BY FlattensExist, Zenon DEF Flattens
<1>2. Flattens(g, ss, Len(ss))
  BY <1>1, Zenon DEF Flattens
<1>3. Len(ss) # 0
  OBVIOUS
<1>4. FlattenSeq(ss) = g[Len(ss)]
  BY <1>3, Zenon DEF FlattenSeq
<1>5. QED
  BY <1>2, <1>4, Zenon

\* The variables of the first i instructions, in the order they are defined.
DefinersUpTo(t, p, i) ==
  /\ t \in Seq(Nat \X Nat)
  /\ Len(t) = DefinedBefore(p, i + 1)
  /\ \A k \in 1..i : \A n \in 1..Defines(p[k].operation) :
       t[DefinedBefore(p, k) + n] = <<k, n>>

SlotsOf(p) == [k \in DOMAIN p |-> [n \in 1..Defines(p[k].operation) |-> <<k, n>>]]

LEMMA SlotsOfIs ==
  ASSUME NEW p \in Seq(Instruction), NEW k \in 1..Len(p)
  PROVE  /\ SlotsOf(p)[k] \in Seq(Nat \X Nat)
         /\ Len(SlotsOf(p)[k]) = Defines(p[k].operation)
         /\ \A n \in 1..Defines(p[k].operation) : SlotsOf(p)[k][n] = <<k, n>>
<1>1. k \in Nat /\ DOMAIN p = 1..Len(p) /\ Defines(p[k].operation) \in Nat
  BY ProgramFacts, DefinesIsNatural
<1>2. PICK m, s : m = Defines(p[k].operation) /\ s = SlotsOf(p)[k]
  OBVIOUS
<1>3. s = [n \in 1..m |-> <<k, n>>]
  BY <1>1, <1>2 DEF SlotsOf
<1>4. s \in [1..m -> Nat \X Nat]
  BY <1>1, <1>3
<1>5. s \in Seq(Nat \X Nat) /\ Len(s) = m
  BY <1>1, <1>2, <1>4, ListIsSequence
<1>6. QED
  BY <1>2, <1>3, <1>5

LEMMA DefinersStep ==
  ASSUME NEW p \in Seq(Instruction), NEW i \in 1..Len(p), NEW t, NEW e \in 0..(i - 1), e = i - 1,
         DefinersUpTo(t, p, e)
  PROVE  DefinersUpTo(t \o SlotsOf(p)[i], p, i)
<1>1. Len(p) \in Nat /\ i \in Nat /\ e \in Nat /\ e + 1 = i /\ DOMAIN p = 1..Len(p)
  BY ProgramFacts
<1>2. PICK s, m, a, u : s = SlotsOf(p)[i] /\ m = Defines(p[i].operation) /\ a = Len(t) /\ u = t \o s
  OBVIOUS
<1>3. s \in Seq(Nat \X Nat) /\ Len(s) = m /\ \A n \in 1..m : s[n] = <<i, n>>
  BY <1>2, SlotsOfIs
<1>4. t \in Seq(Nat \X Nat) /\ a \in Nat /\ a = DefinedBefore(p, i) /\ m \in Nat
  BY <1>1, <1>2, LenProperties, ProgramFacts, DefinesIsNatural DEF DefinersUpTo
<1>5. /\ u \in Seq(Nat \X Nat) /\ Len(u) = a + m
      /\ \A j \in 1..(a + m) : u[j] = IF j <= a THEN t[j] ELSE s[j - a]
  <2>1. Joined(Nat \X Nat, u, t, a, s, m)
    BY <1>2, <1>3, <1>4, ConcatIs
  <2>2. QED
    BY <2>1 DEF Joined
<1>6. Len(u) = DefinedBefore(p, i + 1)
  BY <1>2, <1>4, <1>5, DefinedSteps
<1>7. ASSUME NEW k \in 1..i, NEW n \in 1..Defines(p[k].operation)
      PROVE  u[DefinedBefore(p, k) + n] = <<k, n>>
  <2>1. PICK j : j = DefinedBefore(p, k) + n
    OBVIOUS
  <2>2. CASE k = i
    <3>1. n \in 1..m /\ j = a + n
      BY <1>2, <1>4, <2>1, <2>2
    <3>2. j \in 1..(a + m) /\ ~(j <= a) /\ j - a = n
      BY <1>4, <3>1
    <3>3. u[j] = s[n]
      BY <1>5, <3>2
    <3>4. QED
      BY <1>3, <2>1, <2>2, <3>1, <3>3
  <2>3. CASE k # i
    <3>1. k \in 1..e /\ k \in 1..Len(p) /\ k + 1 \in 1..i /\ i \in 1..(Len(p) + 1)
          /\ k \in 1..(Len(p) + 1)
      BY <1>1, <2>3
    <3>2. t[j] = <<k, n>>
      BY <2>1, <3>1 DEF DefinersUpTo
    <3>3. DefinedBefore(p, k + 1) <= a
      BY <1>4, <3>1, DefinedGrows
    <3>4. DefinedBefore(p, k + 1) = DefinedBefore(p, k) + Defines(p[k].operation)
      BY <3>1, DefinedSteps
    <3>5. DefinedBefore(p, k) \in Nat /\ Defines(p[k].operation) \in Nat
      BY <3>1, SlotsFinite, ProgramFacts, DefinesIsNatural
    <3>6. PICK x, y : x = DefinedBefore(p, k) /\ y = Defines(p[k].operation)
      OBVIOUS
    <3>7. x \in Nat /\ y \in Nat /\ n \in 1..y /\ x + y <= a /\ j = x + n
      BY <2>1, <3>3, <3>4, <3>5, <3>6
    <3>8. j \in 1..(a + m) /\ j <= a
      BY <1>4, <3>7
    <3>9. u[j] = t[j]
      BY <1>5, <3>8
    <3>10. QED
      BY <2>1, <3>2, <3>9
  <2>4. QED
    BY <2>2, <2>3
<1>8. QED
  BY <1>2, <1>5, <1>6, <1>7 DEF DefinersUpTo

\* Definers lists, for every variable, the instruction that defines it and which of its variables
\* it is.
LEMMA DefinersAre ==
  ASSUME NEW p \in Seq(Instruction), NEW v \in 1..DefinedBefore(p, Len(p) + 1)
  PROVE  /\ DefinerOf(p, v) \in 1..Len(p)
         /\ Definers(p)[v] = <<DefinerOf(p, v), v - DefinedBefore(p, DefinerOf(p, v))>>
<1>1. Len(p) \in Nat /\ DOMAIN p = 1..Len(p)
  BY ProgramFacts
<1>2. PICK d : d = DefinerOf(p, v)
  OBVIOUS
<1>3. d \in 1..Len(p) /\ v \in (DefinedBefore(p, d) + 1)..DefinedBefore(p, d + 1)
  <2>1. Len(p) + 1 \in 1..(Len(p) + 1) /\ Len(p) + 1 - 1 = Len(p)
    BY <1>1
  <2>2. QED
    BY <1>1, <1>2, <2>1, DefinerExists
<1>4. PICK ss : ss = SlotsOf(p)
  OBVIOUS
<1>5. Len(ss) = Len(p) /\ Len(ss) \in Nat \ {0}
  <2>1. ss \in Seq(Seq(Nat \X Nat)) /\ Len(ss) = Len(p)
    <3>1. ss \in [1..Len(p) -> Seq(Nat \X Nat)]
      <4>1. ss = [k \in 1..Len(p) |-> ss[k]]
        BY <1>1, <1>4 DEF SlotsOf
      <4>2. \A k \in 1..Len(p) : ss[k] \in Seq(Nat \X Nat)
        BY <1>4, SlotsOfIs
      <4>3. QED
        BY <4>1, <4>2
    <3>2. QED
      BY <1>1, <3>1, ListIsSequence
  <2>2. Len(p) # 0
    BY <1>1, <1>3
  <2>3. QED
    BY <1>1, <2>1, <2>2
<1>6. PICK f : Flattens(f, ss, Len(ss)) /\ FlattenSeq(ss) = f[Len(ss)]
  BY <1>5, FlattenSeqIs
<1>7. \A i \in 1..Len(p) : f[i] = IF i = 1 THEN ss[i] ELSE f[i - 1] \o ss[i]
  BY <1>5, <1>6 DEF Flattens
<1> DEFINE S == {i \in Nat : i + 1 <= Len(p) => DefinersUpTo(f[i + 1], p, i + 1)}
<1>8. 0 \in S
  <2>1. SUFFICES ASSUME 1 <= Len(p) PROVE DefinersUpTo(f[1], p, 1)
    OBVIOUS
  <2>2. 1 \in 1..Len(p)
    BY <1>1, <2>1
  <2>3. f[1] = ss[1]
    BY <1>7, <2>2
  <2>4. /\ ss[1] \in Seq(Nat \X Nat) /\ Len(ss[1]) = Defines(p[1].operation)
        /\ \A n \in 1..Defines(p[1].operation) : ss[1][n] = <<1, n>>
    BY <1>4, <2>2, SlotsOfIs
  <2>5. Defines(p[1].operation) \in Nat
    BY <2>2, ProgramFacts, DefinesIsNatural
  <2>6. DefinedBefore(p, 1) = 0 /\ DefinedBefore(p, 1 + 1) = Defines(p[1].operation)
    BY <2>2, <2>5, DefinedSteps
  <2>7. ASSUME NEW k \in 1..1, NEW n \in 1..Defines(p[k].operation)
        PROVE  f[1][DefinedBefore(p, k) + n] = <<k, n>>
    <3>1. k = 1 /\ 0 + n = n
      BY <2>5
    <3>2. QED
      BY <2>3, <2>4, <2>6, <3>1
  <2>8. QED
    BY <2>3, <2>4, <2>6, <2>7 DEF DefinersUpTo
<1>9. ASSUME NEW i \in Nat, i \in S PROVE i + 1 \in S
  <2>1. SUFFICES ASSUME i + 1 + 1 <= Len(p) PROVE DefinersUpTo(f[i + 1 + 1], p, i + 1 + 1)
    OBVIOUS
  <2>2. PICK e, j : e = i + 1 /\ j = i + 1 + 1
    OBVIOUS
  <2>3. e \in Nat /\ j \in 1..Len(p) /\ e \in 0..(j - 1) /\ e = j - 1 /\ j # 1 /\ e <= Len(p)
    BY <1>1, <2>1, <2>2
  <2>4. DefinersUpTo(f[e], p, e)
    BY <1>9, <2>2, <2>3
  <2>5. DefinersUpTo(f[e] \o SlotsOf(p)[j], p, j)
    BY <2>3, <2>4, DefinersStep
  <2>6. f[j] = f[e] \o ss[j]
    BY <1>7, <2>3
  <2>7. QED
    BY <1>4, <2>2, <2>5, <2>6
<1> HIDE DEF S
<1>10. Nat \subseteq S
  BY <1>8, <1>9, Induction
<1>11. DefinersUpTo(Definers(p), p, Len(p))
  <2>1. PICK i : i = Len(p) - 1
    OBVIOUS
  <2>2. i \in Nat /\ i + 1 = Len(p)
    BY <1>1, <1>5, <2>1
  <2>3. DefinersUpTo(f[Len(p)], p, Len(p))
    BY <1>1, <1>10, <2>2 DEF S
  <2>4. Definers(p) = FlattenSeq(ss)
    BY <1>4, Zenon DEF Definers, SlotsOf
  <2>5. QED
    BY <1>5, <1>6, <2>3, <2>4
<1>12. PICK x, n : x = DefinedBefore(p, d) /\ n = v - x
  OBVIOUS
<1>13. x \in Nat /\ n \in 1..Defines(p[d].operation) /\ x + n = v
  <2>1. d \in 1..(Len(p) + 1)
    BY <1>1, <1>3
  <2>2. x \in Nat /\ Defines(p[d].operation) \in Nat
    BY <1>3, <1>12, <2>1, SlotsFinite, ProgramFacts, DefinesIsNatural
  <2>3. DefinedBefore(p, d + 1) = x + Defines(p[d].operation)
    BY <1>3, <1>12, DefinedSteps
  <2>4. PICK y : y = Defines(p[d].operation)
    OBVIOUS
  <2>5. v \in (x + 1)..(x + y) /\ y \in Nat
    BY <1>3, <1>12, <2>2, <2>3, <2>4
  <2>6. QED
    BY <1>12, <2>2, <2>4, <2>5
<1>14. Definers(p)[x + n] = <<d, n>>
  BY <1>3, <1>11, <1>12, <1>13 DEF DefinersUpTo
<1>15. QED
  BY <1>2, <1>3, <1>12, <1>13, <1>14

\* Where f puts the instructions of p, c has them with their inputs coming from the same
\* instructions' same variables.
Traced(p, c, f) ==
  \A k \in 1..Len(p) :
    /\ c[f[k]].operation = p[k].operation
    /\ DOMAIN c[f[k]].inputs = DOMAIN p[k].inputs
    /\ \A j \in DOMAIN p[k].inputs :
         /\ Definers(p)[p[k].inputs[j]][1] \in 1..Len(p)
         /\ Definers(c)[c[f[k]].inputs[j]]
              = <<f[Definers(p)[p[k].inputs[j]][1]], Definers(p)[p[k].inputs[j]][2]>>

LEMMA PlacedIsTraced ==
  ASSUME NEW p \in Seq(Instruction), NEW c \in Seq(Instruction), NEW f, Placed(p, c, f)
  PROVE  Traced(p, c, f)
<1>1. Len(p) \in Nat /\ Len(c) \in Nat
  BY ProgramFacts
<1>2. ASSUME NEW k \in 1..Len(p)
      PROVE  /\ c[f[k]].operation = p[k].operation
             /\ DOMAIN c[f[k]].inputs = DOMAIN p[k].inputs
             /\ \A j \in DOMAIN p[k].inputs :
                  /\ Definers(p)[p[k].inputs[j]][1] \in 1..Len(p)
                  /\ Definers(c)[c[f[k]].inputs[j]]
                       = <<f[Definers(p)[p[k].inputs[j]][1]], Definers(p)[p[k].inputs[j]][2]>>
  <2>1. Rewired(p, c, f, k) /\ c[f[k]].operation = p[k].operation
    BY DEF Placed
  <2>2. PICK in, out : in = p[k].inputs /\ out = c[f[k]].inputs
    OBVIOUS
  <2>3. /\ in \in Seq(Nat) /\ out \in Seq(Nat) /\ Len(in) = Len(out)
        /\ \A j \in 1..Len(in) : /\ in[j] \in 1..DefinedBefore(p, Len(p) + 1)
                                 /\ Same(p, c, f, in[j], out[j])
    BY <2>1, <2>2 DEF Rewired
  <2>4. DOMAIN in = 1..Len(in) /\ DOMAIN out = 1..Len(in)
    BY <2>3, LenProperties
  <2>5. ASSUME NEW j \in 1..Len(in)
        PROVE  /\ Definers(p)[in[j]][1] \in 1..Len(p)
               /\ Definers(c)[out[j]] = <<f[Definers(p)[in[j]][1]], Definers(p)[in[j]][2]>>
    <3>1. PICK v, w, d, e : v = in[j] /\ w = out[j] /\ d = DefinerOf(p, v) /\ e = DefinerOf(c, w)
      OBVIOUS
    <3>2. /\ v \in 1..DefinedBefore(p, Len(p) + 1) /\ d \in 1..Len(p) /\ w \in Nat \ {0}
          /\ e = f[d] /\ w - DefinedBefore(c, e) = v - DefinedBefore(p, d)
          /\ w <= DefinedBefore(c, e + 1)
      BY <2>3, <3>1 DEF Same
    <3>3. Definers(p)[v] = <<d, v - DefinedBefore(p, d)>>
      BY <3>1, <3>2, DefinersAre
    <3>4. e \in 1..Len(c)
      BY <1>1, <3>2, PlaceFacts DEF Placed
    <3>5. e + 1 \in 1..(Len(c) + 1) /\ Len(c) + 1 \in 1..(Len(c) + 1)
      BY <1>1, <3>4
    <3>6. DefinedBefore(c, e + 1) <= DefinedBefore(c, Len(c) + 1)
      BY <3>5, DefinedGrows
    <3>7. DefinedBefore(c, e + 1) \in Nat /\ DefinedBefore(c, Len(c) + 1) \in Nat
      BY <3>5, SlotsFinite
    <3>8. w \in 1..DefinedBefore(c, Len(c) + 1)
      <4>1. PICK x, y : x = DefinedBefore(c, e + 1) /\ y = DefinedBefore(c, Len(c) + 1)
        OBVIOUS
      <4>2. w \in Nat /\ w # 0 /\ w <= x /\ x <= y /\ x \in Nat /\ y \in Nat
        BY <3>2, <3>6, <3>7, <4>1
      <4>3. w \in 1..y
        BY <4>2
      <4>4. QED
        BY <4>1, <4>3
    <3>9. Definers(c)[w] = <<e, w - DefinedBefore(c, e)>>
      BY <3>1, <3>8, DefinersAre
    <3>10. Definers(c)[w] = <<f[d], v - DefinedBefore(p, d)>>
      BY <3>2, <3>9
    <3>11. QED
      BY <3>1, <3>2, <3>3, <3>10
  <2>6. QED
    BY <2>1, <2>2, <2>4, <2>5
<1>3. QED
  BY <1>2 DEF Traced

LEMMA TracedIsEmbedded ==
  ASSUME NEW p \in Seq(Instruction), NEW c, NEW f, Traced(p, c, f), NEW place,
         \A k \in 1..Len(p) : place[k] = f[k]
  PROVE  Embedded(p, c, place)
<1>1. DOMAIN p = 1..Len(p)
  BY ProgramFacts
<1>2. ASSUME NEW k \in DOMAIN p
      PROVE  /\ c[place[k]].operation = p[k].operation
             /\ DOMAIN c[place[k]].inputs = DOMAIN p[k].inputs
             /\ \A j \in DOMAIN p[k].inputs :
                  Definers(c)[c[place[k]].inputs[j]]
                    = <<place[Definers(p)[p[k].inputs[j]][1]], Definers(p)[p[k].inputs[j]][2]>>
  <2>1. k \in 1..Len(p) /\ place[k] = f[k]
    BY <1>1
  <2>2. /\ c[f[k]].operation = p[k].operation
        /\ DOMAIN c[f[k]].inputs = DOMAIN p[k].inputs
    BY <2>1 DEF Traced
  <2>3. ASSUME NEW j \in DOMAIN p[k].inputs
        PROVE  Definers(c)[c[f[k]].inputs[j]]
                 = <<place[Definers(p)[p[k].inputs[j]][1]], Definers(p)[p[k].inputs[j]][2]>>
    <3>1. PICK s : s = Definers(p)[p[k].inputs[j]]
      OBVIOUS
    <3>2. s[1] \in 1..Len(p) /\ Definers(c)[c[f[k]].inputs[j]] = <<f[s[1]], s[2]>>
      BY <2>1, <3>1 DEF Traced
    <3>3. place[s[1]] = f[s[1]]
      BY <3>2
    <3>4. QED
      BY <3>1, <3>2, <3>3
  <2>4. QED
    BY <2>1, <2>2, <2>3
<1>3. QED
  BY <1>2 DEF Embedded

-----------------------------------------------------------------------------
(* The input stays valid, and so is whatever is made of it. *)

MutInv == Valid(input) /\ CandidatesAreValid /\ DataflowKept

LEMMA ValidIsValidated ==
  ASSUME NEW p \in Seq(Instruction) PROVE Valid(p) <=> Validates(p)
  BY ValidatesExactlyValid DEF Valid

LEMMA MutInvInit == MutationInit => MutInv
<1> SUFFICES ASSUME MutationInit PROVE MutInv
  OBVIOUS
<1>1. Valid(input)
  BY CorpusAssumption, ValidIsValidated DEF MutationInit
<1>2. ~Made
  BY DEF MutationInit, Made
<1>3. QED
  BY <1>1, <1>2 DEF MutInv, CandidatesAreValid, DataflowKept

LEMMA SkipKeeps == ASSUME MutInv, Skip PROVE MutInv'
<1>1. Valid(input)' /\ ~Made'
  BY DEF Skip, MutInv, Made, Valid
<1>2. QED
  BY <1>1 DEF MutInv, CandidatesAreValid, DataflowKept

\* What is offered is valid, so it is validated, kept or not.
LEMMA OfferKeepsValid ==
  ASSUME MutInv, NEW c, Valid(c), NEW how, Offer(c, how)
  PROVE  /\ Valid(input)' /\ CandidatesAreValid'
         /\ last'.candidate = c /\ last'.before = input /\ last'.how = how
<1>1. last'.candidate = c /\ last'.before = input /\ last'.how = how
  BY DEF Offer
<1>2. Validates(c)
  BY ValidIsValidated DEF Valid
<1>3. Valid(input)'
  BY DEF Offer, MutInv, Valid
<1>4. CandidatesAreValid'
  BY <1>1, <1>2 DEF CandidatesAreValid
<1>5. QED
  BY <1>1, <1>3, <1>4

LEMMA OfferKeeps ==
  ASSUME MutInv, NEW c, Valid(c), NEW how, Offer(c, how),
         how.mutator # "generator", how.mutator # "splice"
  PROVE  MutInv'
<1>1. Valid(input)' /\ CandidatesAreValid' /\ last'.how = how
  BY OfferKeepsValid
<1>2. DataflowKept'
  BY <1>1 DEF DataflowKept
<1>3. QED
  BY <1>1, <1>2 DEF MutInv

LEMMA MutateInputKeeps == ASSUME MutInv, MutateInput PROVE MutInv'
<1>1. CASE Skip
  BY <1>1, SkipKeeps
<1>2. CASE ~Skip
  <2>1. PICK how : how = [mutator |-> "input"]
    OBVIOUS
  <2>2. PICK k \in DOMAIN input :
             \E slot \in DOMAIN input[k].inputs :
               \E v \in Replacements(input, k, input[k].inputs[slot]) :
                 Offer([input EXCEPT ![k].inputs[slot] = v], how)
    BY <1>2, <2>1 DEF MutateInput
  <2>3. PICK slot \in DOMAIN input[k].inputs :
          \E v \in Replacements(input, k, input[k].inputs[slot]) :
            Offer([input EXCEPT ![k].inputs[slot] = v], how)
    BY <2>2
  <2>4. PICK v \in Replacements(input, k, input[k].inputs[slot]) :
          Offer([input EXCEPT ![k].inputs[slot] = v], how)
    BY <2>3
  <2>5. PICK c : c = [input EXCEPT ![k].inputs[slot] = v]
    OBVIOUS
  <2>6. Valid(input) /\ k \in 1..Len(input)
    BY ValidFacts DEF MutInv
  <2>7. Valid(c)
    BY <2>5, <2>6, RewiredIsValid
  <2>8. Offer(c, how) /\ how.mutator = "input"
    BY <2>1, <2>4, <2>5
  <2>9. QED
    BY <2>7, <2>8, OfferKeeps
<1>3. QED
  BY <1>1, <1>2

LEMMA MutateOperationKeeps == ASSUME MutInv, MutateOperation PROVE MutInv'
<1>1. CASE Skip
  BY <1>1, SkipKeeps
<1>2. CASE ~Skip
  <2>1. PICK how : how = [mutator |-> "operation"]
    OBVIOUS
  <2>2. PICK k \in DOMAIN input :
             \E op \in Rewrites(input[k].operation) :
               Offer([input EXCEPT ![k].operation = op], how)
    BY <1>2, <2>1 DEF MutateOperation
  <2>3. PICK op \in Rewrites(input[k].operation) : Offer([input EXCEPT ![k].operation = op], how)
    BY <2>2
  <2>4. PICK c : c = [input EXCEPT ![k].operation = op]
    OBVIOUS
  <2>5. Valid(input) /\ k \in 1..Len(input)
    BY ValidFacts DEF MutInv
  <2>6. Valid(c)
    BY <2>4, <2>5, RewrittenIsValid
  <2>7. Offer(c, how) /\ how.mutator = "operation"
    BY <2>1, <2>3, <2>4
  <2>8. QED
    BY <2>6, <2>7, OfferKeeps
<1>3. QED
  BY <1>1, <1>2

LEMMA SpliceKeeps == ASSUME MutInv, Splice PROVE MutInv'
<1>1. CASE Skip
  BY <1>1, SkipKeeps
<1>2. CASE ~Skip
  <2>1. PICK id \in DOMAIN Corpus :
          Offer(Spliced(input, Corpus[id].program),
                [mutator |-> "splice", other |-> Corpus[id].program])
    BY <1>2 DEF Splice
  <2>2. PICK p, other, c, how : /\ p = input /\ other = Corpus[id].program
                                /\ c = Spliced(p, other)
                                /\ how = [mutator |-> "splice", other |-> other]
    OBVIOUS
  <2>3. Valid(p) /\ Valid(other)
    BY <2>2, CorpusAssumption, ValidIsValidated DEF MutInv
  <2>4. /\ Valid(c) /\ Placed(p, c, Stay(Len(p)))
        /\ Placed(other, c, Place(0, Len(p), Len(other)))
    BY <2>2, <2>3, SplicedIsValid
  <2>5. Offer(c, how) /\ how.mutator = "splice" /\ how.other = other
    BY <2>1, <2>2
  <2>6. /\ Valid(input)' /\ CandidatesAreValid'
        /\ last'.candidate = c /\ last'.before = p /\ last'.how = how
    BY <2>2, <2>4, <2>5, OfferKeepsValid
  <2>7. PICK f, g : f = Stay(Len(p)) /\ g = Place(0, Len(p), Len(other))
    OBVIOUS
  <2>8. Traced(p, c, f) /\ Traced(other, c, g)
    BY <2>3, <2>4, <2>7, PlacedIsTraced DEF Valid
  <2>9. /\ DOMAIN p = 1..Len(p) /\ DOMAIN other = 1..Len(other)
        /\ \A k \in 1..Len(p) : f[k] = k
        /\ \A k \in 1..Len(other) : g[k] = k + Len(p)
    <3>1. /\ DOMAIN p = 1..Len(p) /\ DOMAIN other = 1..Len(other) /\ Len(p) \in Nat
          /\ Len(other) \in Nat
      BY <2>3, ValidFacts
    <3>2. \A k \in 1..Len(p) : k \in 0..Len(p)
      BY <3>1
    <3>3. \A k \in 1..Len(other) : k \in 0..Len(other) /\ ~(k <= 0)
      BY <3>1
    <3>4. QED
      BY <2>7, <3>1, <3>2, <3>3 DEF Stay, Place
  <2>10. Embedded(p, c, [k \in DOMAIN p |-> k])
    <3>1. PICK place : place = [k \in DOMAIN p |-> k]
      OBVIOUS
    <3>2. \A k \in 1..Len(p) : place[k] = f[k]
      BY <2>9, <3>1
    <3>3. QED
      BY <2>3, <2>8, <3>1, <3>2, TracedIsEmbedded DEF Valid
  <2>11. Embedded(other, c, [k \in DOMAIN other |-> k + Len(p)])
    <3>1. PICK place : place = [k \in DOMAIN other |-> k + Len(p)]
      OBVIOUS
    <3>2. \A k \in 1..Len(other) : place[k] = g[k]
      BY <2>9, <3>1
    <3>3. QED
      BY <2>3, <2>8, <3>1, <3>2, TracedIsEmbedded DEF Valid
  <2>12. DataflowKept'
    BY <2>5, <2>6, <2>10, <2>11 DEF DataflowKept
  <2>13. QED
    BY <2>6, <2>12 DEF MutInv
<1>3. QED
  BY <1>1, <1>2

LEMMA GenerateKeeps ==
  ASSUME MutInv, NEW g \in {"setup", "adversarial", "raw_frame"}, Generate(g)
  PROVE  MutInv'
<1>1. CASE Skip
  BY <1>1, SkipKeeps
<1>2. CASE ~Skip
  <2>1. PICK n \in Points(input) :
          \E f \in Fragments(g, FromPrefix(SubSeq(input, 1, n))) :
            /\ FromPrefix(SubSeq(input, 1, n) \o f.code).accepted
            /\ Offer(Inserted(input, n, f.code),
                     [mutator |-> "generator", kind |-> f.kind, at |-> n, length |-> Len(f.code)])
    BY <1>2 DEF Generate
  <2>2. PICK f \in Fragments(g, FromPrefix(SubSeq(input, 1, n))) :
          /\ FromPrefix(SubSeq(input, 1, n) \o f.code).accepted
          /\ Offer(Inserted(input, n, f.code),
                   [mutator |-> "generator", kind |-> f.kind, at |-> n, length |-> Len(f.code)])
    BY <2>1
  <2>3. PICK p, code, len, c, how :
          /\ p = input /\ code = f.code /\ len = Len(code) /\ c = Inserted(p, n, code)
          /\ how = [mutator |-> "generator", kind |-> f.kind, at |-> n, length |-> len]
    OBVIOUS
  <2>4. Valid(p) /\ n \in Points(p) /\ n \in 0..Len(p)
    BY <2>2, <2>3 DEF MutInv, Points
  <2>5. Net(code, 0)
    BY <2>2, <2>3, <2>4, FragmentIsClosed
  <2>6. Valid(c) /\ Placed(p, c, Place(n, Len(code), Len(p)))
    BY <2>2, <2>3, <2>4, <2>5, GeneratedIsValid DEF Net
  <2>7. Offer(c, how) /\ how.mutator = "generator" /\ how.at = n /\ how.length = len
    BY <2>2, <2>3
  <2>8. /\ Valid(input)' /\ CandidatesAreValid'
        /\ last'.candidate = c /\ last'.before = p /\ last'.how = how
    BY <2>3, <2>6, <2>7, OfferKeepsValid
  <2>9. PICK h : h = Place(n, len, Len(p))
    OBVIOUS
  <2>10. Traced(p, c, h)
    BY <2>3, <2>4, <2>6, <2>9, PlacedIsTraced DEF Valid
  <2>11. /\ DOMAIN p = 1..Len(p)
         /\ \A k \in 1..Len(p) : h[k] = IF k <= n THEN k ELSE k + len
    <3>1. DOMAIN p = 1..Len(p) /\ Len(p) \in Nat
      BY <2>4, ValidFacts
    <3>2. \A k \in 1..Len(p) : k \in 0..Len(p)
      BY <3>1
    <3>3. QED
      BY <2>9, <3>1, <3>2 DEF Place
  <2>12. Embedded(p, c, [k \in DOMAIN p |-> IF k <= n THEN k ELSE k + len])
    <3>1. PICK place : place = [k \in DOMAIN p |-> IF k <= n THEN k ELSE k + len]
      OBVIOUS
    <3>2. \A k \in 1..Len(p) : place[k] = h[k]
      BY <2>11, <3>1
    <3>3. QED
      BY <2>4, <2>10, <3>1, <3>2, TracedIsEmbedded DEF Valid
  <2>13. DataflowKept'
    BY <2>7, <2>8, <2>12 DEF DataflowKept
  <2>14. QED
    BY <2>8, <2>13 DEF MutInv
<1>3. QED
  BY <1>1, <1>2

LEMMA MutInvNext == MutInv /\ [MutationNext]_mutation_vars => MutInv'
<1> SUFFICES ASSUME MutInv, [MutationNext]_mutation_vars PROVE MutInv'
  OBVIOUS
<1>1. CASE UNCHANGED mutation_vars
  <2>1. input' = input /\ last' = last
    BY <1>1 DEF mutation_vars
  <2>2. Valid(input)' /\ CandidatesAreValid'
    BY <2>1 DEF MutInv, Valid, CandidatesAreValid, Made
  <2>3. DataflowKept'
    BY <2>1 DEF MutInv, DataflowKept, Made
  <2>4. QED
    BY <2>2, <2>3 DEF MutInv
<1>2. CASE MutationNext
  BY <1>2, MutateInputKeeps, MutateOperationKeeps, SpliceKeeps, GenerateKeeps
     DEF MutationNext, InsertSetup, InsertAdversarial, InsertRawFrame
<1>3. QED
  BY <1>1, <1>2

LEMMA MutInvHolds == MutationSpec => []MutInv
  BY MutInvInit, MutInvNext, PTL DEF MutationSpec

\* Whatever is mutated, spliced or generated, in whatever order and however often, from valid corpus
\* entries of any length, is a statically valid program: no candidate is refused when it is built
\* again (mutators.rs:189-198, concat.rs:32-40, tests/mutation.rs:33-34).
THEOREM MutatorsMakeValidPrograms == MutationSpec => []CandidatesAreValid
<1>1. MutInv => CandidatesAreValid
  BY DEF MutInv
<1>2. QED
  BY <1>1, MutInvHolds, PTL

\* What was there before a splice or a generator is still there, in order, each instruction reading
\* the variables of the same instructions as before although they were renumbered
\* (mutators.rs:189-198, concat.rs:32-40).
THEOREM MutatorsKeepDataflow == MutationSpec => []DataflowKept
<1>1. MutInv => DataflowKept
  BY DEF MutInv
<1>2. QED
  BY <1>1, MutInvHolds, PTL

-----------------------------------------------------------------------------
(***************************************************************************)
(* A generated setup breaks the rule it was made to break and no other.    *)
(* Its code is found in the candidate as it was generated (SetupAt), its   *)
(* variables numbered by what is defined before it.  What uses its message *)
(* comes after the instruction that begins it, and what uses its           *)
(* connection after the instruction that opens it, so that nothing of the  *)
(* program around it is taken for a part of it.                            *)
(***************************************************************************)

\* The code s stands in c after its first g instructions.
PartAt(c, g, s) == \A i \in 1..Len(s) : c[g + i] = s[i]

LEMMA PartsAt ==
  ASSUME NEW s \in Seq(Instruction), NEW t \in Seq(Instruction), NEW c, NEW g \in Nat,
         PartAt(c, g, s \o t)
  PROVE  PartAt(c, g, s) /\ PartAt(c, g + Len(s), t)
<1>1. PICK u, a, b : u = s \o t /\ a = Len(s) /\ b = Len(t)
  OBVIOUS
<1>2. a \in Nat /\ b \in Nat
  BY <1>1, LenProperties
<1>3. Len(u) = a + b /\ \A i \in 1..(a + b) : u[i] = IF i <= a THEN s[i] ELSE t[i - a]
  BY <1>1, ConcatIs DEF Joined
<1>4. \A i \in 1..(a + b) : c[g + i] = u[i]
  BY <1>1, <1>3 DEF PartAt
<1>5. ASSUME NEW i \in 1..a PROVE c[g + i] = s[i]
  <2>1. i \in 1..(a + b) /\ i <= a
    BY <1>2
  <2>2. QED
    BY <1>3, <1>4, <2>1
<1>6. ASSUME NEW i \in 1..b PROVE c[(g + a) + i] = t[i]
  <2>1. PICK k : k = a + i
    OBVIOUS
  <2>2. k \in 1..(a + b) /\ ~(k <= a) /\ k - a = i /\ g + k = (g + a) + i
    BY <1>2, <2>1
  <2>3. c[g + k] = u[k] /\ u[k] = t[i]
    BY <1>3, <1>4, <2>2
  <2>4. QED
    BY <2>2, <2>3
<1>7. QED
  BY <1>1, <1>5, <1>6 DEF PartAt

\* How many variables each operation of a generator defines, and how many inputs those have that
\* the property looks for.
LEMMA GeneratedDefines ==
  /\ \A x : /\ Defines(LoadRole(x)) = 1 /\ Defines(LoadVersion(x)) = 1
            /\ Defines(LoadFlags(x)) = 1 /\ Defines(LoadStr(x)) = 1
            /\ Defines(WithProtocol("EndBuildSetupConnection", x)) = 1
            /\ Defines(WithProtocol("SendSetupConnection", x)) = 1
  /\ \A n \in {"LoadPort", "LoadBytes", "Connect", "BeginBuildSetupConnection"} :
       Defines(Plain(n)) = 1
  /\ \A n \in {"SetVersions", "SetFlags", "SetEndpoint", "SetDeviceInfo", "SendRawFrame"} :
       Defines(Plain(n)) = 0
  BY DEF Defines, OutputVariables, InnerOutputVariables, LoadRole, LoadVersion, LoadFlags,
         LoadStr, WithProtocol, Plain

LEMMA SendersHaveInputs ==
  ASSUME NEW op, op.name \in {"SetVersions", "SetFlags", "SendRawFrame", "SendSetupConnection"}
  PROVE  1 \in 1..Len(InputVariables(op))
  BY DEF InputVariables

LEMMA DefinesAt ==
  ASSUME NEW c \in Seq(Instruction), NEW k \in 1..Len(c)
  PROVE  /\ DefinedBefore(c, k) \in Nat
         /\ DefinedBefore(c, k + 1) = DefinedBefore(c, k) + Defines(c[k].operation)
<1>1. k \in 1..(Len(c) + 1)
  BY ProgramFacts
<1>2. QED
  BY <1>1, SlotsFinite, DefinedSteps

\* m instructions after the first g that only fill the message in, defining d variables.
Fillers == {"LoadStr", "LoadPort", "SetEndpoint", "SetDeviceInfo"}

Filling(c, g, m, d) ==
  /\ \A k \in (g + 1)..(g + m) : c[k].operation.name \in Fillers
  /\ DefinedBefore(c, g + m + 1) = DefinedBefore(c, g + 1) + d

LEMMA EndpointFills ==
  ASSUME NEW c \in Seq(Instruction), NEW g \in Nat, g + 3 <= Len(c), NEW n,
         PartAt(c, g, SetupEndpoint(n))
  PROVE  Filling(c, g, 3, 2)
<1>1. Len(c) \in Nat /\ g + 1 \in 1..Len(c) /\ g + 2 \in 1..Len(c) /\ g + 3 \in 1..Len(c)
  BY ProgramFacts
<1>2. PICK s : s = SetupEndpoint(n)
  OBVIOUS
<1>3. /\ Len(s) = 3 /\ s[1] = Instr(LoadStr(FALSE), << >>)
      /\ s[2] = Instr(Plain("LoadPort"), << >>)
      /\ s[3] = Instr(Plain("SetEndpoint"), <<n + 3, n + 4, n + 5>>)
  BY <1>2 DEF SetupEndpoint
<1>4. 1 \in 1..3 /\ 2 \in 1..3 /\ 3 \in 1..3
  OBVIOUS
<1>5. c[g + 1] = s[1] /\ c[g + 2] = s[2] /\ c[g + 3] = s[3]
  BY <1>2, <1>3, <1>4 DEF PartAt
<1>6. /\ c[g + 1].operation = LoadStr(FALSE) /\ c[g + 2].operation = Plain("LoadPort")
      /\ c[g + 3].operation = Plain("SetEndpoint")
  BY <1>3, <1>5 DEF Instr
<1>7. \A k \in (g + 1)..(g + 3) : k = g + 1 \/ k = g + 2 \/ k = g + 3
  OBVIOUS
<1>8. \A k \in (g + 1)..(g + 3) : c[k].operation.name \in Fillers
  BY <1>6, <1>7 DEF Fillers, LoadStr, Plain
<1>9. PICK x, y, z : x = g + 1 /\ y = g + 2 /\ z = g + 3
  OBVIOUS
<1>10. x + 1 = y /\ y + 1 = z /\ z + 1 = g + 3 + 1 /\ {x, y, z} \subseteq 1..Len(c)
  BY <1>1, <1>9
<1>11. /\ DefinedBefore(c, x) \in Nat /\ DefinedBefore(c, y) = DefinedBefore(c, x) + 1
       /\ DefinedBefore(c, z) = DefinedBefore(c, y) + 1
       /\ DefinedBefore(c, z + 1) = DefinedBefore(c, z) + 0
  <2>1. /\ Defines(c[x].operation) = 1 /\ Defines(c[y].operation) = 1
        /\ Defines(c[z].operation) = 0
    BY <1>6, <1>9, GeneratedDefines
  <2>2. QED
    BY <1>10, <2>1, DefinesAt
<1>12. DefinedBefore(c, g + 3 + 1) = DefinedBefore(c, g + 1) + 2
  BY <1>9, <1>10, <1>11
<1>13. QED
  BY <1>8, <1>12 DEF Filling

LEMMA DeviceFills ==
  ASSUME NEW c \in Seq(Instruction), NEW g \in Nat, g + 5 <= Len(c), NEW n, NEW vendor,
         PartAt(c, g, SetupDevice(n, vendor))
  PROVE  Filling(c, g, 5, 4)
<1>1. /\ Len(c) \in Nat /\ g + 1 \in 1..Len(c) /\ g + 2 \in 1..Len(c) /\ g + 3 \in 1..Len(c)
      /\ g + 4 \in 1..Len(c) /\ g + 5 \in 1..Len(c)
  BY ProgramFacts
<1>2. PICK s : s = SetupDevice(n, vendor)
  OBVIOUS
<1>3. /\ Len(s) = 5 /\ s[1] = Instr(LoadStr(FALSE), << >>) /\ s[2] = Instr(LoadStr(FALSE), << >>)
      /\ s[3] = Instr(LoadStr(FALSE), << >>) /\ s[4] = Instr(LoadStr(FALSE), << >>)
      /\ s[5] = Instr(Plain("SetDeviceInfo"),
                      <<n + 3, vendor, vendor + 1, vendor + 2, vendor + 3>>)
  BY <1>2 DEF SetupDevice
<1>4. 1 \in 1..5 /\ 2 \in 1..5 /\ 3 \in 1..5 /\ 4 \in 1..5 /\ 5 \in 1..5
  OBVIOUS
<1>5. /\ c[g + 1] = s[1] /\ c[g + 2] = s[2] /\ c[g + 3] = s[3] /\ c[g + 4] = s[4]
      /\ c[g + 5] = s[5]
  BY <1>2, <1>3, <1>4 DEF PartAt
<1>6. /\ c[g + 1].operation = LoadStr(FALSE) /\ c[g + 2].operation = LoadStr(FALSE)
      /\ c[g + 3].operation = LoadStr(FALSE) /\ c[g + 4].operation = LoadStr(FALSE)
      /\ c[g + 5].operation = Plain("SetDeviceInfo")
  BY <1>3, <1>5 DEF Instr
<1>7. ASSUME NEW i \in 1..5 PROVE c[g + i].operation.name \in Fillers
  <2>1. i = 1 \/ i = 2 \/ i = 3 \/ i = 4 \/ i = 5
    OBVIOUS
  <2>2. QED
    BY <1>6, <2>1 DEF Fillers, LoadStr, Plain
<1>8. ASSUME NEW k \in (g + 1)..(g + 5) PROVE c[k].operation.name \in Fillers
  <2>1. PICK i : i = k - g
    OBVIOUS
  <2>2. i \in 1..5 /\ g + i = k
    BY <2>1
  <2>3. QED
    BY <1>7, <2>2
<1>9. PICK x, y, z, u, w : x = g + 1 /\ y = g + 2 /\ z = g + 3 /\ u = g + 4 /\ w = g + 5
  OBVIOUS
<1>10. /\ x + 1 = y /\ y + 1 = z /\ z + 1 = u /\ u + 1 = w /\ w + 1 = g + 5 + 1
       /\ {x, y, z, u, w} \subseteq 1..Len(c)
  BY <1>1, <1>9
<1>11. /\ DefinedBefore(c, x) \in Nat /\ DefinedBefore(c, y) = DefinedBefore(c, x) + 1
       /\ DefinedBefore(c, z) = DefinedBefore(c, y) + 1
       /\ DefinedBefore(c, u) = DefinedBefore(c, z) + 1
       /\ DefinedBefore(c, w) = DefinedBefore(c, u) + 1
       /\ DefinedBefore(c, w + 1) = DefinedBefore(c, w) + 0
  <2>1. /\ Defines(c[x].operation) = 1 /\ Defines(c[y].operation) = 1
        /\ Defines(c[z].operation) = 1 /\ Defines(c[u].operation) = 1
        /\ Defines(c[w].operation) = 0
    BY <1>6, <1>9, GeneratedDefines
  <2>2. QED
    BY <1>10, <2>1, DefinesAt
<1>12. DefinedBefore(c, g + 5 + 1) = DefinedBefore(c, g + 1) + 4
  BY <1>9, <1>10, <1>11
<1>13. QED
  BY <1>8, <1>12 DEF Filling

LEMMA NothingFills ==
  ASSUME NEW c \in Seq(Instruction), NEW g \in Nat, g < Len(c)
  PROVE  Filling(c, g, 0, 0)
<1>1. Len(c) \in Nat /\ g + 1 \in 1..Len(c) /\ g + 0 + 1 = g + 1 /\ (g + 1)..(g + 0) = {}
  BY ProgramFacts
<1>2. DefinedBefore(c, g + 1) \in Nat
  BY <1>1, DefinesAt
<1>3. QED
  BY <1>1, <1>2 DEF Filling

LEMMA FillingOn ==
  ASSUME NEW c, NEW g \in Nat, NEW m \in Nat, NEW d \in Nat, NEW k \in Nat, NEW e \in Nat,
         DefinedBefore(c, g + 1) \in Nat, Filling(c, g, m, d), Filling(c, g + m, k, e)
  PROVE  Filling(c, g, m + k, d + e)
<1>1. \A i \in (g + 1)..(g + (m + k)) : i \in (g + 1)..(g + m) \/ i \in (g + m + 1)..(g + m + k)
  OBVIOUS
<1>2. \A i \in (g + 1)..(g + (m + k)) : c[i].operation.name \in Fillers
  BY <1>1 DEF Filling
<1>3. /\ DefinedBefore(c, g + m + 1) = DefinedBefore(c, g + 1) + d
      /\ DefinedBefore(c, g + m + k + 1) = DefinedBefore(c, g + m + 1) + e
  BY DEF Filling
<1>4. g + m + k + 1 = g + (m + k) + 1
  OBVIOUS
<1>5. DefinedBefore(c, g + (m + k) + 1) = DefinedBefore(c, g + 1) + (d + e)
  BY <1>3, <1>4
<1>6. QED
  BY <1>2, <1>5 DEF Filling

\* The beginning of a setup's code stands in c after its first h instructions, its variables
\* numbered from n.
BeginsAt(c, h, n, min, max, flags) ==
  /\ c[h + 1].operation = LoadVersion(min)
  /\ c[h + 2].operation = LoadVersion(max)
  /\ c[h + 3].operation = LoadFlags(flags)
  /\ c[h + 4].operation = Plain("BeginBuildSetupConnection")
  /\ c[h + 5] = Instr(Plain("SetVersions"), <<n + 3, n, n + 1>>)
  /\ c[h + 6] = Instr(Plain("SetFlags"), <<n + 3, n + 2>>)
  /\ DefinedBefore(c, h + 1) = n - 1 /\ DefinedBefore(c, h + 2) = n
  /\ DefinedBefore(c, h + 3) = n + 1 /\ DefinedBefore(c, h + 4) = n + 2
  /\ DefinedBefore(c, h + 5) = n + 3 /\ DefinedBefore(c, h + 7) = n + 3

\* The end of it: the message is built and sent.
EndsAt(c, g, n, conn, p) ==
  /\ c[g + 1] = Instr(WithProtocol("EndBuildSetupConnection", p), <<n + 3>>)
  /\ c[g + 2] = Instr(WithProtocol("SendSetupConnection", p),
                      <<conn, DefinedBefore(c, g + 1) + 1>>)
  /\ DefinedBefore(c, g + 2) = DefinedBefore(c, g + 1) + 1
  /\ DefinedBefore(c, g + 3) = DefinedBefore(c, g + 1) + 2

\* A setup whose end comes after m instructions that fill it in.
SetupAt(c, h, m, n, conn, p, min, max, flags) ==
  /\ h \in Nat /\ m \in Nat /\ n \in Nat /\ n >= 1 /\ h + 8 + m <= Len(c)
  /\ BeginsAt(c, h, n, min, max, flags)
  /\ \A k \in (h + 7)..(h + 6 + m) : c[k].operation.name \in Fillers
  /\ EndsAt(c, h + 6 + m, n, conn, p)

LEMMA SetupBeginStands ==
  ASSUME NEW c \in Seq(Instruction), NEW h \in Nat, h + 6 <= Len(c), NEW n \in Nat, n >= 1,
         NEW min, NEW max, NEW flags, PartAt(c, h, SetupBegin(n, min, max, flags)),
         DefinedBefore(c, h + 1) = n - 1
  PROVE  BeginsAt(c, h, n, min, max, flags)
<1>1. Len(c) \in Nat
  BY ProgramFacts
<1>2. PICK s, v, f : /\ s = SetupBegin(n, min, max, flags)
                     /\ v = Instr(Plain("SetVersions"), <<n + 3, n, n + 1>>)
                     /\ f = Instr(Plain("SetFlags"), <<n + 3, n + 2>>)
  OBVIOUS
<1>3. /\ Len(s) = 6 /\ s[1] = Instr(LoadVersion(min), << >>)
      /\ s[2] = Instr(LoadVersion(max), << >>) /\ s[3] = Instr(LoadFlags(flags), << >>)
      /\ s[4] = Instr(Plain("BeginBuildSetupConnection"), << >>) /\ s[5] = v /\ s[6] = f
  BY <1>2 DEF SetupBegin
<1>4. 1 \in 1..6 /\ 2 \in 1..6 /\ 3 \in 1..6 /\ 4 \in 1..6 /\ 5 \in 1..6 /\ 6 \in 1..6
  OBVIOUS
<1>5. /\ c[h + 1] = s[1] /\ c[h + 2] = s[2] /\ c[h + 3] = s[3] /\ c[h + 4] = s[4]
      /\ c[h + 5] = s[5] /\ c[h + 6] = s[6]
  BY <1>2, <1>3, <1>4 DEF PartAt
<1>6. /\ c[h + 1].operation = LoadVersion(min) /\ c[h + 2].operation = LoadVersion(max)
      /\ c[h + 3].operation = LoadFlags(flags)
      /\ c[h + 4].operation = Plain("BeginBuildSetupConnection")
  BY <1>3, <1>5 DEF Instr
<1>7. /\ c[h + 5] = v /\ c[h + 6] = f
      /\ v.operation = Plain("SetVersions") /\ f.operation = Plain("SetFlags")
  BY <1>2, <1>3, <1>5 DEF Instr
<1>8. PICK a, b, d, e, x, y :
        a = h + 1 /\ b = h + 2 /\ d = h + 3 /\ e = h + 4 /\ x = h + 5 /\ y = h + 6
  OBVIOUS
<1>9. /\ a + 1 = b /\ b + 1 = d /\ d + 1 = e /\ e + 1 = x /\ x + 1 = y /\ y + 1 = h + 7
      /\ {a, b, d, e, x, y} \subseteq 1..Len(c)
  BY <1>1, <1>8
<1>10. /\ Defines(c[a].operation) = 1 /\ Defines(c[b].operation) = 1
       /\ Defines(c[d].operation) = 1 /\ Defines(c[e].operation) = 1
       /\ Defines(c[x].operation) = 0 /\ Defines(c[y].operation) = 0
  BY <1>6, <1>7, <1>8, GeneratedDefines
<1>11. /\ DefinedBefore(c, b) = DefinedBefore(c, a) + 1
       /\ DefinedBefore(c, d) = DefinedBefore(c, b) + 1
       /\ DefinedBefore(c, e) = DefinedBefore(c, d) + 1
       /\ DefinedBefore(c, x) = DefinedBefore(c, e) + 1
       /\ DefinedBefore(c, y) = DefinedBefore(c, x) + 0
       /\ DefinedBefore(c, y + 1) = DefinedBefore(c, y) + 0
  BY <1>9, <1>10, DefinesAt
<1>12. /\ DefinedBefore(c, b) = n /\ DefinedBefore(c, d) = n + 1 /\ DefinedBefore(c, e) = n + 2
       /\ DefinedBefore(c, x) = n + 3 /\ DefinedBefore(c, y + 1) = n + 3
  BY <1>8, <1>11
<1>13. DefinedBefore(c, h + 7) = n + 3
  BY <1>9, <1>12
<1>14. QED
  BY <1>2, <1>6, <1>7, <1>8, <1>12, <1>13 DEF BeginsAt

LEMMA SetupEndStands ==
  ASSUME NEW c \in Seq(Instruction), NEW g \in Nat, g + 2 <= Len(c), NEW n, NEW conn, NEW p,
         NEW message, PartAt(c, g, SetupEnd(n, conn, p, message)),
         message = DefinedBefore(c, g + 1) + 1
  PROVE  EndsAt(c, g, n, conn, p)
<1>1. Len(c) \in Nat
  BY ProgramFacts
<1>2. PICK s, e, f : /\ s = SetupEnd(n, conn, p, message)
                     /\ e = Instr(WithProtocol("EndBuildSetupConnection", p), <<n + 3>>)
                     /\ f = Instr(WithProtocol("SendSetupConnection", p), <<conn, message>>)
  OBVIOUS
<1>3. Len(s) = 2 /\ s[1] = e /\ s[2] = f
  BY <1>2 DEF SetupEnd
<1>4. 1 \in 1..2 /\ 2 \in 1..2
  OBVIOUS
<1>5. c[g + 1] = e /\ c[g + 2] = f
  BY <1>2, <1>3, <1>4 DEF PartAt
<1>6. PICK a, b : a = g + 1 /\ b = g + 2
  OBVIOUS
<1>7. a + 1 = b /\ b + 1 = g + 3 /\ {a, b} \subseteq 1..Len(c)
  BY <1>1, <1>6
<1>8. /\ e.operation = WithProtocol("EndBuildSetupConnection", p)
      /\ f.operation = WithProtocol("SendSetupConnection", p)
  BY <1>2 DEF Instr
<1>9. Defines(c[a].operation) = 1 /\ Defines(c[b].operation) = 1
  BY <1>5, <1>6, <1>8, GeneratedDefines
<1>10. /\ DefinedBefore(c, a) \in Nat /\ DefinedBefore(c, b) = DefinedBefore(c, a) + 1
       /\ DefinedBefore(c, b + 1) = DefinedBefore(c, b) + 1
  BY <1>7, <1>9, DefinesAt
<1>11. DefinedBefore(c, b + 1) = DefinedBefore(c, a) + 2
  BY <1>10
<1>12. QED
  BY <1>2, <1>5, <1>6, <1>7, <1>10, <1>11 DEF EndsAt

LEMMA LengthsAdd ==
  ASSUME NEW s \in Seq(Instruction), NEW t \in Seq(Instruction)
  PROVE  s \o t \in Seq(Instruction) /\ Len(s \o t) = Len(s) + Len(t)
  BY ConcatIs DEF Joined

LEMMA SetupStands ==
  ASSUME NEW c \in Seq(Instruction), NEW h \in Nat, NEW n \in Nat, n >= 1, NEW conn \in Nat,
         NEW p \in Protocols, NEW min \in Versions, NEW max \in Versions,
         NEW flags \in SUBSET Flags, NEW shape,
         PartAt(c, h, Setup(n, conn, p, min, max, flags, shape)),
         h + Len(Setup(n, conn, p, min, max, flags, shape)) <= Len(c),
         DefinedBefore(c, h + 1) = n - 1
  PROVE  \E m \in Nat :
           /\ Len(Setup(n, conn, p, min, max, flags, shape)) = 8 + m
           /\ SetupAt(c, h, m, n, conn, p, min, max, flags)
           /\ DefinedBefore(c, h + 8 + m + 1) = n - 1 + SetupDefines(shape)
<1>1. PICK s, l, vendor, message, a, b, d, e :
        /\ s = Setup(n, conn, p, min, max, flags, shape) /\ l = Len(s)
        /\ vendor = (IF "endpoint" \in shape THEN n + 6 ELSE n + 4)
        /\ message = n + SetupDefines(shape) - 2
        /\ a = SetupBegin(n, min, max, flags)
        /\ b = (IF "endpoint" \in shape THEN SetupEndpoint(n) ELSE << >>)
        /\ d = (IF "device" \in shape THEN SetupDevice(n, vendor) ELSE << >>)
        /\ e = SetupEnd(n, conn, p, message)
  OBVIOUS
<1>2. PICK lb, ld, vb, vd : /\ lb = (IF "endpoint" \in shape THEN 3 ELSE 0)
                            /\ vb = (IF "endpoint" \in shape THEN 2 ELSE 0)
                            /\ ld = (IF "device" \in shape THEN 5 ELSE 0)
                            /\ vd = (IF "device" \in shape THEN 4 ELSE 0)
  OBVIOUS
<1>3. lb \in Nat /\ ld \in Nat /\ vb \in Nat /\ vd \in Nat /\ SetupDefines(shape) = 6 + vb + vd
  BY <1>2 DEF SetupDefines
<1>4. vendor \in Nat /\ message = n + 4 + vb + vd /\ message \in Nat
  BY <1>1, <1>3
<1>5. /\ a \in Seq(Instruction) /\ b \in Seq(Instruction) /\ d \in Seq(Instruction)
      /\ e \in Seq(Instruction)
  <2>1. /\ Net(a, 1) /\ Net(SetupEndpoint(n), 0) /\ Net(SetupDevice(n, vendor), 0) /\ Net(e, -1)
    BY <1>1, <1>4, SetupParts
  <2>2. << >> \in Seq(Instruction)
    OBVIOUS
  <2>3. SetupEndpoint(n) \in Seq(Instruction) /\ SetupDevice(n, vendor) \in Seq(Instruction)
    BY <2>1 DEF Net
  <2>4. b \in Seq(Instruction) /\ d \in Seq(Instruction)
    BY <1>1, <2>2, <2>3
  <2>5. QED
    BY <2>1, <2>4 DEF Net
<1>6. s = ((a \o b) \o d) \o e
  BY <1>1, SetupIs, Zenon
<1>7. PICK u, w : u = a \o b /\ w = u \o d
  OBVIOUS
<1>8. Len(a) = 6 /\ Len(b) = lb /\ Len(d) = ld /\ Len(e) = 2
  <2>1. Len(a) = 6
    BY <1>1 DEF SetupBegin
  <2>2. Len(b) = lb
    BY <1>1, <1>2 DEF SetupEndpoint
  <2>3. Len(d) = ld
    BY <1>1, <1>2 DEF SetupDevice
  <2>4. Len(e) = 2
    BY <1>1 DEF SetupEnd
  <2>5. QED
    BY <2>1, <2>2, <2>3, <2>4
<1>9. /\ u \in Seq(Instruction) /\ Len(u) = 6 + lb /\ w \in Seq(Instruction)
      /\ Len(w) = (6 + lb) + ld /\ s = w \o e /\ l = ((6 + lb) + ld) + 2
  <2>1. u \in Seq(Instruction) /\ Len(u) = 6 + lb
    <3>1. u = a \o b
      BY <1>7
    <3>2. a \o b \in Seq(Instruction) /\ Len(a \o b) = Len(a) + Len(b)
      BY <1>5, LengthsAdd
    <3>3. QED
      BY <1>8, <3>1, <3>2
  <2>2. w \in Seq(Instruction) /\ Len(w) = (6 + lb) + ld
    <3>1. w = u \o d
      BY <1>7
    <3>2. u \o d \in Seq(Instruction) /\ Len(u \o d) = Len(u) + Len(d)
      BY <1>5, <2>1, LengthsAdd
    <3>3. QED
      BY <1>8, <2>1, <3>1, <3>2
  <2>3. s = w \o e
    BY <1>6, <1>7
  <2>4. Len(s) = ((6 + lb) + ld) + 2
    BY <1>5, <1>8, <2>2, <2>3, LengthsAdd
  <2>5. QED
    BY <1>1, <2>1, <2>2, <2>3, <2>4
<1>10. PICK x, y, m : x = h + 6 /\ y = h + 6 + m /\ m = lb + ld
  OBVIOUS
<1>11. PartAt(c, h, a) /\ PartAt(c, x, b) /\ PartAt(c, x + lb, d) /\ PartAt(c, y, e)
  <2>1. PartAt(c, h, w \o e)
    BY <1>1, <1>9
  <2>2. PartAt(c, h, w) /\ PartAt(c, h + ((6 + lb) + ld), e)
    BY <1>5, <1>9, <2>1, PartsAt
  <2>3. PartAt(c, h, u) /\ PartAt(c, h + (6 + lb), d)
    BY <1>5, <1>7, <1>9, <2>2, PartsAt
  <2>4. PartAt(c, h, a) /\ PartAt(c, h + 6, b)
    BY <1>5, <1>7, <1>8, <2>3, PartsAt
  <2>5. h + ((6 + lb) + ld) = y /\ h + (6 + lb) = x + lb
    BY <1>3, <1>10
  <2>6. QED
    BY <1>10, <2>2, <2>3, <2>4, <2>5
<1>12. PICK len : len = Len(c)
  OBVIOUS
<1>13. len \in Nat /\ h + l <= len /\ l = 8 + m /\ m \in Nat
  <2>1. len \in Nat
    BY <1>12, ProgramFacts
  <2>2. h + l <= len
    BY <1>1, <1>12
  <2>3. l = 8 + m /\ m \in Nat
    BY <1>3, <1>9, <1>10
  <2>4. QED
    BY <2>1, <2>2, <2>3
<1>14. /\ x \in Nat /\ y \in Nat /\ x + m = y /\ h + 6 <= len /\ x + lb \in Nat /\ y + 2 <= len
       /\ x + 1 = h + 7 /\ h + 8 + m <= len
  BY <1>3, <1>10, <1>13
<1>15. BeginsAt(c, h, n, min, max, flags)
  <2>1. PartAt(c, h, SetupBegin(n, min, max, flags)) /\ h + 6 <= Len(c)
    BY <1>1, <1>11, <1>12, <1>14
  <2>2. QED
    BY <2>1, SetupBeginStands
<1>16. Filling(c, x, lb, vb)
  <2>1. CASE "endpoint" \in shape
    <3>1. lb = 3 /\ vb = 2 /\ x + 3 <= len
      BY <1>2, <1>3, <1>10, <1>13, <2>1
    <3>2. QED
      BY <1>1, <1>11, <1>12, <1>14, <2>1, <3>1, EndpointFills
  <2>2. CASE "endpoint" \notin shape
    <3>1. lb = 0 /\ vb = 0 /\ x < len
      BY <1>2, <1>3, <1>10, <1>13, <2>2
    <3>2. QED
      BY <1>12, <1>14, <3>1, NothingFills
  <2>3. QED
    BY <2>1, <2>2
<1>17. Filling(c, x + lb, ld, vd)
  <2>1. CASE "device" \in shape
    <3>1. ld = 5 /\ vd = 4 /\ (x + lb) + 5 <= len
      BY <1>2, <1>3, <1>10, <1>13, <2>1
    <3>2. QED
      BY <1>1, <1>11, <1>12, <1>14, <2>1, <3>1, DeviceFills
  <2>2. CASE "device" \notin shape
    <3>1. ld = 0 /\ vd = 0 /\ x + lb < len
      BY <1>2, <1>3, <1>10, <1>13, <2>2
    <3>2. QED
      BY <1>12, <1>14, <3>1, NothingFills
  <2>3. QED
    BY <2>1, <2>2
<1>18. DefinedBefore(c, x + 1) = n + 3 /\ n + 3 \in Nat
  <2>1. DefinedBefore(c, h + 7) = n + 3
    BY <1>15 DEF BeginsAt
  <2>2. x + 1 = h + 7
    BY <1>14
  <2>3. QED
    BY <2>1, <2>2
<1>19. Filling(c, x, lb + ld, vb + vd)
  <2>1. DefinedBefore(c, x + 1) \in Nat
    BY <1>18
  <2>2. QED
    BY <1>3, <1>14, <1>16, <1>17, <2>1, FillingOn
<1>20. /\ \A k \in (h + 7)..(h + 6 + m) : c[k].operation.name \in Fillers
       /\ DefinedBefore(c, y + 1) = n + 3 + (vb + vd)
  <2>1. x + 1 = h + 7 /\ x + (lb + ld) = h + 6 + m /\ x + (lb + ld) + 1 = y + 1
    BY <1>10, <1>14
  <2>2. QED
    BY <1>18, <1>19, <2>1 DEF Filling
<1>21. message = DefinedBefore(c, y + 1) + 1
  BY <1>3, <1>4, <1>20
<1>22. EndsAt(c, y, n, conn, p)
  <2>1. PartAt(c, y, SetupEnd(n, conn, p, message)) /\ y + 2 <= Len(c)
    BY <1>1, <1>11, <1>12, <1>14
  <2>2. QED
    BY <1>14, <1>21, <2>1, SetupEndStands
<1>23. DefinedBefore(c, h + 8 + m + 1) = n - 1 + SetupDefines(shape)
  <2>1. y + 3 = h + 8 + m + 1
    BY <1>10, <1>13
  <2>2. DefinedBefore(c, y + 3) = n + 3 + (vb + vd) + 2
    BY <1>20, <1>22 DEF EndsAt
  <2>3. n + 3 + (vb + vd) + 2 = n - 1 + (6 + vb + vd)
    BY <1>3
  <2>4. QED
    BY <1>3, <2>1, <2>2, <2>3
<1>24. SetupAt(c, h, m, n, conn, p, min, max, flags)
  BY <1>10, <1>12, <1>13, <1>14, <1>15, <1>20, <1>22 DEF SetupAt
<1>25. QED
  BY <1>1, <1>13, <1>23, <1>24

-----------------------------------------------------------------------------
(* What Wrong reads off a program in which a setup stands. *)

BuiltAt(c, s) == Definers(c)[c[s].inputs[2]][1]

Sets(c, s, op, k) == c[k].operation.name = op /\ c[k].inputs[1] = c[BuiltAt(c, s)].inputs[1]

SetAt(c, s, op) == CHOOSE k \in 1..BuiltAt(c, s) : Sets(c, s, op, k)

LoadedFor(c, s, op, j) == c[Definers(c)[c[SetAt(c, s, op)].inputs[j]][1]].operation

SentBefore(c, s, op) ==
  \E k \in 1..(s - 1) : c[k].operation.name = op /\ c[k].inputs[1] = c[s].inputs[1]

\* Whether a setup of such contents breaks rule v; raw and second say what went before it.
Breaks(v, min, max, flags, p, raw, second) ==
  CASE v = "EmptyVersionRange" -> min > max
    [] v = "UnknownVersion"    -> min <= max /\ CurrentVersion \notin min..max
    [] v = "UndefinedFlags"    -> ~(flags \subseteq DefinedFlags[p])
    [] v = "AfterRawFrame"     -> raw
    [] v = "SecondSetup"       -> second

LEMMA WrongReads ==
  ASSUME NEW c, NEW s
  PROVE  Wrong(c, s)
           = {v \in SetupViolation :
                Breaks(v, LoadedFor(c, s, "SetVersions", 2).version,
                       LoadedFor(c, s, "SetVersions", 3).version,
                       LoadedFor(c, s, "SetFlags", 2).flags, c[s].operation.protocol,
                       SentBefore(c, s, "SendRawFrame"), SentBefore(c, s, "SendSetupConnection"))}
  BY Zenon DEF Wrong, Breaks, LoadedFor, SetAt, Sets, BuiltAt, SentBefore

\* The variable that comes after those defined before the k-th instruction is the k-th's first.
LEMMA FirstDefined ==
  ASSUME NEW c \in Seq(Instruction), NEW k \in 1..Len(c),
         DefinedBefore(c, k + 1) > DefinedBefore(c, k)
  PROVE  Definers(c)[DefinedBefore(c, k) + 1][1] = k
<1>1. PICK v : v = DefinedBefore(c, k) + 1
  OBVIOUS
<1>2. Len(c) \in Nat /\ k + 1 \in 1..(Len(c) + 1) /\ Len(c) + 1 \in 1..(Len(c) + 1)
      /\ k \in 1..(Len(c) + 1)
  BY ProgramFacts
<1>3. /\ DefinedBefore(c, k) \in Nat /\ DefinedBefore(c, k + 1) \in Nat
      /\ DefinedBefore(c, Len(c) + 1) \in Nat
  BY <1>2, SlotsFinite
<1>4. DefinedBefore(c, k + 1) <= DefinedBefore(c, Len(c) + 1)
  BY <1>2, DefinedGrows
<1>5. /\ v \in (DefinedBefore(c, k) + 1)..DefinedBefore(c, k + 1)
      /\ v \in 1..DefinedBefore(c, Len(c) + 1)
  BY <1>1, <1>3, <1>4
<1>6. DefinerOf(c, v) = k
  BY <1>5, DefinerIs
<1>7. Definers(c)[v] = <<k, v - DefinedBefore(c, k)>>
  BY <1>5, <1>6, DefinersAre
<1>8. QED
  BY <1>1, <1>7

\* An instruction that uses a variable comes after the one that defines it.
LEMMA UsersComeLater ==
  ASSUME NEW c, Valid(c), NEW k \in 1..Len(c), NEW g \in 1..Len(c), NEW j \in 1..Len(c[k].inputs),
         c[k].inputs[j] > DefinedBefore(c, g)
  PROVE  k > g
<1>1. /\ c \in Seq(Instruction) /\ Len(c) \in Nat
      /\ ValidInstruction(c, k, NumRoles, NumConnections)
  BY ValidFacts
<1>2. c[k].inputs[j] \in 1..DefinedBefore(c, k)
  BY <1>1, InputsDefined
<1>3. g \in 1..(Len(c) + 1) /\ k \in 1..(Len(c) + 1)
  BY <1>1
<1>4. DefinedBefore(c, k) \in Nat /\ DefinedBefore(c, g) \in Nat
  BY <1>1, <1>3, SlotsFinite
<1>5. ASSUME k <= g PROVE FALSE
  <2>1. k \in 1..g
    BY <1>5
  <2>2. DefinedBefore(c, k) <= DefinedBefore(c, g)
    BY <1>1, <1>3, <2>1, DefinedGrows
  <2>3. QED
    BY <1>2, <1>4, <2>2
<1>6. QED
  BY <1>5

LEMMA ValidInputs ==
  ASSUME NEW c, Valid(c), NEW k \in 1..Len(c),
         c[k].operation.name \in {"SetVersions", "SetFlags", "SendRawFrame", "SendSetupConnection"}
  PROVE  1 \in 1..Len(c[k].inputs)
  BY ValidFacts, SendersHaveInputs DEF ValidInstruction

\* Which instructions of a setup's code, up to its end, have which names.
NamesOf(c, h, m) ==
  \A k \in (h + 1)..(h + 7 + m) :
    /\ c[k].operation.name \notin {"SendRawFrame", "SendSetupConnection"}
    /\ c[k].operation.name = "SetVersions" => k = h + 5
    /\ c[k].operation.name = "SetFlags" => k = h + 6

LEMMA SetupNames ==
  ASSUME NEW c, NEW h, NEW m, NEW n, NEW conn, NEW p, NEW min, NEW max, NEW flags,
         SetupAt(c, h, m, n, conn, p, min, max, flags)
  PROVE  NamesOf(c, h, m)
<1>1. h \in Nat /\ m \in Nat
  BY DEF SetupAt
<1>2. /\ c[h + 1].operation.name = "LoadVersion" /\ c[h + 2].operation.name = "LoadVersion"
      /\ c[h + 3].operation.name = "LoadFlags"
      /\ c[h + 4].operation.name = "BeginBuildSetupConnection"
      /\ c[h + 5].operation.name = "SetVersions" /\ c[h + 6].operation.name = "SetFlags"
  BY DEF SetupAt, BeginsAt, Instr, LoadVersion, LoadFlags, Plain
<1>3. c[h + 6 + m + 1].operation.name = "EndBuildSetupConnection"
  BY DEF SetupAt, EndsAt, Instr, WithProtocol
<1>4. \A k \in (h + 7)..(h + 6 + m) : c[k].operation.name \in Fillers
  BY DEF SetupAt
<1>5. ASSUME NEW k \in (h + 1)..(h + 7 + m)
      PROVE  /\ c[k].operation.name \notin {"SendRawFrame", "SendSetupConnection"}
             /\ c[k].operation.name = "SetVersions" => k = h + 5
             /\ c[k].operation.name = "SetFlags" => k = h + 6
  <2>1. CASE k \in (h + 7)..(h + 6 + m)
    <3>1. c[k].operation.name \in Fillers
      BY <1>4, <2>1
    <3>2. QED
      BY <3>1 DEF Fillers
  <2>2. CASE k = h + 6 + m + 1
    BY <1>3, <2>2
  <2>3. CASE k \in (h + 1)..(h + 6)
    <3>1. PICK i : i = k - h
      OBVIOUS
    <3>2. i \in 1..6 /\ k = h + i
      BY <1>1, <2>3, <3>1
    <3>3. i = 1 \/ i = 2 \/ i = 3 \/ i = 4 \/ i = 5 \/ i = 6
      BY <3>2
    <3>4. QED
      BY <1>2, <3>2, <3>3
  <2>4. k \in (h + 7)..(h + 6 + m) \/ k = h + 6 + m + 1 \/ k \in (h + 1)..(h + 6)
    BY <1>1
  <2>5. QED
    BY <2>1, <2>2, <2>3, <2>4
<1>6. QED
  BY <1>5 DEF NamesOf

\* The message of a setup is set by the instructions of its own code alone.
LEMMA SetWhere ==
  ASSUME NEW c, Valid(c), NEW h, NEW m, NEW n, NEW conn, NEW p, NEW min, NEW max, NEW flags,
         SetupAt(c, h, m, n, conn, p, min, max, flags), NEW s, BuiltAt(c, s) = h + 7 + m
  PROVE  SetAt(c, s, "SetVersions") = h + 5 /\ SetAt(c, s, "SetFlags") = h + 6
<1>1. /\ h \in Nat /\ m \in Nat /\ n \in Nat /\ h + 8 + m <= Len(c) /\ Len(c) \in Nat
      /\ h + 6 + m + 1 = h + 7 + m /\ NamesOf(c, h, m)
  <2>1. h \in Nat /\ m \in Nat /\ n \in Nat /\ h + 8 + m <= Len(c)
    BY DEF SetupAt
  <2>2. h + 6 + m + 1 = h + 7 + m
    BY <2>1
  <2>3. QED
    BY <2>1, <2>2, ValidFacts, SetupNames
<1>2. c[h + 7 + m].inputs[1] = n + 3
  <2>1. c[h + 6 + m + 1] = Instr(WithProtocol("EndBuildSetupConnection", p), <<n + 3>>)
    BY DEF SetupAt, EndsAt
  <2>2. QED
    BY <1>1, <2>1 DEF Instr
<1>3. DefinedBefore(c, h + 4) = n + 2
  BY DEF SetupAt, BeginsAt
<1>4. /\ c[h + 5].operation.name = "SetVersions" /\ c[h + 5].inputs[1] = n + 3
      /\ c[h + 6].operation.name = "SetFlags" /\ c[h + 6].inputs[1] = n + 3
  BY DEF SetupAt, BeginsAt, Instr, Plain
<1>5. ASSUME NEW op \in {"SetVersions", "SetFlags"}, NEW k \in 1..(h + 7 + m), Sets(c, s, op, k)
      PROVE  k \in (h + 1)..(h + 7 + m)
  <2>1. c[k].operation.name = op /\ c[k].inputs[1] = n + 3
    BY <1>2, <1>5 DEF Sets
  <2>2. k \in 1..Len(c) /\ h + 4 \in 1..Len(c)
    BY <1>1
  <2>3. 1 \in 1..Len(c[k].inputs)
    BY <2>1, <2>2, ValidInputs
  <2>4. c[k].inputs[1] > DefinedBefore(c, h + 4)
    BY <1>1, <1>3, <2>1
  <2>5. k > h + 4
    BY <2>2, <2>3, <2>4, UsersComeLater
  <2>6. QED
    BY <1>1, <2>5
<1>6. h + 5 \in 1..(h + 7 + m) /\ h + 6 \in 1..(h + 7 + m)
  BY <1>1
<1>7. Sets(c, s, "SetVersions", h + 5) /\ Sets(c, s, "SetFlags", h + 6)
  BY <1>2, <1>4 DEF Sets
<1>8. \A k \in 1..(h + 7 + m) : Sets(c, s, "SetVersions", k) => k = h + 5
  BY <1>1, <1>5 DEF NamesOf, Sets
<1>9. \A k \in 1..(h + 7 + m) : Sets(c, s, "SetFlags", k) => k = h + 6
  BY <1>1, <1>5 DEF NamesOf, Sets
<1>10. QED
  BY <1>6, <1>7, <1>8, <1>9 DEF SetAt

LEMMA SetupReads ==
  ASSUME NEW c, Valid(c), NEW h, NEW m, NEW n, NEW conn, NEW p, NEW min, NEW max, NEW flags,
         SetupAt(c, h, m, n, conn, p, min, max, flags)
  PROVE  /\ c[h + 8 + m].inputs[1] = conn
         /\ Wrong(c, h + 8 + m)
              = {v \in SetupViolation :
                   Breaks(v, min, max, flags, p, SentBefore(c, h + 8 + m, "SendRawFrame"),
                          SentBefore(c, h + 8 + m, "SendSetupConnection"))}
<1>1. /\ h \in Nat /\ m \in Nat /\ n \in Nat /\ n >= 1 /\ h + 8 + m <= Len(c) /\ Len(c) \in Nat
      /\ c \in Seq(Instruction)
  BY ValidFacts DEF SetupAt
<1>2. PICK y, s : y = h + 6 + m + 1 /\ s = h + 8 + m
  OBVIOUS
<1>3. h + 6 + m + 2 = s /\ y + 1 = s /\ y = h + 7 + m /\ y \in 1..Len(c)
  BY <1>1, <1>2
<1>4. /\ c[s] = Instr(WithProtocol("SendSetupConnection", p), <<conn, DefinedBefore(c, y) + 1>>)
      /\ DefinedBefore(c, s) = DefinedBefore(c, y) + 1
  BY <1>2, <1>3 DEF SetupAt, EndsAt
<1>5. /\ c[s].operation.protocol = p /\ c[s].inputs[1] = conn
      /\ c[s].inputs[2] = DefinedBefore(c, y) + 1
  BY <1>4 DEF Instr, WithProtocol
<1>6. BuiltAt(c, s) = y
  <2>1. DefinedBefore(c, y) \in Nat
    BY <1>1, <1>3, DefinesAt
  <2>2. DefinedBefore(c, y + 1) > DefinedBefore(c, y)
    BY <1>3, <1>4, <2>1
  <2>3. QED
    BY <1>1, <1>3, <1>5, <2>2, FirstDefined DEF BuiltAt
<1>7. SetAt(c, s, "SetVersions") = h + 5 /\ SetAt(c, s, "SetFlags") = h + 6
  BY <1>3, <1>6, SetWhere
<1>8. /\ c[h + 5].inputs[2] = n /\ c[h + 5].inputs[3] = n + 1 /\ c[h + 6].inputs[2] = n + 2
  BY DEF SetupAt, BeginsAt, Instr
<1>9. /\ DefinedBefore(c, h + 1) = n - 1 /\ DefinedBefore(c, h + 2) = n
      /\ DefinedBefore(c, h + 3) = n + 1 /\ DefinedBefore(c, h + 4) = n + 2
  BY DEF SetupAt, BeginsAt
<1>10. PICK a, b, d : a = h + 1 /\ b = h + 2 /\ d = h + 3
  OBVIOUS
<1>11. a + 1 = b /\ b + 1 = d /\ d + 1 = h + 4 /\ {a, b, d} \subseteq 1..Len(c)
  BY <1>1, <1>10
<1>12. /\ DefinedBefore(c, a) + 1 = n /\ DefinedBefore(c, b) + 1 = n + 1
       /\ DefinedBefore(c, d) + 1 = n + 2
       /\ DefinedBefore(c, a + 1) > DefinedBefore(c, a)
       /\ DefinedBefore(c, b + 1) > DefinedBefore(c, b)
       /\ DefinedBefore(c, d + 1) > DefinedBefore(c, d)
  BY <1>1, <1>9, <1>10, <1>11
<1>13. /\ Definers(c)[DefinedBefore(c, a) + 1][1] = a
       /\ Definers(c)[DefinedBefore(c, b) + 1][1] = b
       /\ Definers(c)[DefinedBefore(c, d) + 1][1] = d
  BY <1>1, <1>11, <1>12, FirstDefined
<1>14. Definers(c)[n][1] = a /\ Definers(c)[n + 1][1] = b /\ Definers(c)[n + 2][1] = d
  BY <1>12, <1>13
<1>15. /\ c[a].operation = LoadVersion(min) /\ c[b].operation = LoadVersion(max)
       /\ c[d].operation = LoadFlags(flags)
  BY <1>10 DEF SetupAt, BeginsAt
<1>16. /\ LoadedFor(c, s, "SetVersions", 2) = LoadVersion(min)
       /\ LoadedFor(c, s, "SetVersions", 3) = LoadVersion(max)
       /\ LoadedFor(c, s, "SetFlags", 2) = LoadFlags(flags)
  BY <1>7, <1>8, <1>14, <1>15 DEF LoadedFor
<1>17. /\ LoadedFor(c, s, "SetVersions", 2).version = min
       /\ LoadedFor(c, s, "SetVersions", 3).version = max
       /\ LoadedFor(c, s, "SetFlags", 2).flags = flags
  BY <1>16 DEF LoadVersion, LoadFlags
<1>18. QED
  BY <1>2, <1>5, <1>17, WrongReads

\* Between its g-th instruction and its h-th, c has an operation op on connection conn.
OnConnection(c, g, h, conn, op) ==
  \E k \in (g + 1)..h : c[k].operation.name = op /\ c[k].inputs[1] = conn

\* What a setup is sent after, on a connection that only the g-th instruction opens.
LEMMA SentWhere ==
  ASSUME NEW c, Valid(c), NEW h, NEW m, NEW n, NEW conn \in Nat, NEW p, NEW min, NEW max,
         NEW flags, SetupAt(c, h, m, n, conn, p, min, max, flags),
         NEW g \in Nat, g >= 1, g <= h, conn > DefinedBefore(c, g),
         NEW op \in {"SendRawFrame", "SendSetupConnection"}
  PROVE  SentBefore(c, h + 8 + m, op) <=> OnConnection(c, g, h, conn, op)
<1>1. h \in Nat /\ m \in Nat /\ h + 8 + m <= Len(c)
  BY DEF SetupAt
<1>2. Len(c) \in Nat /\ NamesOf(c, h, m) /\ c[h + 8 + m].inputs[1] = conn
  BY ValidFacts, SetupNames, SetupReads
<1>3. h + 8 + m - 1 = h + 7 + m
  BY <1>1
<1>4. ASSUME NEW k \in 1..(h + 7 + m), c[k].operation.name = op, c[k].inputs[1] = conn
      PROVE  k \in (g + 1)..h
  <2>1. k \in 1..Len(c) /\ g \in 1..Len(c)
    BY <1>1, <1>2
  <2>2. 1 \in 1..Len(c[k].inputs)
    BY <1>4, <2>1, ValidInputs
  <2>3. k > g
    BY <1>4, <2>1, <2>2, UsersComeLater
  <2>4. k \notin (h + 1)..(h + 7 + m)
    BY <1>2, <1>4 DEF NamesOf
  <2>5. QED
    BY <1>1, <2>3, <2>4
<1>5. \A k \in (g + 1)..h : k \in 1..(h + 7 + m)
  BY <1>1
<1>6. SentBefore(c, h + 8 + m, op)
        <=> \E k \in 1..(h + 7 + m) : c[k].operation.name = op /\ c[k].inputs[1] = conn
  <2>1. PICK s, d, r : s = h + 8 + m /\ d = h + 7 + m /\ r = c[s].inputs[1]
    OBVIOUS
  <2>2. s - 1 = d /\ r = conn
    BY <1>1, <1>2, <2>1
  <2>3. SentBefore(c, s, op)
          <=> \E k \in 1..(s - 1) : c[k].operation.name = op /\ c[k].inputs[1] = r
    BY <2>1 DEF SentBefore
  <2>4. QED
    BY <2>1, <2>2, <2>3
<1>7. QED
  BY <1>4, <1>5, <1>6 DEF OnConnection

\* The code that opens a connection.
LEMMA OpenedStands ==
  ASSUME NEW c \in Seq(Instruction), NEW q \in Nat, q + 2 <= Len(c), NEW b, NEW role,
         Len(b.variables) \in Nat, PartAt(c, q, Opened(b, role).code),
         DefinedBefore(c, q + 1) = Len(b.variables)
  PROVE  /\ Len(Opened(b, role).code) = 2
         /\ Opened(b, role).connection = DefinedBefore(c, q + 2) + 1
         /\ Opened(b, role).next = DefinedBefore(c, q + 3) + 1
<1>1. Len(c) \in Nat
  BY ProgramFacts
<1>2. PICK n, s, i, j : /\ n = NextVariable(b) /\ s = <<i, j>>
                        /\ i = Instr(LoadRole(role), << >>) /\ j = Instr(Plain("Connect"), <<n>>)
  OBVIOUS
<1>3. Opened(b, role) = [code |-> s, connection |-> n + 1, next |-> n + 2]
  BY <1>2, Zenon DEF Opened
<1>4. Len(s) = 2 /\ s[1] = i /\ s[2] = j /\ 1 \in 1..2 /\ 2 \in 1..2
  BY <1>2
<1>5. c[q + 1] = i /\ c[q + 2] = j
  <2>1. PartAt(c, q, s)
    BY <1>3
  <2>2. QED
    BY <1>4, <2>1 DEF PartAt
<1>6. c[q + 1].operation = LoadRole(role) /\ c[q + 2].operation = Plain("Connect")
  BY <1>2, <1>5 DEF Instr
<1>7. PICK x, y : x = q + 1 /\ y = q + 2
  OBVIOUS
<1>8. x + 1 = y /\ y + 1 = q + 3 /\ {x, y} \subseteq 1..Len(c)
  BY <1>1, <1>7
<1>9. Defines(c[x].operation) = 1 /\ Defines(c[y].operation) = 1
  BY <1>6, <1>7, GeneratedDefines
<1>10. /\ DefinedBefore(c, y) = DefinedBefore(c, x) + 1
       /\ DefinedBefore(c, y + 1) = DefinedBefore(c, y) + 1
  BY <1>8, <1>9, DefinesAt
<1>11. DefinedBefore(c, x) + 1 = n /\ n \in Nat
  BY <1>2, <1>7 DEF NextVariable
<1>12. DefinedBefore(c, q + 2) = n /\ DefinedBefore(c, q + 3) = n + 1
  BY <1>7, <1>8, <1>10, <1>11
<1>13. QED
  BY <1>3, <1>4, <1>11, <1>12

\* What stands between g and h defines d variables and is on the connection what v says.
Precedes(c, g, h, n, conn, v, d) ==
  /\ DefinedBefore(c, h + 1) = n - 1 + d
  /\ OnConnection(c, g, h, conn, "SendRawFrame") <=> v = "AfterRawFrame"
  /\ OnConnection(c, g, h, conn, "SendSetupConnection") <=> v = "SecondSetup"

LEMMA PrecedingStands ==
  ASSUME NEW c \in Seq(Instruction), NEW g \in Nat, NEW n \in Nat, n >= 1, NEW conn \in Nat,
         NEW v \in SetupViolation, NEW p \in Protocols, NEW flags \in SUBSET Flags, NEW shape,
         PartAt(c, g, Preceding(v, n, conn, p, flags, shape).code),
         g + Len(Preceding(v, n, conn, p, flags, shape).code) <= Len(c),
         DefinedBefore(c, g + 1) = n - 1
  PROVE  Precedes(c, g, g + Len(Preceding(v, n, conn, p, flags, shape).code), n, conn, v,
                  Preceding(v, n, conn, p, flags, shape).defines)
<1>1. PICK pre, l, h : /\ pre = Preceding(v, n, conn, p, flags, shape) /\ l = Len(pre.code)
                       /\ h = g + l
  OBVIOUS
<1>2. PartAt(c, g, pre.code) /\ h = g + l /\ h <= Len(c) /\ Len(c) \in Nat
  BY <1>1, ProgramFacts
<1>3. CASE v = "AfterRawFrame"
  <2>1. PICK i, j : /\ i = Instr(Plain("LoadBytes"), << >>)
                    /\ j = Instr(Plain("SendRawFrame"), <<conn, n>>)
    OBVIOUS
  <2>2. pre = [defines |-> 1, code |-> <<i, j>>]
    BY <1>1, <1>3, <2>1 DEF Preceding
  <2>3. pre.defines = 1 /\ l = 2 /\ pre.code[1] = i /\ pre.code[2] = j /\ 1 \in 1..2 /\ 2 \in 1..2
    BY <1>1, <2>2
  <2>4. c[g + 1] = i /\ c[g + 2] = j
    BY <1>1, <1>2, <2>3 DEF PartAt
  <2>5. /\ c[g + 1].operation = Plain("LoadBytes") /\ c[g + 2].operation = Plain("SendRawFrame")
        /\ c[g + 2].inputs[1] = conn
    BY <2>1, <2>4 DEF Instr
  <2>6. PICK x, y : x = g + 1 /\ y = g + 2
    OBVIOUS
  <2>7. x + 1 = y /\ y + 1 = h + 1 /\ {x, y} \subseteq 1..Len(c) /\ h = g + 2
    BY <1>2, <2>3, <2>6
  <2>8. Defines(c[x].operation) = 1 /\ Defines(c[y].operation) = 0
    BY <2>5, <2>6, GeneratedDefines
  <2>9. /\ DefinedBefore(c, y) = DefinedBefore(c, x) + 1
        /\ DefinedBefore(c, y + 1) = DefinedBefore(c, y) + 0
    BY <2>7, <2>8, DefinesAt
  <2>10. DefinedBefore(c, h + 1) = n - 1 + 1
    BY <2>6, <2>7, <2>9
  <2>11. c[g + 1].operation.name = "LoadBytes" /\ c[g + 2].operation.name = "SendRawFrame"
    BY <2>5 DEF Plain
  <2>12. \A k \in (g + 1)..h : k = g + 1 \/ k = g + 2
    BY <2>7
  <2>13. g + 2 \in (g + 1)..h
    BY <2>7
  <2>14. /\ OnConnection(c, g, h, conn, "SendRawFrame")
         /\ ~OnConnection(c, g, h, conn, "SendSetupConnection")
    BY <2>5, <2>11, <2>12, <2>13 DEF OnConnection
  <2>15. QED
    BY <1>1, <1>3, <2>3, <2>10, <2>14 DEF Precedes
<1>4. CASE v = "SecondSetup"
  <2>1. PICK s : s = Setup(n, conn, p, CurrentVersion, CurrentVersion, flags, shape)
    OBVIOUS
  <2>2. pre = [defines |-> SetupDefines(shape), code |-> s]
    BY <1>1, <1>4, <2>1 DEF Preceding
  <2>3. pre.defines = SetupDefines(shape) /\ pre.code = s /\ l = Len(s)
    BY <1>1, <2>2
  <2>4. CurrentVersion \in Versions
    BY VersionAssumption
  <2>5. /\ PartAt(c, g, Setup(n, conn, p, CurrentVersion, CurrentVersion, flags, shape))
        /\ g + Len(Setup(n, conn, p, CurrentVersion, CurrentVersion, flags, shape)) <= Len(c)
    BY <1>2, <2>1, <2>3
  <2>6. PICK m \in Nat :
          /\ Len(Setup(n, conn, p, CurrentVersion, CurrentVersion, flags, shape)) = 8 + m
          /\ SetupAt(c, g, m, n, conn, p, CurrentVersion, CurrentVersion, flags)
          /\ DefinedBefore(c, g + 8 + m + 1) = n - 1 + SetupDefines(shape)
    BY <2>4, <2>5, SetupStands
  <2>7. h = g + 8 + m /\ g + 6 + m + 2 = h /\ g + 7 + m + 1 = h
    BY <1>2, <2>1, <2>3, <2>6
  <2>8. NamesOf(c, g, m)
    BY <2>6, SetupNames
  <2>9. PICK message : c[h] = Instr(WithProtocol("SendSetupConnection", p), <<conn, message>>)
    BY <2>6, <2>7 DEF SetupAt, EndsAt
  <2>10. c[h].operation.name = "SendSetupConnection" /\ c[h].inputs[1] = conn
    BY <2>9 DEF Instr, WithProtocol
  <2>11. h \in (g + 1)..h /\ \A k \in (g + 1)..h : k = h \/ k \in (g + 1)..(g + 7 + m)
    BY <2>7
  <2>12. OnConnection(c, g, h, conn, "SendSetupConnection")
    BY <2>10, <2>11 DEF OnConnection
  <2>13. ~OnConnection(c, g, h, conn, "SendRawFrame")
    BY <2>8, <2>10, <2>11 DEF OnConnection, NamesOf
  <2>14. QED
    BY <1>1, <1>4, <2>3, <2>6, <2>7, <2>12, <2>13 DEF Precedes
<1>5. CASE v # "AfterRawFrame" /\ v # "SecondSetup"
  <2>1. pre = [defines |-> 0, code |-> << >>]
    BY <1>1, <1>5 DEF Preceding
  <2>2. l = 0 /\ pre.defines = 0
    BY <1>1, <2>1
  <2>3. h = g /\ (g + 1)..h = {}
    BY <1>2, <2>2
  <2>4. /\ ~OnConnection(c, g, h, conn, "SendRawFrame")
        /\ ~OnConnection(c, g, h, conn, "SendSetupConnection")
    BY <2>3 DEF OnConnection
  <2>5. QED
    BY <1>1, <1>5, <2>2, <2>3, <2>4 DEF Precedes
<1>6. QED
  BY <1>3, <1>4, <1>5

\* Of the rules, a setup with the contents and the predecessors made for v breaks v alone.
LEMMA BreaksThatOne ==
  ASSUME NEW v \in SetupViolation, NEW p \in Protocols, NEW flags \in SUBSET DefinedFlags[p],
         NEW w \in Violating(v, p, flags), NEW raw, NEW second,
         raw <=> v = "AfterRawFrame", second <=> v = "SecondSetup", NEW u \in SetupViolation
  PROVE  Breaks(u, w[1], w[2], w[3], p, raw, second) <=> u = v
<1>1. CurrentVersion \in Nat /\ DefinedFlags[p] \subseteq Flags
  BY VersionAssumption, VersionsAssumption, DefinedFlagsAssumption
<1>2. v # "UndefinedFlags" => w[3] = flags
  BY DEF Violating, SetupViolation
<1>3. v = "UndefinedFlags" => ~(w[3] \subseteq DefinedFlags[p])
  <2>1. SUFFICES ASSUME v = "UndefinedFlags" PROVE ~(w[3] \subseteq DefinedFlags[p])
    OBVIOUS
  <2>2. PICK f \in (SUBSET (Flags \ DefinedFlags[p])) \ {{}} :
          w = <<CurrentVersion, CurrentVersion, flags \cup f>>
    BY <2>1 DEF Violating
  <2>3. PICK e \in f : e \notin DefinedFlags[p]
    BY <2>2
  <2>4. QED
    BY <2>2, <2>3
<1>4. v = "EmptyVersionRange" => w[1] = CurrentVersion + 1 /\ w[2] = CurrentVersion
  BY DEF Violating
<1>5. v = "UnknownVersion" => w[1] \in Nat /\ w[2] = w[1] /\ w[1] # CurrentVersion
  <2>1. SUFFICES ASSUME v = "UnknownVersion"
                 PROVE  w[1] \in Nat /\ w[2] = w[1] /\ w[1] # CurrentVersion
    OBVIOUS
  <2>2. PICK x \in Versions \ {CurrentVersion} : w = <<x, x, flags>>
    BY <2>1 DEF Violating
  <2>3. QED
    BY <2>2, VersionsAssumption
<1>6. v \notin {"EmptyVersionRange", "UnknownVersion"}
        => w[1] = CurrentVersion /\ w[2] = CurrentVersion
  BY DEF Violating, SetupViolation
<1>7. /\ w[1] > w[2] <=> v = "EmptyVersionRange"
      /\ (w[1] <= w[2] /\ CurrentVersion \notin w[1]..w[2]) <=> v = "UnknownVersion"
  <2>1. PICK min, max, cur : min = w[1] /\ max = w[2] /\ cur = CurrentVersion
    OBVIOUS
  <2>2. /\ cur \in Nat
        /\ v = "EmptyVersionRange" => min = cur + 1 /\ max = cur
        /\ v = "UnknownVersion" => min \in Nat /\ max = min /\ min # cur
        /\ v # "EmptyVersionRange" /\ v # "UnknownVersion" => min = cur /\ max = cur
    BY <1>1, <1>4, <1>5, <1>6, <2>1
  <2>3. /\ min \in Nat /\ max \in Nat
        /\ min > max <=> v = "EmptyVersionRange"
        /\ (min <= max /\ ~(min <= cur /\ cur <= max)) <=> v = "UnknownVersion"
    <3>1. CASE v = "EmptyVersionRange"
      BY <2>2, <3>1
    <3>2. CASE v = "UnknownVersion"
      BY <2>2, <3>2
    <3>3. CASE v # "EmptyVersionRange" /\ v # "UnknownVersion"
      BY <2>2, <3>3
    <3>4. QED
      BY <3>1, <3>2, <3>3
  <2>4. cur \in min..max <=> min <= cur /\ cur <= max
    BY <2>2, <2>3
  <2>5. QED
    BY <2>1, <2>3, <2>4
<1>8. ~(w[3] \subseteq DefinedFlags[p]) <=> v = "UndefinedFlags"
  BY <1>2, <1>3
<1>9. QED
  BY <1>7, <1>8 DEF Breaks, SetupViolation

LEMMA BreaksNothing ==
  ASSUME NEW p \in Protocols, NEW flags \in SUBSET DefinedFlags[p], NEW raw, NEW second,
         ~raw, ~second, NEW u \in SetupViolation
  PROVE  ~Breaks(u, CurrentVersion, CurrentVersion, flags, p, raw, second)
<1>1. CurrentVersion \in Nat
  BY VersionAssumption, VersionsAssumption
<1>2. /\ ~(CurrentVersion > CurrentVersion) /\ CurrentVersion \in CurrentVersion..CurrentVersion
      /\ flags \subseteq DefinedFlags[p]
  BY <1>1
<1>3. QED
  BY <1>2 DEF Breaks, SetupViolation

\* The setup that the fragment f of c sends, when it stands after the first q instructions, breaks
\* the rule f was made to break alone.
BreaksItsRule(c, q, f) ==
  f.kind \in SetupViolation /\ Wrong(c, q + Len(f.code)) = {f.kind}

LEMMA AdversarialBreaks ==
  ASSUME NEW c, Valid(c), NEW q \in Nat, NEW b, Len(b.variables) \in Nat,
         DefinedBefore(c, q + 1) = Len(b.variables), NEW f \in AdversarialSetups(b),
         PartAt(c, q, f.code), q + Len(f.code) <= Len(c)
  PROVE  BreaksItsRule(c, q, f)
<1>1. PICK v \in SetupViolation, p \in Protocols : f \in AdversarialFor(b, v, p)
  BY AdversarialSetupsAre
<1>2. PICK flags \in SUBSET DefinedFlags[p], shape \in Shapes,
           o \in UNION {Fresh(b, r) : r \in Roles} : f \in AdversarialOf(v, p, flags, shape, o)
  BY <1>1 DEF AdversarialFor
<1>3. PICK w \in Violating(v, p, flags), other \in IF v = "SecondSetup" THEN Shapes ELSE {shape} :
        f = AdversarialSetup(v, p, flags, shape, o, w, other)
  BY <1>2 DEF AdversarialOf
<1>4. PICK r \in Roles : o = Opened(b, r)
  BY <1>2 DEF Fresh
<1>5. flags \in SUBSET Flags /\ Connects(o) /\ c \in Seq(Instruction) /\ Len(c) \in Nat
  BY <1>4, DefinedFlagsAssumption, OpenedConnects, ValidFacts
<1>6. PICK pre, n, conn : /\ n = o.next /\ conn = o.connection
                          /\ pre = Preceding(v, n, conn, p, flags, shape)
  OBVIOUS
<1>7. n \in Nat /\ conn \in Nat /\ Net(o.code, 0)
  BY <1>5, <1>6 DEF Connects
<1>8. Net(pre.code, 0) /\ pre.defines \in Nat
  BY <1>5, <1>6, <1>7, PrecedingIs
<1>9. w[1] \in Versions /\ w[2] \in Versions /\ w[3] \in SUBSET Flags
  BY <1>5, ViolatingIs
<1>10. PICK x, s, u : /\ x = n + pre.defines /\ s = Setup(x, conn, p, w[1], w[2], w[3], other)
                      /\ u = o.code \o pre.code
  OBVIOUS
<1>11. x \in Nat /\ Net(s, 0) /\ Net(u, 0)
  BY <1>7, <1>8, <1>9, <1>10, NetSetup, NetBoth
<1>12. f.kind = v /\ f.code = u \o s
  BY <1>3, <1>6, <1>10 DEF AdversarialSetup
<1>13. /\ o.code \in Seq(Instruction) /\ pre.code \in Seq(Instruction)
       /\ s \in Seq(Instruction) /\ u \in Seq(Instruction)
  BY <1>7, <1>8, <1>11 DEF Net
<1>14. PICK lo, lp, ls, g, h :
         /\ lo = Len(o.code) /\ lp = Len(pre.code) /\ ls = Len(s) /\ g = q + 2 /\ h = g + lp
  OBVIOUS
<1>15. lo \in Nat /\ lp \in Nat /\ ls \in Nat
  BY <1>13, <1>14, LenProperties
<1>16. Len(u) = lo + lp /\ Len(f.code) = (lo + lp) + ls
  <2>1. Len(u) = lo + lp
    BY <1>10, <1>13, <1>14, LengthsAdd
  <2>2. Len(u \o s) = Len(u) + Len(s)
    BY <1>13, LengthsAdd
  <2>3. QED
    BY <1>12, <1>14, <2>1, <2>2
<1>17. PartAt(c, q, u) /\ PartAt(c, q + (lo + lp), s)
  BY <1>12, <1>13, <1>16, PartsAt
<1>18. PartAt(c, q, o.code) /\ PartAt(c, q + lo, pre.code)
  BY <1>10, <1>13, <1>14, <1>17, PartsAt
<1>19. lo = 2
  BY <1>4, <1>14 DEF Opened
<1>20. /\ q + lo = g /\ q + (lo + lp) = h /\ g \in Nat /\ h \in Nat /\ h + ls <= Len(c)
       /\ h <= Len(c) /\ q + 2 <= Len(c) /\ q + Len(f.code) = h + ls /\ g >= 1 /\ g <= h
       /\ g + 1 = q + 3
  <2>1. PICK len, lf : len = Len(c) /\ lf = Len(f.code)
    OBVIOUS
  <2>2. len \in Nat /\ lf = (2 + lp) + ls /\ q + lf <= len
    BY <1>5, <1>16, <1>19, <2>1
  <2>3. /\ q + 2 = g /\ q + (2 + lp) = h /\ g \in Nat /\ h \in Nat /\ h + ls <= len
        /\ h <= len /\ q + 2 <= len /\ q + lf = h + ls /\ g >= 1 /\ g <= h /\ g + 1 = q + 3
    <3>1. g = q + 2 /\ h = g + lp
      BY <1>14
    <3>2. QED
      BY <1>15, <2>2, <3>1
  <2>4. q + lo = g /\ q + (lo + lp) = h
    BY <1>19, <2>3
  <2>5. h + ls <= Len(c) /\ h <= Len(c) /\ q + 2 <= Len(c) /\ q + Len(f.code) = h + ls
    BY <2>1, <2>3
  <2>6. QED
    BY <2>3, <2>4, <2>5
<1>21. conn = DefinedBefore(c, g) + 1 /\ n = DefinedBefore(c, g + 1) + 1
  BY <1>4, <1>5, <1>6, <1>14, <1>18, <1>20, OpenedStands
<1>22. /\ DefinedBefore(c, g) \in Nat /\ DefinedBefore(c, g + 1) \in Nat
  <2>1. g \in 1..(Len(c) + 1) /\ g + 1 \in 1..(Len(c) + 1)
    BY <1>5, <1>14, <1>20
  <2>2. QED
    BY <1>5, <2>1, SlotsFinite
<1>23. n >= 1 /\ DefinedBefore(c, g + 1) = n - 1 /\ conn > DefinedBefore(c, g)
  BY <1>21, <1>22
<1>24. /\ DefinedBefore(c, h + 1) = n - 1 + pre.defines
       /\ OnConnection(c, g, h, conn, "SendRawFrame") <=> v = "AfterRawFrame"
       /\ OnConnection(c, g, h, conn, "SendSetupConnection") <=> v = "SecondSetup"
  <2>1. /\ PartAt(c, g, Preceding(v, n, conn, p, flags, shape).code)
        /\ h = g + Len(Preceding(v, n, conn, p, flags, shape).code)
        /\ g + Len(Preceding(v, n, conn, p, flags, shape).code) <= Len(c)
    BY <1>6, <1>14, <1>18, <1>20
  <2>2. Precedes(c, g, g + Len(Preceding(v, n, conn, p, flags, shape).code), n, conn, v,
                 Preceding(v, n, conn, p, flags, shape).defines)
    BY <1>5, <1>7, <1>20, <1>23, <2>1, PrecedingStands
  <2>3. Precedes(c, g, h, n, conn, v, pre.defines)
    BY <1>6, <2>1, <2>2
  <2>4. QED
    BY <2>3 DEF Precedes
<1>25. x >= 1 /\ DefinedBefore(c, h + 1) = x - 1
  BY <1>7, <1>8, <1>10, <1>23, <1>24
<1>26. PICK m \in Nat :
         /\ Len(Setup(x, conn, p, w[1], w[2], w[3], other)) = 8 + m
         /\ SetupAt(c, h, m, x, conn, p, w[1], w[2], w[3])
  <2>1. /\ PartAt(c, h, Setup(x, conn, p, w[1], w[2], w[3], other))
        /\ h + Len(Setup(x, conn, p, w[1], w[2], w[3], other)) <= Len(c)
    BY <1>10, <1>14, <1>17, <1>20
  <2>2. PICK min, max, fl : min = w[1] /\ max = w[2] /\ fl = w[3]
    OBVIOUS
  <2>3. min \in Versions /\ max \in Versions /\ fl \in SUBSET Flags
    BY <1>9, <2>2
  <2>4. /\ PartAt(c, h, Setup(x, conn, p, min, max, fl, other))
        /\ h + Len(Setup(x, conn, p, min, max, fl, other)) <= Len(c)
    BY <2>1, <2>2
  <2>5. PICK m \in Nat : /\ Len(Setup(x, conn, p, min, max, fl, other)) = 8 + m
                         /\ SetupAt(c, h, m, x, conn, p, min, max, fl)
    BY <1>5, <1>7, <1>11, <1>20, <1>25, <2>3, <2>4, SetupStands, SMTT(30)
  <2>6. QED
    BY <2>2, <2>5
<1>27. q + Len(f.code) = h + 8 + m
  <2>1. ls = 8 + m
    BY <1>10, <1>14, <1>26
  <2>2. h + ls = h + 8 + m
    BY <1>20, <2>1
  <2>3. QED
    BY <1>20, <2>2
<1>28. /\ SentBefore(c, h + 8 + m, "SendRawFrame") <=> v = "AfterRawFrame"
       /\ SentBefore(c, h + 8 + m, "SendSetupConnection") <=> v = "SecondSetup"
  BY <1>7, <1>20, <1>23, <1>24, <1>26, SentWhere
<1>29. Wrong(c, h + 8 + m)
         = {y \in SetupViolation :
              Breaks(y, w[1], w[2], w[3], p, SentBefore(c, h + 8 + m, "SendRawFrame"),
                     SentBefore(c, h + 8 + m, "SendSetupConnection"))}
  BY <1>26, SetupReads
<1>30. ASSUME NEW y \in SetupViolation
       PROVE  Breaks(y, w[1], w[2], w[3], p, SentBefore(c, h + 8 + m, "SendRawFrame"),
                     SentBefore(c, h + 8 + m, "SendSetupConnection")) <=> y = v
  BY <1>28, BreaksThatOne
<1>31. Wrong(c, h + 8 + m) = {v}
  BY <1>29, <1>30
<1>32. QED
  BY <1>12, <1>27, <1>31 DEF BreaksItsRule

\* A conforming one breaks none.
LEMMA ConformingBreaksNothing ==
  ASSUME NEW c, Valid(c), NEW q \in Nat, NEW b, Len(b.variables) \in Nat,
         DefinedBefore(c, q + 1) = Len(b.variables), NEW f \in ConformingSetups(b),
         PartAt(c, q, f.code), q + Len(f.code) <= Len(c)
  PROVE  f.kind = "conforming" /\ Wrong(c, q + Len(f.code)) = {}
<1>1. PICK p \in Protocols :
        f \in {ConformingWith(p, flags, shape, o) :
                 flags \in SUBSET DefinedFlags[p], shape \in Shapes,
                 o \in UNION {Fresh(b, r) : r \in Roles}}
  BY ConformingSetupsAre
<1>2. PICK flags \in SUBSET DefinedFlags[p], shape \in Shapes,
           o \in UNION {Fresh(b, r) : r \in Roles} : f = ConformingWith(p, flags, shape, o)
  BY <1>1
<1>3. PICK r \in Roles : o = Opened(b, r)
  BY <1>2 DEF Fresh
<1>4. /\ flags \in SUBSET Flags /\ Connects(o) /\ c \in Seq(Instruction) /\ Len(c) \in Nat
      /\ CurrentVersion \in Versions
  BY <1>3, DefinedFlagsAssumption, VersionAssumption, OpenedConnects, ValidFacts
<1>5. PICK n, conn, s : /\ n = o.next /\ conn = o.connection
                        /\ s = Setup(n, conn, p, CurrentVersion, CurrentVersion, flags, shape)
  OBVIOUS
<1>6. n \in Nat /\ conn \in Nat /\ Net(o.code, 0)
  BY <1>4, <1>5 DEF Connects
<1>7. Net(s, 0)
  BY <1>4, <1>5, <1>6, NetSetup
<1>8. f.kind = "conforming" /\ f.code = o.code \o s
  BY <1>2, <1>5 DEF ConformingWith
<1>9. o.code \in Seq(Instruction) /\ s \in Seq(Instruction)
  BY <1>6, <1>7 DEF Net
<1>10. PICK lo, ls, g : lo = Len(o.code) /\ ls = Len(s) /\ g = q + 2
  OBVIOUS
<1>11. lo = 2 /\ ls \in Nat
  <2>1. lo = 2
    BY <1>3, <1>10 DEF Opened
  <2>2. QED
    BY <1>9, <1>10, <2>1, LenProperties
<1>12. Len(f.code) = lo + ls
  BY <1>8, <1>9, <1>10, LengthsAdd
<1>13. PartAt(c, q, o.code) /\ PartAt(c, q + lo, s)
  BY <1>8, <1>9, <1>10, PartsAt
<1>14. /\ q + lo = g /\ g \in Nat /\ g + ls <= Len(c) /\ q + 2 <= Len(c)
       /\ q + Len(f.code) = g + ls /\ g >= 1 /\ g <= g /\ g + 1 = q + 3
  BY <1>4, <1>10, <1>11, <1>12
<1>15. conn = DefinedBefore(c, g) + 1 /\ n = DefinedBefore(c, g + 1) + 1
  BY <1>3, <1>4, <1>5, <1>10, <1>13, <1>14, OpenedStands
<1>16. DefinedBefore(c, g) \in Nat /\ DefinedBefore(c, g + 1) \in Nat
  <2>1. g \in 1..(Len(c) + 1) /\ g + 1 \in 1..(Len(c) + 1)
    BY <1>4, <1>10, <1>14
  <2>2. QED
    BY <1>4, <2>1, SlotsFinite
<1>17. n >= 1 /\ DefinedBefore(c, g + 1) = n - 1 /\ conn > DefinedBefore(c, g)
  BY <1>15, <1>16
<1>18. PICK m \in Nat :
         /\ Len(Setup(n, conn, p, CurrentVersion, CurrentVersion, flags, shape)) = 8 + m
         /\ SetupAt(c, g, m, n, conn, p, CurrentVersion, CurrentVersion, flags)
  <2>1. /\ PartAt(c, g, Setup(n, conn, p, CurrentVersion, CurrentVersion, flags, shape))
        /\ g + Len(Setup(n, conn, p, CurrentVersion, CurrentVersion, flags, shape)) <= Len(c)
    BY <1>5, <1>10, <1>13, <1>14
  <2>2. QED
    BY <1>4, <1>6, <1>14, <1>17, <2>1, SetupStands
<1>19. q + Len(f.code) = g + 8 + m
  BY <1>5, <1>10, <1>14, <1>18
<1>20. /\ ~OnConnection(c, g, g, conn, "SendRawFrame")
       /\ ~OnConnection(c, g, g, conn, "SendSetupConnection")
  <2>1. (g + 1)..g = {}
    BY <1>14
  <2>2. QED
    BY <2>1 DEF OnConnection
<1>21. /\ ~SentBefore(c, g + 8 + m, "SendRawFrame")
       /\ ~SentBefore(c, g + 8 + m, "SendSetupConnection")
  BY <1>6, <1>14, <1>17, <1>18, <1>20, SentWhere
<1>22. Wrong(c, g + 8 + m)
         = {y \in SetupViolation :
              Breaks(y, CurrentVersion, CurrentVersion, flags, p,
                     SentBefore(c, g + 8 + m, "SendRawFrame"),
                     SentBefore(c, g + 8 + m, "SendSetupConnection"))}
  BY <1>18, SetupReads
<1>23. ASSUME NEW y \in SetupViolation
       PROVE  ~Breaks(y, CurrentVersion, CurrentVersion, flags, p,
                      SentBefore(c, g + 8 + m, "SendRawFrame"),
                      SentBefore(c, g + 8 + m, "SendSetupConnection"))
  BY <1>21, BreaksNothing
<1>24. Wrong(c, g + 8 + m) = {}
  BY <1>22, <1>23
<1>25. QED
  BY <1>8, <1>19, <1>24

-----------------------------------------------------------------------------

\* A generated fragment stands in the candidate as it was generated, after what the builder
\* it was generated with has counted.
LEMMA FragmentStands ==
  ASSUME NEW p, Valid(p), NEW q \in 0..Len(p), NEW code \in Seq(Instruction),
         NEW c, c \in Seq(Instruction), Insertion(p, q, code, c)
  PROVE  /\ PartAt(c, q, code) /\ q + Len(code) <= Len(c)
         /\ DefinedBefore(c, q + 1) = Len(FromPrefix(SubSeq(p, 1, q)).variables)
<1>1. p \in Seq(Instruction) /\ Len(p) \in Nat /\ Len(code) \in Nat /\ q \in Nat
  BY ValidFacts, ProgramFacts
<1>2. PartAt(c, q, code) /\ Len(c) = Len(p) + Len(code)
  BY DEF Insertion, PartAt
<1>3. PICK pre : pre = SubSeq(p, 1, q)
  OBVIOUS
<1>4. pre \in Seq(Instruction) /\ Len(pre) = q /\ \A i \in 1..q : pre[i] = p[i]
  BY <1>1, <1>3, PrefixFacts
<1>5. \A i \in 1..q : c[i] = pre[i]
  BY <1>4 DEF Insertion
<1>6. Opens(pre, c)
  BY <1>1, <1>2, <1>4, <1>5, AlikeItself DEF Opens
<1>7. q + 1 \in 1..(Len(pre) + 1)
  BY <1>1, <1>4
<1>8. DefinedBefore(c, q + 1) = DefinedBefore(pre, q + 1)
  BY <1>6, <1>7, StayDefined
<1>9. Opens(pre, p)
  BY <1>1, <1>3, PrefixFacts
<1>10. DefinedBefore(p, q + 1) = DefinedBefore(pre, q + 1)
  BY <1>7, <1>9, StayDefined
<1>11. PICK b : b = FromPrefix(SubSeq(p, 1, q))
  OBVIOUS
<1>12. Reads(b, p, q)
  BY <1>11, PrefixBuilder
<1>13. Len(b.variables) = DefinedBefore(p, q + 1)
  BY <1>12 DEF Reads, TextVariables
<1>14. q + Len(code) <= Len(c)
  BY <1>1, <1>2
<1>15. QED
  BY <1>2, <1>8, <1>10, <1>11, <1>13, <1>14

\* Whichever step is taken, a setup just generated breaks what it was made to break.
LEMMA GenerateViolates ==
  ASSUME MutInv, NEW g \in {"setup", "adversarial", "raw_frame"}, Generate(g)
  PROVE  ViolatesExactlyOne'
<1>1. CASE Skip
  <2>1. ~Made'
    BY <1>1 DEF Skip, Made
  <2>2. QED
    BY <2>1 DEF ViolatesExactlyOne
<1>2. CASE ~Skip
  <2>1. PICK n \in Points(input) :
          \E f \in Fragments(g, FromPrefix(SubSeq(input, 1, n))) :
            /\ FromPrefix(SubSeq(input, 1, n) \o f.code).accepted
            /\ Offer(Inserted(input, n, f.code),
                     [mutator |-> "generator", kind |-> f.kind, at |-> n, length |-> Len(f.code)])
    BY <1>2 DEF Generate
  <2>2. PICK f \in Fragments(g, FromPrefix(SubSeq(input, 1, n))) :
          /\ FromPrefix(SubSeq(input, 1, n) \o f.code).accepted
          /\ Offer(Inserted(input, n, f.code),
                   [mutator |-> "generator", kind |-> f.kind, at |-> n, length |-> Len(f.code)])
    BY <2>1
  <2>3. PICK p, b, code, len, c, how :
          /\ p = input /\ b = FromPrefix(SubSeq(p, 1, n)) /\ code = f.code /\ len = Len(code)
          /\ c = Inserted(p, n, code)
          /\ how = [mutator |-> "generator", kind |-> f.kind, at |-> n, length |-> len]
    OBVIOUS
  <2>4. Valid(p) /\ n \in Points(p) /\ n \in 0..Len(p)
    BY <2>2, <2>3 DEF MutInv, Points
  <2>5. n \in Nat /\ p \in Seq(Instruction)
    BY <2>4, ValidFacts
  <2>6. Net(code, 0)
    BY <2>2, <2>3, <2>4, FragmentIsClosed
  <2>7. Valid(c)
    BY <2>2, <2>3, <2>4, <2>6, GeneratedIsValid DEF Net
  <2>8. Insertion(p, n, code, c) /\ c \in Seq(Instruction) /\ code \in Seq(Instruction)
    BY <2>3, <2>4, <2>5, <2>6, <2>7, InsertedIs DEF Net, Valid
  <2>9. /\ PartAt(c, n, f.code) /\ n + Len(f.code) <= Len(c)
        /\ DefinedBefore(c, n + 1) = Len(b.variables)
    BY <2>3, <2>4, <2>8, FragmentStands
  <2>10. Len(b.variables) \in Nat
    BY <2>3, <2>4, PrefixBuilder
  <2>11. Offer(c, how)
    BY <2>2, <2>3
  <2>12. last'.candidate = c /\ last'.how = how
    BY <2>11 DEF Offer
  <2>13. how.kind = f.kind /\ how.at = n /\ how.length = Len(f.code)
    BY <2>3
  <2>14. f \in ConformingSetups(b) \/ f \in AdversarialSetups(b) \/ f \in RawFrames(b)
    BY <2>2, <2>3 DEF Fragments
  <2>15. CASE f \in ConformingSetups(b)
    <3>1. f.kind = "conforming" /\ Wrong(c, n + Len(f.code)) = {}
      BY <2>5, <2>7, <2>9, <2>10, <2>15, ConformingBreaksNothing
    <3>2. QED
      BY <2>12, <2>13, <3>1 DEF ViolatesExactlyOne
  <2>16. CASE f \in AdversarialSetups(b)
    <3>1. f.kind \in SetupViolation /\ Wrong(c, n + Len(f.code)) = {f.kind}
      <4>1. BreaksItsRule(c, n, f)
        BY <2>5, <2>7, <2>9, <2>10, <2>16, AdversarialBreaks
      <4>2. QED
        BY <4>1 DEF BreaksItsRule
    <3>2. f.kind # "conforming"
      BY <3>1 DEF SetupViolation
    <3>3. QED
      BY <2>12, <2>13, <3>1, <3>2 DEF ViolatesExactlyOne
  <2>17. CASE f \in RawFrames(b)
    <3>1. f.kind = "raw"
      <4>1. PICK o \in UNION {Reused(b, r) : r \in Roles} :
              f = [kind |-> "raw",
                   code |-> o.code \o <<Instr(Plain("LoadBytes"), << >>),
                                        Instr(Plain("SendRawFrame"), <<o.connection, o.next>>)>>]
        BY <2>17 DEF RawFrames
      <4>2. QED
        BY <4>1
    <3>2. QED
      BY <2>12, <2>13, <3>1 DEF ViolatesExactlyOne
  <2>18. QED
    BY <2>14, <2>15, <2>16, <2>17
<1>3. QED
  BY <1>1, <1>2

LEMMA OthersDoNotGenerate ==
  ASSUME MutateInput \/ MutateOperation \/ Splice
  PROVE  ViolatesExactlyOne'
<1>1. Skip \/ \E c, how : how.mutator # "generator" /\ Offer(c, how)
  <2>1. /\ [mutator |-> "input"].mutator # "generator"
        /\ [mutator |-> "operation"].mutator # "generator"
        /\ \A x : [mutator |-> "splice", other |-> x].mutator # "generator"
    OBVIOUS
  <2>2. QED
    BY <2>1, Zenon DEF MutateInput, MutateOperation, Splice
<1>2. ~Made' \/ last'.how.mutator # "generator"
  BY <1>1 DEF Skip, Made, Offer
<1>3. QED
  BY <1>2 DEF ViolatesExactlyOne

\* Wherever in whatever program a generated fragment is inserted, whatever was done to the
\* program before, and whatever versions, flags and optional fields were drawn, its setup breaks
\* the one rule it was made to break, and a conforming one breaks none
\* (setup_connection.rs:131-132).
THEOREM SetupsViolateExactlyOne == MutationSpec => []ViolatesExactlyOne
<1>1. MutationInit => ViolatesExactlyOne
  BY DEF MutationInit, ViolatesExactlyOne, Made
<1>2. MutInv /\ ViolatesExactlyOne /\ [MutationNext]_mutation_vars => ViolatesExactlyOne'
  <2>1. SUFFICES ASSUME MutInv, ViolatesExactlyOne, [MutationNext]_mutation_vars
                 PROVE  ViolatesExactlyOne'
    OBVIOUS
  <2>2. CASE UNCHANGED mutation_vars
    <3>1. last' = last
      BY <2>2 DEF mutation_vars
    <3>2. QED
      BY <2>1, <3>1 DEF ViolatesExactlyOne, Made
  <2>3. CASE MutationNext
    BY <2>1, <2>3, GenerateViolates, OthersDoNotGenerate
       DEF MutationNext, InsertSetup, InsertAdversarial, InsertRawFrame
  <2>4. QED
    BY <2>1, <2>2, <2>3
<1>3. QED
  BY <1>1, <1>2, MutInvHolds, PTL DEF MutationSpec

-----------------------------------------------------------------------------
(* The least and the greatest of a set of numbers. *)

\* CHOOSE of Min has a least element to choose.
LEMMA MinIsLeast ==
  ASSUME NEW T, T \subseteq Nat, T # {}
  PROVE  Min(T) \in T /\ \A y \in T : Min(T) <= y
  BY Least DEF Min

-----------------------------------------------------------------------------
(* Programs as lists. *)

IsList(p) == Len(p) \in Nat /\ DOMAIN p = 1..Len(p)

\* Programs as functions on 1..n, which is all the proofs need of them.
LEMMA SequencesAreLists == ASSUME NEW S, NEW p \in Seq(S) PROVE IsList(p)
  BY LenProperties DEF IsList

LEMMA ListOf ==
  ASSUME NEW n \in Nat, NEW f, DOMAIN f = 1..n, f = [k \in 1..n |-> f[k]]
  PROVE  IsList(f) /\ Len(f) = n
<1> DEFINE S == {f[k] : k \in 1..n}
<1>1. f \in [1..n -> S]
  OBVIOUS
<1>2. f \in Seq(S)
  BY <1>1, SeqDef
<1>3. QED
  BY <1>2, LenProperties DEF IsList

\* Taking instructions out of a list leaves a list.
LEMMA WithoutIsAList ==
  ASSUME NEW p, IsList(p), NEW remove
  PROVE  IsList(Without(p, remove))
<1> DEFINE c == Cardinality(DOMAIN p \ remove)
           w == Without(p, remove)
<1>1. IsFiniteSet(DOMAIN p)
  BY FS_Interval DEF IsList
<1>2. c \in Nat
  BY <1>1, FS_Difference, FS_CardinalityType
<1>3. DOMAIN w = 1..c /\ w = [k \in 1..c |-> w[k]]
  BY DEF Without
<1> HIDE DEF c, w
<1>4. QED
  BY <1>2, <1>3, ListOf DEF w

\* Turning an instruction into a nop keeps the length.
LEMMA NoppedIsAList ==
  ASSUME NEW p, IsList(p), NEW k
  PROVE  IsList(NoppedAt(p, k)) /\ Len(NoppedAt(p, k)) = Len(p)
<1> DEFINE w == NoppedAt(p, k)
<1>1. DOMAIN w = 1..Len(p) /\ w = [j \in 1..Len(p) |-> w[j]]
  BY DEF NoppedAt, IsList
<1> HIDE DEF w
<1>2. QED
  BY <1>1, ListOf DEF w, IsList

-----------------------------------------------------------------------------
(* The inductive invariant. *)

Working == pc \in {"loop", "attempt"}

\* The minimizer holds a program and a place in it; only a cut has a length, and it fits.
MinimizerOK ==
  /\ DOMAIN minimizer = {"program", "candidate", "next", "length"}
  /\ IsList(minimizer.program)
  /\ minimizer.next \in Nat \ {0}
  /\ minimizer.length \in Nat /\ minimizer.length <= Len(minimizer.program)
  /\ Working /\ stage # 1 => minimizer.length = 0

\* What is proposed is a candidate for the place the search has come to.
CandidateOK ==
  pc = "attempt" =>
    LET p == minimizer.program
        k == minimizer.next
    IN /\ IsList(Attempt)
       /\ stage = 2 => Removable(p, k) /\ Attempt = BlockRemoved(p, k)
       /\ stage = 3 => CanBeNopped(p, k) /\ Attempt = NoppedAt(p, k)

\* The blocks of p that begin before k, and the instructions before k, were tried.
BlocksTried(p, k) ==
  \A b \in 1..(k - 1) : b \in DOMAIN p /\ Removable(p, b) => BlockRemoved(p, b) \in executed
NopsTried(p, k) ==
  \A b \in 1..(k - 1) : b \in DOMAIN p /\ CanBeNopped(p, b) => NoppedAt(p, b) \in executed

\* A round in which no stage has kept anything so far, nor given up.
Quiet == ~scheduled /\ ~gave_up /\ keep_minimizing = 0

\* A stage that has kept nothing searches the entry itself, from the start to where it is; a
\* round that has changed nothing has tried what its stages so far look for.
SearchOK ==
  /\ Working => ~scheduled
  /\ Working /\ ~success => minimizer.program = entry
  /\ Working /\ ~success /\ stage = 2 => BlocksTried(entry, minimizer.next)
  /\ Working /\ ~success /\ stage = 3 => NopsTried(entry, minimizer.next)
  /\ Quiet /\ (stage = 3 \/ pc \in {"while", "done"}) => BlocksTried(entry, Len(entry) + 1)
  /\ Quiet /\ pc \in {"while", "done"} => NopsTried(entry, Len(entry) + 1)

MinInv ==
  /\ pc \in {"while", "begin", "loop", "attempt", "done"} /\ stage \in 1..3
  /\ keep_minimizing \in Nat
  /\ pc = "done" => keep_minimizing = 0
  /\ IsList(entry) /\ IsList(current_ir)
  /\ MinimizerOK /\ CandidateOK /\ SearchOK

\* Halving a length.
LEMMA HalfFits == ASSUME NEW n \in Nat PROVE n \div 2 \in Nat /\ n \div 2 <= n
  OBVIOUS

\* A minimizer starts at the front, and cutting with a length within the program.
LEMMA NewOK ==
  ASSUME NEW s, NEW p, IsList(p)
  PROVE  /\ DOMAIN New(s, p) = {"program", "candidate", "next", "length"}
         /\ New(s, p).program = p /\ New(s, p).next = 1
         /\ New(s, p).length \in Nat /\ New(s, p).length <= Len(p)
         /\ s # "cutting" => New(s, p).length = 0
<1>1. Len(p) \div 2 \in Nat /\ Len(p) \div 2 <= Len(p) /\ Len(p) \in Nat
  BY HalfFits DEF IsList
<1>2. QED
  BY <1>1 DEF New

\* The stages in their order (instance.rs).
LEMMA StageNames ==
  Stages[1] = "cutting" /\ Stages[2] = "block" /\ Stages[3] = "nopping" /\ Len(Stages) = 3
  BY DEF Stages

LEMMA MinInvInit == Init => MinInv
<1> SUFFICES ASSUME Init PROVE MinInv
  OBVIOUS
<1>1. IsList(entry)
  BY EntriesAssumption, SequencesAreLists DEF Init
<1>2. MinimizerOK
  BY <1>1, NewOK DEF Init, MinimizerOK, Working
<1>3. CandidateOK /\ SearchOK
  BY DEF Init, CandidateOK, SearchOK, Working, Quiet
<1>4. QED
  BY <1>1, <1>2, <1>3 DEF Init, MinInv

\* The steps one by one.
LEMMA TakeEntryKeeps == ASSUME MinInv, TakeEntry PROVE MinInv'
<1>1. PICK p \in Entries, before \in BOOLEAN : FirstRound(p, before)
  BY DEF TakeEntry
<1>2. IsList(p)
  BY EntriesAssumption, SequencesAreLists
<1>3. MinimizerOK'
  BY <1>1, <1>2, NewOK DEF FirstRound, MinimizerOK, Working
<1>4. CandidateOK' /\ SearchOK'
  BY <1>1 DEF FirstRound, CandidateOK, SearchOK, Working, Quiet
<1>5. QED
  BY <1>1, <1>2, <1>3, <1>4 DEF FirstRound, MinInv

LEMMA RoundKeeps == ASSUME MinInv, Round PROVE MinInv'
<1>1. pc' = "begin" /\ stage' = 1 /\ keep_minimizing' = 0 /\ minimizer' = minimizer
  BY DEF Round
<1>2. MinimizerOK' /\ CandidateOK' /\ SearchOK'
  BY <1>1 DEF MinInv, MinimizerOK, CandidateOK, SearchOK, Working, Quiet
<1>3. QED
  BY <1>1, <1>2 DEF Round, MinInv

LEMMA RoundsEndKeeps == ASSUME MinInv, RoundsEnd PROVE MinInv'
<1>1. /\ pc = "while" /\ pc' = "done" /\ keep_minimizing = 0
      /\ UNCHANGED <<entry, scheduled, keep_minimizing, stage, minimizer, current_ir, success,
                     executed, gave_up>>
  BY DEF RoundsEnd
<1>2. MinimizerOK' /\ CandidateOK' /\ SearchOK'
  BY <1>1 DEF MinInv, MinimizerOK, CandidateOK, SearchOK, Working, Quiet, BlocksTried, NopsTried
<1>3. QED
  BY <1>1, <1>2 DEF MinInv

LEMMA PerformSkipsKeeps == ASSUME MinInv, PerformSkips PROVE MinInv'
<1>1. /\ pc' \in {"begin", "while"} /\ stage' \in 1..3 /\ scheduled
      /\ UNCHANGED <<entry, scheduled, keep_minimizing, minimizer, current_ir, success,
                     executed, gave_up>>
  BY StageNames DEF PerformSkips, Advanced, MinInv
<1>2. MinimizerOK' /\ CandidateOK' /\ SearchOK'
  BY <1>1 DEF MinInv, MinimizerOK, CandidateOK, SearchOK, Working, Quiet
<1>3. QED
  BY <1>1, <1>2 DEF MinInv

LEMMA PerformBeginsKeeps == ASSUME MinInv, PerformBegins PROVE MinInv'
<1>1. /\ pc = "begin" /\ pc' = "loop" /\ ~scheduled /\ success' = FALSE /\ current_ir' = entry
      /\ minimizer' = New(Stages[stage], entry)
      /\ UNCHANGED <<entry, scheduled, keep_minimizing, stage, executed, gave_up>>
  BY DEF PerformBegins
<1>2. minimizer'.program = entry /\ minimizer'.next = 1
  BY <1>1, NewOK DEF MinInv
<1>3. MinimizerOK'
  <2>1. stage # 1 => Stages[stage] # "cutting"
    BY StageNames DEF MinInv
  <2>2. QED
    BY <1>1, <2>1, NewOK DEF MinInv, MinimizerOK
<1>4. SearchOK'
  BY <1>1, <1>2 DEF MinInv, SearchOK, Working, Quiet, BlocksTried, NopsTried
<1>5. QED
  BY <1>1, <1>3, <1>4 DEF MinInv, CandidateOK

LEMMA ProposeKeeps == ASSUME MinInv, Propose PROVE MinInv'
<1> DEFINE m == minimizer
           p == minimizer.program
           T == Positions(Stages[stage], minimizer)
<1>1. /\ pc = "loop" /\ pc' = "attempt" /\ T # {}
      /\ minimizer' = Proposed(Stages[stage], minimizer)
      /\ UNCHANGED <<entry, scheduled, keep_minimizing, stage, current_ir, success, executed,
                     gave_up>>
  BY DEF Propose, Candidates
<1>2. /\ IsList(p) /\ Len(p) \in Nat /\ m.next \in Nat \ {0} /\ m.length \in Nat
      /\ m.length <= Len(p) /\ DOMAIN m = {"program", "candidate", "next", "length"}
  BY DEF MinInv, MinimizerOK, IsList
<1>3. CASE stage = 1
  <2>1. T \subseteq 1..m.length
    BY <1>3, StageNames DEF Positions, Halvings
  <2> DEFINE n == Max(T)
  <2>2. n \in 1..m.length
    BY <1>1, <1>2, <2>1, MaxIsGreatest
  <2>3. minimizer' = [m EXCEPT !.length = n, !.candidate = <<Cut(p, n)>>]
    BY <1>1, <1>3, StageNames DEF Proposed
  <2> HIDE DEF n
  <2>4. IsList(Cut(p, n))
    BY <1>2, WithoutIsAList DEF Cut
  <2>5. /\ DOMAIN minimizer' = DOMAIN m /\ minimizer'.program = p /\ minimizer'.next = m.next
        /\ minimizer'.length = n /\ minimizer'.candidate = <<Cut(p, n)>>
    BY <1>2, <2>3
  <2>6. n \in Nat /\ n <= Len(p)
    BY <1>2, <2>2
  <2>7. MinimizerOK'
    BY <1>1, <1>2, <1>3, <2>5, <2>6 DEF MinimizerOK
  <2>8. CandidateOK' /\ SearchOK'
    BY <1>1, <1>3, <2>4, <2>5 DEF MinInv, CandidateOK, SearchOK, Attempt, Working, Quiet
  <2>9. QED
    BY <1>1, <2>7, <2>8 DEF MinInv
<1>4. ASSUME stage \in {2, 3} PROVE Min(T) \in T /\ \A b \in T : Min(T) <= b
  <2>1. T \subseteq Nat
    BY <1>2, <1>4, StageNames DEF Positions
  <2>2. QED
    BY <1>1, <2>1, MinIsLeast
<1>5. CASE stage = 2
  <2> DEFINE b == Min(T)
  <2>1. /\ b \in m.next..Len(p) /\ Removable(p, b)
        /\ \A c \in m.next..Len(p) : Removable(p, c) => b <= c
    BY <1>4, <1>5, StageNames DEF Positions
  <2>2. minimizer' = [m EXCEPT !.next = b, !.candidate = <<BlockRemoved(p, b)>>]
    BY <1>1, <1>5, StageNames DEF Proposed
  <2> HIDE DEF b
  <2>3. IsList(BlockRemoved(p, b))
    BY <1>2, WithoutIsAList DEF BlockRemoved
  <2>4. /\ DOMAIN minimizer' = DOMAIN m /\ minimizer'.program = p /\ minimizer'.next = b
        /\ minimizer'.length = m.length /\ minimizer'.candidate = <<BlockRemoved(p, b)>>
    BY <1>2, <2>2
  <2>5. b \in Nat \ {0}
    BY <1>2, <2>1
  <2>6. MinimizerOK'
    BY <1>1, <1>2, <2>4, <2>5 DEF MinInv, MinimizerOK, Working
  <2>7. CandidateOK'
    BY <1>1, <1>5, <2>1, <2>3, <2>4 DEF CandidateOK, Attempt
  <2>8. ~success => BlocksTried(entry, b)
    <3>1. SUFFICES ASSUME ~success, NEW c \in 1..(b - 1), c \in DOMAIN entry, Removable(entry, c)
                   PROVE  BlockRemoved(entry, c) \in executed
      BY DEF BlocksTried
    <3>2. p = entry /\ BlocksTried(entry, m.next)
      BY <1>1, <1>5, <3>1 DEF MinInv, SearchOK, Working
    <3>3. c \in 1..(m.next - 1) \/ c \in m.next..Len(p)
      BY <1>2, <2>1
    <3>4. ~(b <= c)
      BY <2>5
    <3>5. QED
      BY <2>1, <3>1, <3>2, <3>3, <3>4 DEF BlocksTried
  <2>9. SearchOK'
    BY <1>1, <1>5, <2>4, <2>8 DEF MinInv, SearchOK, Working, Quiet, BlocksTried
  <2>10. QED
    BY <1>1, <2>6, <2>7, <2>9 DEF MinInv
<1>6. CASE stage = 3
  <2> DEFINE b == Min(T)
  <2>1. /\ b \in m.next..Len(p) /\ CanBeNopped(p, b)
        /\ \A c \in m.next..Len(p) : CanBeNopped(p, c) => b <= c
    BY <1>4, <1>6, StageNames DEF Positions
  <2>2. minimizer' = [m EXCEPT !.next = b, !.candidate = <<NoppedAt(p, b)>>]
    BY <1>1, <1>6, StageNames DEF Proposed
  <2> HIDE DEF b
  <2>3. IsList(NoppedAt(p, b))
    BY <1>2, NoppedIsAList
  <2>4. /\ DOMAIN minimizer' = DOMAIN m /\ minimizer'.program = p /\ minimizer'.next = b
        /\ minimizer'.length = m.length /\ minimizer'.candidate = <<NoppedAt(p, b)>>
    BY <1>2, <2>2
  <2>5. b \in Nat \ {0}
    BY <1>2, <2>1
  <2>6. MinimizerOK'
    BY <1>1, <1>2, <2>4, <2>5 DEF MinInv, MinimizerOK, Working
  <2>7. CandidateOK'
    BY <1>1, <1>6, <2>1, <2>3, <2>4 DEF CandidateOK, Attempt
  <2>8. ~success => NopsTried(entry, b)
    <3>1. SUFFICES ASSUME ~success, NEW c \in 1..(b - 1), c \in DOMAIN entry, CanBeNopped(entry, c)
                   PROVE  NoppedAt(entry, c) \in executed
      BY DEF NopsTried
    <3>2. p = entry /\ NopsTried(entry, m.next)
      BY <1>1, <1>6, <3>1 DEF MinInv, SearchOK, Working
    <3>3. c \in 1..(m.next - 1) \/ c \in m.next..Len(p)
      BY <1>2, <2>1
    <3>4. ~(b <= c)
      BY <2>5
    <3>5. QED
      BY <2>1, <3>1, <3>2, <3>3, <3>4 DEF NopsTried
  <2>9. SearchOK'
    BY <1>1, <1>6, <2>4, <2>8 DEF MinInv, SearchOK, Working, Quiet, BlocksTried, NopsTried
  <2>10. QED
    BY <1>1, <2>6, <2>7, <2>9 DEF MinInv
<1>7. QED
  BY <1>3, <1>5, <1>6 DEF MinInv

\* An outcome is heard: where the candidate went and what the minimizer is now.
LEMMA Tried ==
  ASSUME MinInv, pc = "attempt", NEW S, Attempt \in S, executed \subseteq S, executed' = S,
         entry' = entry, ~success, minimizer'.next = minimizer.next + 1
  PROVE  /\ stage = 2 => BlocksTried(entry, minimizer.next)' /\ IsStaticallyValid(Attempt)
         /\ stage = 3 => NopsTried(entry, minimizer.next)' /\ IsStaticallyValid(Attempt)
<1> DEFINE k == minimizer.next
<1>1. minimizer.program = entry /\ k \in Nat \ {0}
  BY DEF MinInv, SearchOK, MinimizerOK, Working
<1>2. ASSUME NEW b \in 1..(minimizer'.next - 1) PROVE b \in 1..(k - 1) \/ b = k
  BY <1>1
<1>3. CASE stage = 2
  <2>1. BlocksTried(entry, k) /\ Removable(entry, k) /\ Attempt = BlockRemoved(entry, k)
    BY <1>1, <1>3 DEF MinInv, SearchOK, CandidateOK, Working
  <2>2. QED
    BY <1>2, <1>3, <2>1 DEF BlocksTried, Removable
<1>4. CASE stage = 3
  <2>1. NopsTried(entry, k) /\ CanBeNopped(entry, k) /\ Attempt = NoppedAt(entry, k)
    BY <1>1, <1>4 DEF MinInv, SearchOK, CandidateOK, Working
  <2>2. QED
    BY <1>2, <1>4, <2>1 DEF NopsTried, CanBeNopped
<1>5. QED
  BY <1>3, <1>4

\* What was tried stays tried.
LEMMA TriedGrows ==
  ASSUME NEW p, NEW k, executed \subseteq executed'
  PROVE  /\ BlocksTried(p, k) => \A b \in 1..(k - 1) :
              b \in DOMAIN p /\ Removable(p, b) => BlockRemoved(p, b) \in executed'
         /\ NopsTried(p, k) => \A b \in 1..(k - 1) :
              b \in DOMAIN p /\ CanBeNopped(p, b) => NoppedAt(p, b) \in executed'
  BY DEF BlocksTried, NopsTried

LEMMA RetainedKeeps == ASSUME MinInv, Retained PROVE MinInv'
<1> DEFINE m == minimizer
<1>1. /\ pc = "attempt" /\ pc' = "loop" /\ success' = TRUE /\ current_ir' = Attempt
      /\ minimizer' = Succeeded(Stages[stage], m) /\ executed \subseteq executed'
      /\ UNCHANGED <<entry, scheduled, keep_minimizing, stage, gave_up>>
  BY DEF Retained
<1>2. IsList(Attempt) /\ Attempt = m.candidate[1]
  BY <1>1 DEF MinInv, CandidateOK, Attempt
<1>3. /\ m.next \in Nat \ {0} /\ m.length \in Nat /\ stage \in 1..3
      /\ DOMAIN m = {"program", "candidate", "next", "length"}
      /\ stage # 1 => m.length = 0
  BY <1>1 DEF MinInv, MinimizerOK, Working
<1>4. /\ DOMAIN minimizer' = DOMAIN m /\ minimizer'.program = Attempt
      /\ minimizer'.next = IF Stages[stage] = "block" THEN 1 ELSE m.next
      /\ minimizer'.length = IF Stages[stage] = "cutting" THEN Min({m.length, Len(Attempt) \div 2})
                             ELSE m.length
  BY <1>1, <1>2, <1>3 DEF Succeeded
<1>5. minimizer'.length \in Nat /\ minimizer'.length <= Len(Attempt)
  <2> DEFINE h == Len(Attempt) \div 2
  <2>1. h \in Nat /\ h <= Len(Attempt) /\ Len(Attempt) \in Nat
    BY <1>2, HalfFits DEF IsList
  <2>2. CASE stage = 1
    <3> DEFINE T == {m.length, h}
    <3>1. T \subseteq Nat /\ T # {} /\ h \in T
      BY <1>3, <2>1
    <3>2. Min(T) \in T /\ Min(T) <= h
      BY <3>1, MinIsLeast
    <3>3. minimizer'.length = Min(T)
      BY <1>4, <2>2, StageNames
    <3> HIDE DEF h
    <3>4. Min(T) \in Nat
      BY <3>1, <3>2
    <3>5. QED
      BY <2>1, <3>2, <3>3, <3>4
  <2>3. CASE stage # 1
    BY <1>3, <1>4, <2>1, <2>3, StageNames
  <2>4. QED
    BY <2>2, <2>3
<1>6. MinimizerOK'
  BY <1>1, <1>2, <1>3, <1>4, <1>5, StageNames DEF MinimizerOK
<1>7. SearchOK'
  BY <1>1, TriedGrows DEF MinInv, SearchOK, Working, Quiet, BlocksTried
<1>8. QED
  BY <1>1, <1>2, <1>6, <1>7 DEF MinInv, CandidateOK

LEMMA LostKeeps == ASSUME MinInv, Lost PROVE MinInv'
<1> DEFINE m == minimizer
<1>1. /\ pc = "attempt" /\ pc' = "loop"
      /\ minimizer' = Failed(Stages[stage], m)
      /\ executed' = IF IsStaticallyValid(Attempt) THEN executed \cup {Attempt} ELSE executed
      /\ UNCHANGED <<entry, scheduled, keep_minimizing, stage, current_ir, success, gave_up>>
  BY DEF Lost
<1>2. /\ m.next \in Nat \ {0} /\ m.length \in Nat /\ stage \in 1..3 /\ IsList(m.program)
      /\ DOMAIN m = {"program", "candidate", "next", "length"} /\ m.length <= Len(m.program)
      /\ stage # 1 => m.length = 0
  BY <1>1 DEF MinInv, MinimizerOK, Working
<1>3. /\ DOMAIN minimizer' = DOMAIN m /\ minimizer'.program = m.program
      /\ minimizer'.next = IF Stages[stage] = "cutting" THEN m.next ELSE m.next + 1
      /\ minimizer'.length = IF Stages[stage] = "cutting" THEN m.length \div 2 ELSE m.length
  BY <1>1, <1>2 DEF Failed
<1>4. m.length \div 2 \in Nat /\ m.length \div 2 <= m.length
  BY <1>2, HalfFits
<1>5. MinimizerOK'
  <2>1. minimizer'.length \in Nat /\ minimizer'.length <= Len(m.program)
    BY <1>2, <1>3, <1>4 DEF IsList
  <2>2. minimizer'.next \in Nat \ {0}
    BY <1>2, <1>3
  <2>3. stage # 1 => minimizer'.length = 0
    BY <1>2, <1>3, StageNames
  <2>4. QED
    BY <1>1, <1>2, <1>3, <2>1, <2>2, <2>3 DEF MinimizerOK
<1>6. ~success /\ stage = 2 => BlocksTried(entry, minimizer.next)'
  <2>1. SUFFICES ASSUME ~success, stage = 2 PROVE BlocksTried(entry, minimizer.next)'
    OBVIOUS
  <2>2. IsStaticallyValid(Attempt)
    BY <1>1, <2>1 DEF MinInv, CandidateOK, Removable
  <2>3. minimizer'.next = minimizer.next + 1
    BY <1>3, <2>1, StageNames
  <2>4. QED
    BY <1>1, <2>1, <2>2, <2>3, Tried
<1>7. ~success /\ stage = 3 => NopsTried(entry, minimizer.next)'
  <2>1. SUFFICES ASSUME ~success, stage = 3 PROVE NopsTried(entry, minimizer.next)'
    OBVIOUS
  <2>2. IsStaticallyValid(Attempt)
    BY <1>1, <2>1 DEF MinInv, CandidateOK, CanBeNopped
  <2>3. minimizer'.next = minimizer.next + 1
    BY <1>3, <2>1, StageNames
  <2>4. QED
    BY <1>1, <2>1, <2>2, <2>3, Tried
<1>8. executed \subseteq executed'
  BY <1>1
<1>9. SearchOK'
  BY <1>1, <1>3, <1>6, <1>7, <1>8, TriedGrows DEF MinInv, SearchOK, Working, Quiet, BlocksTried
<1>10. QED
  BY <1>1, <1>5, <1>9 DEF MinInv, CandidateOK

LEMMA ExecutionErrsKeeps == ASSUME MinInv, ExecutionErrs PROVE MinInv'
<1>1. /\ pc = "attempt" /\ pc' = "loop"
      /\ UNCHANGED <<entry, scheduled, keep_minimizing, stage, minimizer, current_ir, success,
                     executed, gave_up>>
  BY DEF ExecutionErrs
<1>2. MinimizerOK' /\ CandidateOK' /\ SearchOK'
  BY <1>1 DEF MinInv, MinimizerOK, CandidateOK, SearchOK, Working, Quiet, BlocksTried, NopsTried
<1>3. QED
  BY <1>1, <1>2 DEF MinInv

\* The end of a stage, exhausted or given up.
LEMMA StageEndsKeeps ==
  ASSUME MinInv, pc = "loop", PerformEnds, Advanced,
         Candidates = {} \/ gave_up', Candidates = {} => gave_up' = gave_up,
         UNCHANGED <<scheduled, minimizer, current_ir, success, executed>>
  PROVE  MinInv'
<1>1. pc' \in {"begin", "while"} /\ stage' \in 1..3
  BY StageNames DEF Advanced, MinInv
<1>2. IsList(entry)' /\ keep_minimizing' \in Nat
  <2>1. CASE success
    BY <2>1, WithoutIsAList DEF PerformEnds, MinInv, RemoveNops
  <2>2. CASE ~success
    BY <2>2 DEF PerformEnds, MinInv
  <2>3. QED
    BY <2>1, <2>2
<1>3. MinimizerOK' /\ CandidateOK'
  BY <1>1 DEF MinInv, MinimizerOK, CandidateOK, Working
<1>4. SearchOK'
  <2>1. CASE Quiet'
    <3>1. keep_minimizing' = 0 /\ ~gave_up' /\ ~scheduled
      BY <2>1 DEF Quiet
    <3>2. ~success
      <4>1. success => keep_minimizing' = keep_minimizing + 1
        BY DEF PerformEnds
      <4>2. keep_minimizing + 1 # 0
        BY DEF MinInv
      <4>3. QED
        BY <3>1, <4>1, <4>2
    <3>3. entry' = entry /\ keep_minimizing' = keep_minimizing /\ Candidates = {} /\ Quiet
      BY <3>1, <3>2 DEF PerformEnds, Quiet
    <3>4. /\ minimizer.program = entry /\ minimizer.next \in Nat \ {0}
          /\ Len(entry) \in Nat /\ DOMAIN entry = 1..Len(entry)
      BY <3>2 DEF MinInv, SearchOK, MinimizerOK, Working, IsList
    <3>5. \A b \in 1..Len(entry) : b \in 1..(minimizer.next - 1) \/ b \in minimizer.next..Len(entry)
      BY <3>4
    <3>6. 1..((Len(entry) + 1) - 1) = 1..Len(entry)
      BY <3>4
    <3>7. CASE stage = 1
      <4>1. pc' = "begin" /\ stage' = 2
        BY <3>7, StageNames DEF Advanced
      <4>2. QED
        BY <4>1 DEF SearchOK, Working
    <3>8. CASE stage = 2
      <4>1. pc' = "begin" /\ stage' = 3
        BY <3>8, StageNames DEF Advanced
      <4>2. \A b \in minimizer.next..Len(entry) : ~Removable(entry, b)
        BY <3>3, <3>4, <3>8, StageNames DEF Candidates, Positions
      <4>3. BlocksTried(entry, minimizer.next)
        BY <3>2, <3>8 DEF MinInv, SearchOK, Working
      <4>4. BlocksTried(entry, Len(entry) + 1)'
        BY <3>3, <3>4, <3>5, <3>6, <4>2, <4>3 DEF BlocksTried
      <4>5. QED
        BY <4>1, <4>4 DEF SearchOK, Working
    <3>9. CASE stage = 3
      <4>1. pc' = "while"
        BY <3>9, StageNames DEF Advanced
      <4>2. \A b \in minimizer.next..Len(entry) : ~CanBeNopped(entry, b)
        BY <3>3, <3>4, <3>9, StageNames DEF Candidates, Positions
      <4>3. NopsTried(entry, minimizer.next)
        BY <3>2, <3>9 DEF MinInv, SearchOK, Working
      <4>4. NopsTried(entry, Len(entry) + 1)'
        BY <3>3, <3>4, <3>5, <3>6, <4>2, <4>3 DEF NopsTried
      <4>5. BlocksTried(entry, Len(entry) + 1)
        BY <3>3, <3>9 DEF MinInv, SearchOK
      <4>6. BlocksTried(entry, Len(entry) + 1)'
        BY <3>3, <4>5 DEF BlocksTried
      <4>7. QED
        BY <4>1, <4>4, <4>6 DEF SearchOK, Working
    <3>10. QED
      BY <3>7, <3>8, <3>9 DEF MinInv
  <2>2. CASE ~Quiet'
    BY <1>1, <2>2 DEF SearchOK, Working
  <2>3. QED
    BY <2>1, <2>2
<1>5. QED
  BY <1>1, <1>2, <1>3, <1>4 DEF MinInv

LEMMA MinInvNext == MinInv /\ [Next]_vars => MinInv'
<1> SUFFICES ASSUME MinInv, [Next]_vars PROVE MinInv'
  OBVIOUS
<1>1. CASE Exhausted \/ GiveUp
  BY <1>1, StageEndsKeeps DEF Exhausted, GiveUp
<1>2. CASE UNCHANGED vars
  BY <1>2 DEF vars, MinInv, MinimizerOK, CandidateOK, SearchOK, Working, Quiet, Attempt,
    BlocksTried, NopsTried
<1>3. QED
  BY <1>1, <1>2, TakeEntryKeeps, RoundKeeps, RoundsEndKeeps, PerformSkipsKeeps,
    PerformBeginsKeeps, ProposeKeeps, RetainedKeeps, LostKeeps, ExecutionErrsKeeps
    DEF Next, Perform

LEMMA MinInvHolds == Spec => []MinInv
  BY MinInvInit, MinInvNext, PTL DEF Spec

\* `total - self.length` never underflows: whatever candidates are kept, lost or fail to run,
\* the cut in hand is no longer than the program in hand (cutting.rs:30-68).
THEOREM CutsFit == Spec => []CutFits
<1>1. MinInv => CutFits
  BY DEF MinInv, MinimizerOK, CutFits
<1>2. QED
  BY <1>1, MinInvHolds, PTL

\* When the rounds end and no stage has given up, every block and every instruction that could
\* be taken out of the entry was taken out and run, for every entry, every outcome of every
\* candidate and any number of rounds (instance.rs:378-405).
THEOREM RoundsLeaveNothingUntried == Spec => []MinimalWhenDone
<1>1. MinInv => MinimalWhenDone
  <2>1. SUFFICES ASSUME MinInv, pc = "done", ~scheduled, ~gave_up
                 PROVE  Reductions(entry) \subseteq executed
    BY DEF MinimalWhenDone
  <2>2. Len(entry) \in Nat /\ DOMAIN entry = 1..Len(entry) /\ Quiet
    BY <2>1 DEF MinInv, IsList, Quiet
  <2>3. BlocksTried(entry, Len(entry) + 1) /\ NopsTried(entry, Len(entry) + 1)
    BY <2>1, <2>2 DEF MinInv, SearchOK
  <2>4. 1..((Len(entry) + 1) - 1) = DOMAIN entry
    BY <2>2
  <2>5. QED
    BY <2>3, <2>4 DEF Reductions, BlocksTried, NopsTried
<1>2. QED
  BY <1>1, MinInvHolds, PTL

\* What a stage will write is what its minimizer goes on from, and was run and kept.
LEMMA KeptInHandHolds == Spec => []KeptInHand
<1>1. Init => KeptInHand
  BY DEF Init, KeptInHand
<1>2. MinInv /\ KeptInHand /\ [Next]_vars => KeptInHand'
  <2> SUFFICES ASSUME MinInv, KeptInHand, [Next]_vars PROVE KeptInHand'
    OBVIOUS
  <2>1. CASE TakeEntry
    BY <2>1 DEF TakeEntry, FirstRound, KeptInHand
  <2>2. CASE Round \/ RoundsEnd \/ PerformSkips \/ Exhausted \/ GiveUp
    BY <2>2, StageNames DEF Round, RoundsEnd, PerformSkips, Exhausted, GiveUp, Advanced, KeptInHand
  <2>3. CASE PerformBegins
    BY <2>3, NewOK DEF PerformBegins, KeptInHand, MinInv
  <2>4. ASSUME NEW s PROVE /\ Proposed(Stages[stage], minimizer).program = minimizer.program
                           /\ Failed(s, minimizer).program = minimizer.program
                           /\ Succeeded(s, minimizer).program = Attempt
    BY StageNames DEF Proposed, Failed, Succeeded, Attempt, MinInv, MinimizerOK
  <2>5. CASE Propose
    BY <2>4, <2>5 DEF Propose, KeptInHand
  <2>6. CASE Retained
    BY <2>4, <2>6 DEF Retained, KeptInHand
  <2>7. CASE Lost \/ ExecutionErrs
    BY <2>4, <2>7 DEF Lost, ExecutionErrs, KeptInHand
  <2>8. CASE UNCHANGED vars
    BY <2>8 DEF vars, KeptInHand
  <2>9. QED
    BY <2>1, <2>2, <2>3, <2>5, <2>6, <2>7, <2>8 DEF Next, Perform
<1>3. QED
  BY <1>1, <1>2, MinInvHolds, PTL DEF Spec
-----------------------------------------------------------------------------
(* Counting the members of a set of numbers. *)

LEMMA CountType == ASSUME NEW T, NEW k \in Nat PROVE Count(T, k) \in Nat
  BY CountSteps

LEMMA CountStep ==
  ASSUME NEW T, NEW k \in Nat
  PROVE  Count(T, k + 1) = IF k + 1 \in T THEN Count(T, k) + 1 ELSE Count(T, k)
  BY CountSteps

\* The count never falls, and grows at every member.
LEMMA CountGrows ==
  ASSUME NEW T, NEW k \in Nat, NEW i \in 0..k
  PROVE  /\ Count(T, i) \in Nat /\ Count(T, k) \in Nat /\ Count(T, i) <= Count(T, k)
         /\ i < k /\ k \in T => Count(T, i) < Count(T, k)
<1> DEFINE S == {n \in Nat : Count(T, i) <= Count(T, i + n)}
<1>1. i \in Nat /\ \A n \in Nat : Count(T, n) \in Nat
  BY CountType
<1>2. i + 0 = i /\ i + 0 \in Nat
  BY <1>1
<1>3. 0 \in S
  BY <1>1, <1>2
<1>4. ASSUME NEW n \in Nat, n \in S PROVE n + 1 \in S
  <2>1. PICK m : m = i + n
    OBVIOUS
  <2>2. m \in Nat /\ m + 1 \in Nat /\ i + (n + 1) = m + 1
    BY <1>1, <2>1
  <2>3. Count(T, m + 1) = IF m + 1 \in T THEN Count(T, m) + 1 ELSE Count(T, m)
    BY <2>2, CountStep
  <2>4. Count(T, i) \in Nat /\ Count(T, m) \in Nat /\ Count(T, i) <= Count(T, m)
    BY <1>1, <1>4, <2>1, <2>2
  <2>5. Count(T, i) <= Count(T, m + 1)
    BY <2>3, <2>4
  <2>6. QED
    BY <2>2, <2>5
<1> HIDE DEF S
<1>5. Nat \subseteq S
  BY <1>3, <1>4, Induction
<1>6. ASSUME NEW m \in Nat, i <= m PROVE Count(T, i) <= Count(T, m)
  <2>1. m - i \in S /\ i + (m - i) = m
    BY <1>1, <1>5, <1>6
  <2>2. QED
    BY <2>1 DEF S
<1>7. ASSUME i < k, k \in T PROVE Count(T, i) < Count(T, k)
  <2>1. PICK m : m = k - 1
    OBVIOUS
  <2>2. m \in Nat /\ i <= m /\ m + 1 = k
    BY <1>1, <1>7, <2>1
  <2>3. Count(T, m + 1) = IF m + 1 \in T THEN Count(T, m) + 1 ELSE Count(T, m)
    BY <2>2, CountStep
  <2>4. Count(T, k) = Count(T, m) + 1
    BY <1>7, <2>2, <2>3
  <2>5. Count(T, i) <= Count(T, m) /\ Count(T, i) \in Nat /\ Count(T, m) \in Nat
    BY <1>1, <1>6, <2>2
  <2>6. QED
    BY <2>4, <2>5
<1>8. QED
  BY <1>1, <1>6, <1>7

\* Two members never have the same count.
LEMMA CountTells ==
  ASSUME NEW T, NEW k \in Nat, NEW i \in Nat, k \in T, i \in T, Count(T, k) = Count(T, i)
  PROVE  k = i
<1>1. CASE i < k
  <2>1. Count(T, i) < Count(T, k) /\ Count(T, i) \in Nat
    BY <1>1, CountGrows
  <2>2. QED
    BY <2>1
<1>2. CASE k < i
  <2>1. Count(T, k) < Count(T, i) /\ Count(T, i) \in Nat
    BY <1>2, CountGrows
  <2>2. QED
    BY <2>1
<1>3. QED
  BY <1>1, <1>2

\* Every number up to the count is the count at some member.
LEMMA CountReaches ==
  ASSUME NEW T, NEW m \in Nat, NEW n \in 1..Count(T, m)
  PROVE  \E k \in 1..m : k \in T /\ Count(T, k) = n
<1> DEFINE S == {k \in 0..m : n <= Count(T, k)}
<1>1. Count(T, m) \in Nat
  BY CountType
<1>2. S \subseteq Nat /\ m \in S
  BY <1>1
<1>3. PICK k \in S : \A y \in S : k <= y
  BY <1>2, Least
<1>4. k # 0
  <2>1. Count(T, 0) = 0
    BY CountSteps
  <2>2. QED
    BY <1>1, <1>3, <2>1
<1>5. PICK e : e = k - 1
  OBVIOUS
<1>6. e \in 0..m /\ e \in Nat /\ k \in 1..m /\ e + 1 = k /\ ~(k <= e)
  BY <1>3, <1>4, <1>5
<1>7. ~(n <= Count(T, e)) /\ n <= Count(T, k)
  BY <1>3, <1>6
<1>8. /\ Count(T, e) \in Nat /\ n \in Nat
      /\ Count(T, k) = IF k \in T THEN Count(T, e) + 1 ELSE Count(T, e)
  <2>1. Count(T, e + 1) = IF e + 1 \in T THEN Count(T, e) + 1 ELSE Count(T, e)
    BY <1>6, CountStep
  <2>2. Count(T, e) \in Nat /\ n \in Nat
    BY <1>1, <1>6, CountType
  <2>3. QED
    BY <1>6, <2>1, <2>2
<1>9. k \in T /\ Count(T, k) = n
  <2> HIDE DEF S
  <2>1. QED
    BY <1>7, <1>8
<1>10. QED
  BY <1>6, <1>9

\* A run of members, and of numbers that are none.
LEMMA CountRun ==
  ASSUME NEW T, NEW a \in Nat, NEW d \in Nat
  PROVE  /\ (\A w \in (a + 1)..(a + d) : w \in T) =>
              \A x \in 0..d : Count(T, a + x) = Count(T, a) + x
         /\ (\A w \in (a + 1)..(a + d) : w \notin T) =>
              \A x \in 0..d : Count(T, a + x) = Count(T, a)
<1> DEFINE S == {x \in Nat : x <= d =>
                   /\ (\A w \in (a + 1)..(a + d) : w \in T) => Count(T, a + x) = Count(T, a) + x
                   /\ (\A w \in (a + 1)..(a + d) : w \notin T) => Count(T, a + x) = Count(T, a)}
<1>1. 0 \in S
  <2>1. a + 0 = a /\ Count(T, a) \in Nat
    BY CountType
  <2>2. QED
    BY <2>1
<1>2. ASSUME NEW x \in Nat, x \in S PROVE x + 1 \in S
  <2>1. SUFFICES ASSUME x + 1 <= d
                 PROVE  /\ (\A w \in (a + 1)..(a + d) : w \in T) =>
                             Count(T, a + (x + 1)) = Count(T, a) + (x + 1)
                        /\ (\A w \in (a + 1)..(a + d) : w \notin T) =>
                             Count(T, a + (x + 1)) = Count(T, a)
    OBVIOUS
  <2>2. PICK m : m = a + x
    OBVIOUS
  <2>3. m \in Nat /\ a + (x + 1) = m + 1 /\ m + 1 \in (a + 1)..(a + d)
    BY <2>1, <2>2
  <2>4. /\ Count(T, m + 1) = IF m + 1 \in T THEN Count(T, m) + 1 ELSE Count(T, m)
        /\ Count(T, a) \in Nat
    BY <2>3, CountStep, CountType
  <2>5. /\ (\A w \in (a + 1)..(a + d) : w \in T) => Count(T, m) = Count(T, a) + x
        /\ (\A w \in (a + 1)..(a + d) : w \notin T) => Count(T, m) = Count(T, a)
    BY <1>2, <2>1, <2>2
  <2> HIDE DEF S
  <2>6. QED
    BY <2>3, <2>4, <2>5
<1> HIDE DEF S
<1>3. Nat \subseteq S
  BY <1>1, <1>2, Induction
<1>4. QED
  BY <1>3 DEF S

-----------------------------------------------------------------------------
(* A program with instructions taken out. *)

KeptOf(p, remove) == DOMAIN p \ remove

\* Where the n-th instruction that is kept is.
Sits(p, remove, n) ==
  CHOOSE k \in KeptOf(p, remove) : Cardinality({j \in KeptOf(p, remove) : j <= k}) = n

\* The inputs of an instruction that is kept.
RenumberedInputs(p, remove, s) == [j \in DOMAIN s |-> Renumbered(p, remove, s[j])]

LEMMA KeptIsCounted ==
  ASSUME NEW p \in Seq(Instruction), NEW remove, NEW k \in 0..Len(p)
  PROVE  /\ Cardinality({j \in KeptOf(p, remove) : j <= k}) = Count(KeptOf(p, remove), k)
         /\ Cardinality(KeptOf(p, remove)) = Count(KeptOf(p, remove), Len(p))
<1>1. DOMAIN p = 1..Len(p) /\ Len(p) \in Nat
  BY ProgramFacts
<1>2. PICK T : T = KeptOf(p, remove)
  OBVIOUS
<1>3. T \subseteq 1..Len(p)
  BY <1>1, <1>2 DEF KeptOf
<1>4. {j \in T : j <= k} = {j \in 1..k : j \in T} /\ T = {j \in 1..Len(p) : j \in T}
  <2>1. ASSUME NEW j \in T PROVE j \in 1..Len(p) /\ (j <= k <=> j \in 1..k)
    BY <1>1, <1>3
  <2>2. ASSUME NEW j \in 1..k PROVE j <= k
    BY <1>1
  <2>3. QED
    BY <2>1, <2>2
<1>5. QED
  BY <1>2, <1>4 DEF Count

LEMMA SitsIs ==
  ASSUME NEW p \in Seq(Instruction), NEW remove, NEW n \in 1..Cardinality(KeptOf(p, remove))
  PROVE  /\ Sits(p, remove, n) \in KeptOf(p, remove)
         /\ Sits(p, remove, n) \in 1..Len(p)
         /\ Count(KeptOf(p, remove), Sits(p, remove, n)) = n
<1>1. DOMAIN p = 1..Len(p) /\ Len(p) \in Nat /\ Len(p) \in 0..Len(p)
  BY ProgramFacts
<1>2. PICK T : T = KeptOf(p, remove)
  OBVIOUS
<1>3. n \in 1..Count(T, Len(p))
  BY <1>1, <1>2, KeptIsCounted
<1>4. PICK k \in 1..Len(p) : k \in T /\ Count(T, k) = n
  BY <1>1, <1>3, CountReaches
<1>5. k \in 0..Len(p)
  BY <1>1
<1>6. Cardinality({j \in T : j <= k}) = n
  BY <1>2, <1>4, <1>5, KeptIsCounted
<1>7. PICK s : s = Sits(p, remove, n)
  OBVIOUS
<1>8. s = CHOOSE i \in T : Cardinality({j \in T : j <= i}) = n
  BY <1>2, <1>7, Zenon DEF Sits
<1>9. s \in T /\ Cardinality({j \in T : j <= s}) = n
  BY <1>4, <1>6, <1>8, Zenon
<1>10. s \in 1..Len(p) /\ s \in 0..Len(p)
  BY <1>1, <1>2, <1>9 DEF KeptOf
<1>11. Count(T, s) = n
  BY <1>2, <1>9, <1>10, KeptIsCounted
<1>12. QED
  BY <1>2, <1>7, <1>9, <1>10, <1>11

LEMMA RenumberedIs ==
  ASSUME NEW p, NEW remove, NEW v \in Nat
  PROVE  Renumbered(p, remove, v) \in Nat
<1>1. IsFiniteSet(1..(v - 1))
  BY FS_Interval
<1>2. IsFiniteSet({w \in 1..(v - 1) : DefinerOf(p, w) \notin remove})
  BY <1>1, FS_Subset
<1>3. Cardinality({w \in 1..(v - 1) : DefinerOf(p, w) \notin remove}) \in Nat
  BY <1>2, FS_CardinalityType
<1>4. QED
  BY <1>3 DEF Renumbered

LEMMA RenumberedInputsAre ==
  ASSUME NEW p, NEW remove, NEW s \in Seq(Nat)
  PROVE  /\ RenumberedInputs(p, remove, s) \in Seq(Nat)
         /\ Len(RenumberedInputs(p, remove, s)) = Len(s)
         /\ \A j \in 1..Len(s) : RenumberedInputs(p, remove, s)[j] = Renumbered(p, remove, s[j])
<1>1. Len(s) \in Nat /\ DOMAIN s = 1..Len(s)
  BY LenProperties
<1>2. PICK t : t = RenumberedInputs(p, remove, s)
  OBVIOUS
<1>3. t = [j \in 1..Len(s) |-> Renumbered(p, remove, s[j])]
  BY <1>1, <1>2 DEF RenumberedInputs
<1>4. ASSUME NEW j \in 1..Len(s) PROVE Renumbered(p, remove, s[j]) \in Nat
  BY <1>1, ElementOfSeq, RenumberedIs
<1>5. t \in [1..Len(s) -> Nat]
  BY <1>3, <1>4
<1>6. t \in Seq(Nat) /\ Len(t) = Len(s)
  BY <1>1, <1>5, ListIsSequence
<1>7. QED
  BY <1>2, <1>3, <1>6

\* What is taken out leaves a program, whatever it is.
LEMMA WithoutIs ==
  ASSUME NEW p \in Seq(Instruction), NEW remove, NEW q, q = Without(p, remove)
  PROVE  /\ q \in Seq(Instruction) /\ Len(q) = Cardinality(KeptOf(p, remove))
         /\ \A n \in 1..Len(q) :
              /\ q[n].operation = p[Sits(p, remove, n)].operation
              /\ q[n].inputs = RenumberedInputs(p, remove, p[Sits(p, remove, n)].inputs)
<1>1. DOMAIN p = 1..Len(p) /\ Len(p) \in Nat /\ Len(p) \in 0..Len(p)
  BY ProgramFacts
<1>2. PICK c : c = Cardinality(KeptOf(p, remove))
  OBVIOUS
<1>3. c \in Nat
  <2>1. c = Count(KeptOf(p, remove), Len(p))
    BY <1>1, <1>2, KeptIsCounted
  <2>2. QED
    BY <1>1, <2>1, CountType
<1>4. PICK r : r = Without(p, remove)
  OBVIOUS
<1>5. r = [n \in 1..c |-> [p[Sits(p, remove, n)] EXCEPT
                             !.inputs = RenumberedInputs(p, remove, p[Sits(p, remove, n)].inputs)]]
  BY <1>2, <1>4, Zenon DEF Without, Sits, KeptOf, RenumberedInputs
<1>6. ASSUME NEW n \in 1..c
      PROVE  /\ r[n] \in Instruction
             /\ r[n].operation = p[Sits(p, remove, n)].operation
             /\ r[n].inputs = RenumberedInputs(p, remove, p[Sits(p, remove, n)].inputs)
  <2>1. PICK k, t : k = Sits(p, remove, n) /\ t = RenumberedInputs(p, remove, p[k].inputs)
    OBVIOUS
  <2>2. k \in 1..Len(p)
    BY <1>2, <2>1, SitsIs
  <2>3. p[k] \in Instruction /\ p[k].inputs \in Seq(Nat)
    BY <2>2, ProgramFacts
  <2>4. t \in Seq(Nat)
    BY <2>1, <2>3, RenumberedInputsAre
  <2>5. r[n] = [p[k] EXCEPT !.inputs = t]
    BY <1>5, <2>1
  <2>6. r[n] \in Instruction /\ r[n].operation = p[k].operation /\ r[n].inputs = t
    BY <2>3, <2>4, <2>5 DEF Instruction
  <2>7. QED
    BY <2>1, <2>6
<1>7. r \in [1..c -> Instruction]
  BY <1>5, <1>6
<1>8. r \in Seq(Instruction) /\ Len(r) = c
  BY <1>3, <1>7, ListIsSequence
<1>9. QED
  BY <1>2, <1>4, <1>6, <1>8

-----------------------------------------------------------------------------
(* A program without its nops is within the program it was. *)

Nops(p) == {k \in DOMAIN p : IsNop(p[k].operation)}

\* The instructions that are not nops.
Kept(p) == KeptOf(p, Nops(p))

\* q is p without its nops: the n-th instruction of q was at f[n].
Cleaned(p, q, f) ==
  /\ q \in Seq(Instruction) /\ Len(q) = Count(Kept(p), Len(p))
  /\ f \in [0..Len(q) -> 0..Len(p)] /\ f[0] = 0
  /\ \A n \in 1..Len(q) :
       /\ f[n] \in 1..Len(p) /\ f[n] \in Kept(p) /\ Count(Kept(p), f[n]) = n
       /\ q[n].operation = p[f[n]].operation
       /\ q[n].inputs = RenumberedInputs(p, Nops(p), p[f[n]].inputs)

LEMMA RemoveNopsCleans ==
  ASSUME NEW p \in Seq(Instruction)
  PROVE  \E f : Cleaned(p, RemoveNops(p), f)
<1>1. DOMAIN p = 1..Len(p) /\ Len(p) \in Nat /\ Len(p) \in 0..Len(p)
  BY ProgramFacts
<1>2. PICK q, R : q = RemoveNops(p) /\ R = Nops(p)
  OBVIOUS
<1>3. q = Without(p, R)
  BY <1>2 DEF RemoveNops, Nops
<1>4. /\ q \in Seq(Instruction) /\ Len(q) = Cardinality(KeptOf(p, R))
      /\ \A n \in 1..Len(q) :
           /\ q[n].operation = p[Sits(p, R, n)].operation
           /\ q[n].inputs = RenumberedInputs(p, R, p[Sits(p, R, n)].inputs)
  BY <1>3, WithoutIs
<1>5. Len(q) = Count(Kept(p), Len(p)) /\ Len(q) \in Nat
  <2>1. Cardinality(KeptOf(p, R)) = Count(KeptOf(p, R), Len(p))
    BY <1>1, KeptIsCounted
  <2>2. Len(q) \in Nat
    BY <1>4, ProgramFacts
  <2>3. QED
    BY <1>2, <1>4, <2>1, <2>2 DEF Kept
<1>6. PICK f : f = [n \in 0..Len(q) |-> IF n = 0 THEN 0 ELSE Sits(p, R, n)]
  OBVIOUS
<1>7. f[0] = 0 /\ 0 \in 0..Len(p)
  BY <1>1, <1>5, <1>6
<1>8. ASSUME NEW n \in 1..Len(q)
      PROVE  /\ f[n] = Sits(p, R, n) /\ f[n] \in 1..Len(p) /\ f[n] \in 0..Len(p)
             /\ f[n] \in Kept(p) /\ Count(Kept(p), f[n]) = n
  <2>1. n \in 0..Len(q) /\ n # 0
    BY <1>5
  <2>2. f[n] = Sits(p, R, n)
    BY <1>6, <2>1
  <2>3. n \in 1..Cardinality(KeptOf(p, R))
    BY <1>4
  <2>4. /\ Sits(p, R, n) \in KeptOf(p, R) /\ Sits(p, R, n) \in 1..Len(p)
        /\ Count(KeptOf(p, R), Sits(p, R, n)) = n
    BY <2>3, SitsIs
  <2>5. QED
    BY <1>1, <1>2, <2>2, <2>4 DEF Kept
<1>9. f \in [0..Len(q) -> 0..Len(p)]
  <2>1. ASSUME NEW n \in 0..Len(q) PROVE f[n] \in 0..Len(p)
    <3>1. n = 0 \/ n \in 1..Len(q)
      BY <1>5
    <3>2. QED
      BY <1>7, <1>8, <3>1
  <2>2. QED
    BY <1>6, <2>1
<1>10. Cleaned(p, q, f)
  BY <1>2, <1>4, <1>5, <1>7, <1>8, <1>9 DEF Cleaned
<1>11. QED
  BY <1>2, <1>10

LEMMA KeptAre ==
  ASSUME NEW p \in Seq(Instruction), NEW k
  PROVE  k \in Kept(p) <=> k \in 1..Len(p) /\ ~IsNop(p[k].operation)
  BY ProgramFacts DEF Kept, KeptOf, Nops

LEMMA CleanedFacts ==
  ASSUME NEW p \in Seq(Instruction), NEW q, NEW f, Cleaned(p, q, f)
  PROVE  /\ Len(p) \in Nat /\ Len(q) \in Nat /\ q \in Seq(Instruction) /\ f[0] = 0
         /\ \A n \in 0..Len(q) : /\ f[n] \in Nat /\ f[n] <= Len(p) /\ Count(Kept(p), f[n]) = n
<1>1. Len(p) \in Nat /\ Len(q) \in Nat
  BY ProgramFacts DEF Cleaned
<1>2. ASSUME NEW n \in 0..Len(q)
      PROVE  f[n] \in Nat /\ f[n] <= Len(p) /\ Count(Kept(p), f[n]) = n
  <2>1. f[n] \in 0..Len(p)
    BY DEF Cleaned
  <2>2. n = 0 \/ n \in 1..Len(q)
    BY <1>1
  <2>3. Count(Kept(p), 0) = 0
    BY CountSteps
  <2>4. Count(Kept(p), f[n]) = n
    BY <2>2, <2>3 DEF Cleaned
  <2>5. QED
    BY <1>1, <2>1, <2>4
<1>3. QED
  BY <1>1, <1>2 DEF Cleaned

\* Every instruction that is not a nop is still there.
LEMMA CleanedAt ==
  ASSUME NEW p \in Seq(Instruction), NEW q, NEW f, Cleaned(p, q, f), NEW k \in Kept(p)
  PROVE  /\ Count(Kept(p), k) \in 1..Len(q) /\ f[Count(Kept(p), k)] = k
         /\ Count(Kept(p), k) = Count(Kept(p), k - 1) + 1 /\ Count(Kept(p), k - 1) \in Nat
<1>1. /\ k \in 1..Len(p) /\ Len(p) \in Nat /\ k \in Nat /\ k - 1 \in Nat
      /\ k - 1 + 1 = k /\ k \in 0..Len(p)
  BY KeptAre, ProgramFacts
<1>2. PICK n : n = Count(Kept(p), k)
  OBVIOUS
<1>3. n = Count(Kept(p), k - 1) + 1 /\ Count(Kept(p), k - 1) \in Nat
  <2>1. PICK e : e = k - 1
    OBVIOUS
  <2>2. Count(Kept(p), e + 1) = IF e + 1 \in Kept(p) THEN Count(Kept(p), e) + 1
                                ELSE Count(Kept(p), e)
    BY <1>1, <2>1, CountStep
  <2>3. Count(Kept(p), e) \in Nat
    BY <1>1, <2>1, CountType
  <2>4. QED
    BY <1>1, <1>2, <2>1, <2>2, <2>3
<1>4. n <= Len(q) /\ Len(q) \in Nat
  <2>1. Count(Kept(p), k) <= Count(Kept(p), Len(p))
    BY <1>1, CountGrows
  <2>2. QED
    BY <1>2, <2>1, CleanedFacts DEF Cleaned
<1>5. n \in 1..Len(q)
  BY <1>3, <1>4
<1>6. f[n] \in Nat /\ f[n] \in Kept(p) /\ Count(Kept(p), f[n]) = n
  BY <1>1, <1>5 DEF Cleaned
<1>7. f[n] = k
  BY <1>1, <1>2, <1>6, CountTells
<1>8. QED
  BY <1>2, <1>3, <1>5, <1>7

\* Between two instructions of q, and after the last one, p has nops only.
LEMMA NopsBetween ==
  ASSUME NEW p \in Seq(Instruction), NEW q, NEW f, Cleaned(p, q, f),
         NEW k \in Kept(p), NEW n \in 0..Len(q)
  PROVE  f[n] < k => n + 1 <= Len(q) /\ f[n + 1] <= k
<1>1. SUFFICES ASSUME f[n] < k PROVE n + 1 <= Len(q) /\ f[n + 1] <= k
  OBVIOUS
<1>2. /\ k \in Nat /\ Len(q) \in Nat /\ f[n] \in Nat /\ Count(Kept(p), f[n]) = n
  BY KeptAre, CleanedFacts
<1>3. PICK m : m = Count(Kept(p), k)
  OBVIOUS
<1>4. m \in 1..Len(q) /\ f[m] = k
  BY <1>3, CleanedAt
<1>5. n < m
  <2>1. f[n] \in 0..k
    BY <1>1, <1>2
  <2>2. Count(Kept(p), f[n]) < Count(Kept(p), k)
    BY <1>1, <1>2, <2>1, CountGrows
  <2>3. QED
    BY <1>2, <1>3, <2>2
<1>6. n + 1 \in 1..Len(q) /\ n + 1 <= m /\ n + 1 \in 0..Len(q) /\ m \in 0..Len(q)
  BY <1>2, <1>4, <1>5
<1>7. f[n + 1] <= f[m]
  <2>1. PICK i : i = n + 1
    OBVIOUS
  <2>2. f[i] \in Nat /\ f[i] \in Kept(p) /\ f[m] \in Nat /\ Count(Kept(p), f[i]) = i
        /\ Count(Kept(p), f[m]) = m /\ i <= m /\ i \in Nat /\ m \in Nat
    BY <1>2, <1>6, <2>1, CleanedFacts DEF Cleaned
  <2>3. SUFFICES ASSUME f[m] < f[i] PROVE FALSE
    BY <2>1, <2>2
  <2>4. f[m] \in 0..f[i]
    BY <2>2, <2>3
  <2>5. Count(Kept(p), f[m]) < Count(Kept(p), f[i])
    BY <2>2, <2>3, <2>4, CountGrows
  <2>6. QED
    BY <2>2, <2>5
<1>8. QED
  BY <1>4, <1>6, <1>7

\* Instructions that begin and end no block leave the depth alone.
LEMMA FlatStretch ==
  ASSUME NEW p, NEW a \in Nat, NEW b \in Nat,
         \A j \in (a + 1)..b : ~IsBlockBegin(p[j].operation) /\ ~IsBlockEnd(p[j].operation),
         NEW j \in a..b
  PROVE  Depth(p, j) = Depth(p, a)
<1> DEFINE S == {n \in Nat : a + n <= b => Depth(p, a + n) = Depth(p, a)}
<1>1. 0 \in S
  <2>1. a + 0 = a
    OBVIOUS
  <2>2. QED
    BY <2>1
<1>2. ASSUME NEW n \in Nat, n \in S PROVE n + 1 \in S
  <2>1. SUFFICES ASSUME a + (n + 1) <= b PROVE Depth(p, a + (n + 1)) = Depth(p, a)
    OBVIOUS
  <2>2. PICK m : m = a + (n + 1)
    OBVIOUS
  <2>3. m \in (a + 1)..b /\ m \in Nat \ {0} /\ m - 1 = a + n /\ a + n <= b
    BY <2>1, <2>2
  <2>4. Depth(p, m) = Depth(p, m - 1)
    BY <2>3, TextStep
  <2>5. QED
    BY <1>2, <2>2, <2>3, <2>4
<1> HIDE DEF S
<1>3. Nat \subseteq S
  BY <1>1, <1>2, Induction
<1>4. j - a \in S /\ a + (j - a) = j /\ j <= b
  BY <1>3
<1>5. QED
  BY <1>4 DEF S

LEMMA CleanedWithin ==
  ASSUME NEW p \in Seq(Instruction), NEW q, NEW f, Cleaned(p, q, f)
  PROVE  Within(q, p, f) /\ Depth(q, Len(q)) = Depth(p, Len(p))
<1>1. /\ Len(p) \in Nat /\ Len(q) \in Nat /\ f[0] = 0
      /\ \A n \in 0..Len(q) : f[n] \in Nat /\ f[n] <= Len(p) /\ Count(Kept(p), f[n]) = n
  BY CleanedFacts
<1>2. ASSUME NEW j \in 1..Len(p), j \notin Kept(p)
      PROVE  ~IsBlockBegin(p[j].operation) /\ ~IsBlockEnd(p[j].operation)
  BY <1>2, KeptAre DEF IsNop, IsBlockBegin, IsBlockEnd
<1>3. ASSUME NEW k \in 1..Len(q) PROVE f[k - 1] < f[k]
  <2>1. PICK e : e = k - 1
    OBVIOUS
  <2>2. e \in 0..Len(q) /\ e < k /\ k \in 0..Len(q) /\ e \in Nat /\ k \in Nat
    BY <1>1, <2>1
  <2>3. f[e] \in Nat /\ f[k] \in Nat /\ Count(Kept(p), f[e]) = e /\ Count(Kept(p), f[k]) = k
    BY <1>1, <2>2
  <2>4. SUFFICES ASSUME f[k] <= f[e] PROVE FALSE
    BY <2>1, <2>3
  <2>5. f[k] \in 0..f[e]
    BY <2>3, <2>4
  <2>6. Count(Kept(p), f[k]) <= Count(Kept(p), f[e])
    BY <2>3, <2>5, CountGrows
  <2>7. QED
    BY <2>2, <2>3, <2>6
<1>4. ASSUME NEW k \in 1..Len(q) PROVE Closed(p, f[k - 1], f[k])
  <2>1. PICK e, a, b : e = k - 1 /\ a = f[e] /\ b = f[k] - 1
    OBVIOUS
  <2>2. e \in 0..Len(q) /\ k \in 0..Len(q) /\ e + 1 = k
    BY <1>1, <2>1
  <2>3. a \in Nat /\ f[k] \in Nat /\ a < f[k] /\ f[k] <= Len(p)
    BY <1>1, <1>3, <2>1, <2>2
  <2>4. b \in Nat /\ a <= b /\ b < f[k] /\ b \in a..b
    BY <2>1, <2>3
  <2>5. ASSUME NEW j \in (a + 1)..b
        PROVE  ~IsBlockBegin(p[j].operation) /\ ~IsBlockEnd(p[j].operation)
    <3>1. j \in 1..Len(p) /\ a < j /\ j < f[k] /\ j \in Nat
      BY <1>1, <2>3, <2>4
    <3>2. j \notin Kept(p)
      <4>1. SUFFICES ASSUME j \in Kept(p) PROVE FALSE
        OBVIOUS
      <4>2. f[e + 1] <= j
        BY <2>1, <2>2, <3>1, <4>1, NopsBetween
      <4>3. QED
        BY <2>2, <2>3, <3>1, <4>2
    <3>3. QED
      BY <1>2, <3>1, <3>2
  <2>6. \A j \in a..b : Depth(p, j) = Depth(p, a)
    BY <2>3, <2>4, <2>5, FlatStretch
  <2>7. Depth(p, a) \in Int
    BY <2>3, DepthSteps
  <2>8. \A j \in a..b : Depth(p, j) >= Depth(p, a)
    BY <2>6, <2>7
  <2>9. Closed(p, a, f[k])
    BY <2>1, <2>4, <2>6, <2>8 DEF Closed
  <2>10. QED
    BY <2>1, <2>9
<1>5. ASSUME NEW k \in 1..Len(q) PROVE Alike(q[k].operation, p[f[k]].operation)
  BY AlikeItself DEF Cleaned
<1>6. Within(q, p, f)
  BY <1>1, <1>3, <1>4, <1>5 DEF Within, Cleaned
<1>7. Depth(q, Len(q)) = Depth(p, Len(p))
  <2>1. PICK e, a, b : e = Len(q) /\ a = f[e] /\ b = Len(p)
    OBVIOUS
  <2>2. e \in 0..Len(q) /\ a \in Nat /\ a <= b /\ b \in Nat /\ b \in a..b
    BY <1>1, <2>1
  <2>3. ASSUME NEW j \in (a + 1)..b
        PROVE  ~IsBlockBegin(p[j].operation) /\ ~IsBlockEnd(p[j].operation)
    <3>1. j \in 1..Len(p) /\ a < j
      BY <2>1, <2>2
    <3>2. j \notin Kept(p)
      <4>1. SUFFICES ASSUME j \in Kept(p) PROVE FALSE
        OBVIOUS
      <4>2. e + 1 <= Len(q)
        BY <2>1, <2>2, <3>1, <4>1, NopsBetween
      <4>3. QED
        BY <1>1, <2>1, <4>2
    <3>3. QED
      BY <1>2, <3>1, <3>2
  <2>4. Depth(p, b) = Depth(p, a)
    BY <2>2, <2>3, FlatStretch
  <2>5. Depth(p, f[e]) = Depth(q, e)
    BY <1>1, <1>6, <2>2, WithinDepth
  <2>6. QED
    BY <2>1, <2>4, <2>5
<1>8. QED
  BY <1>6, <1>7

\* The variables that are kept.
KeptVariables(p) == {w \in Nat : DefinerOf(p, w) \notin Nops(p)}

LEMMA RenumberedCounts ==
  ASSUME NEW p, NEW v \in Nat
  PROVE  Renumbered(p, Nops(p), v) = 1 + Count(KeptVariables(p), v - 1)
<1>1. {w \in 1..(v - 1) : DefinerOf(p, w) \notin Nops(p)}
        = {w \in 1..(v - 1) : w \in KeptVariables(p)}
  BY DEF KeptVariables
<1>2. QED
  BY <1>1 DEF Renumbered, Count

\* The variables of one instruction are all kept or all gone.
LEMMA VariablesOfOne ==
  ASSUME NEW p \in Seq(Instruction), NEW d \in 1..Len(p),
         NEW w \in (DefinedBefore(p, d) + 1)..DefinedBefore(p, d + 1)
  PROVE  w \in KeptVariables(p) <=> d \in Kept(p)
<1>1. DefinerOf(p, w) = d
  BY DefinerIs
<1>2. Len(p) \in Nat /\ DOMAIN p = 1..Len(p)
  BY ProgramFacts
<1>3. d \in 1..(Len(p) + 1) /\ d + 1 \in 1..(Len(p) + 1)
  BY <1>2
<1>4. DefinedBefore(p, d) \in Nat /\ DefinedBefore(p, d + 1) \in Nat
  BY <1>3, SlotsFinite
<1>5. w \in Nat
  BY <1>4
<1>6. QED
  BY <1>1, <1>2, <1>5 DEF KeptVariables, Kept, KeptOf

\* The variables kept of the first i instructions are those q defines up to there.
LEMMA KeptVariablesCount ==
  ASSUME NEW p \in Seq(Instruction), NEW q, NEW f, Cleaned(p, q, f), NEW i \in 0..Len(p)
  PROVE  /\ Count(Kept(p), i) + 1 \in 1..(Len(q) + 1)
         /\ Count(KeptVariables(p), DefinedBefore(p, i + 1))
              = DefinedBefore(q, Count(Kept(p), i) + 1)
<1>1. Len(p) \in Nat /\ Len(q) \in Nat /\ q \in Seq(Instruction) /\ Len(q) = Count(Kept(p), Len(p))
  BY CleanedFacts DEF Cleaned
<1>2. ASSUME NEW k \in 0..Len(p) PROVE Count(Kept(p), k) \in Nat /\ Count(Kept(p), k) <= Len(q)
  <2>1. k \in 0..Len(p) /\ Len(p) \in Nat
    BY <1>1
  <2>2. Count(Kept(p), k) \in Nat /\ Count(Kept(p), k) <= Count(Kept(p), Len(p))
    BY <2>1, CountGrows
  <2>3. QED
    BY <1>1, <2>2
<1> DEFINE S == {k \in Nat : k <= Len(p) =>
                   Count(KeptVariables(p), DefinedBefore(p, k + 1))
                     = DefinedBefore(q, Count(Kept(p), k) + 1)}
<1>3. 0 \in S
  <2>1. DefinedBefore(p, 0 + 1) = 0 /\ Count(Kept(p), 0) = 0 /\ Count(KeptVariables(p), 0) = 0
    BY DefinedSteps, CountSteps
  <2>2. DefinedBefore(q, 0 + 1) = 0
    BY <1>1, DefinedSteps
  <2>3. QED
    BY <2>1, <2>2
<1>4. ASSUME NEW k \in Nat, k \in S PROVE k + 1 \in S
  <2>1. SUFFICES ASSUME k + 1 <= Len(p)
                 PROVE  Count(KeptVariables(p), DefinedBefore(p, (k + 1) + 1))
                          = DefinedBefore(q, Count(Kept(p), k + 1) + 1)
    OBVIOUS
  <2>2. PICK m : m = k + 1
    OBVIOUS
  <2>3. m \in 1..Len(p) /\ m \in 1..(Len(p) + 1) /\ k \in 0..Len(p) /\ m - 1 = k
    BY <1>1, <2>1, <2>2
  <2>4. PICK a, d, n : /\ a = DefinedBefore(p, m) /\ d = Defines(p[m].operation)
                       /\ n = Count(Kept(p), k)
    OBVIOUS
  <2>5. a \in Nat /\ d \in Nat /\ n \in Nat /\ n <= Len(q)
    BY <1>2, <2>3, <2>4, SlotsFinite, ProgramFacts, DefinesIsNatural
  <2>6. DefinedBefore(p, m + 1) = a + d
    BY <2>3, <2>4, DefinedSteps
  <2>7. Count(KeptVariables(p), a) = DefinedBefore(q, n + 1)
    BY <1>1, <1>4, <2>1, <2>2, <2>4
  <2>8. Count(Kept(p), m) = IF m \in Kept(p) THEN n + 1 ELSE n
    BY <2>2, <2>4, CountStep
  <2>9. d \in 0..d /\ 0 \in 0..d
    BY <2>5
  <2>10. CASE m \in Kept(p)
    <3>1. \A w \in (a + 1)..(a + d) : w \in KeptVariables(p)
      BY <2>3, <2>4, <2>6, <2>10, VariablesOfOne
    <3>2. Count(KeptVariables(p), a + d) = Count(KeptVariables(p), a) + d
      BY <2>5, <2>9, <3>1, CountRun
    <3>3. n + 1 \in 1..Len(q) /\ f[n + 1] = m
      <4>1. Count(Kept(p), m) \in 1..Len(q) /\ f[Count(Kept(p), m)] = m
        BY <2>10, CleanedAt
      <4>2. QED
        BY <2>8, <2>10, <4>1
    <3>4. q[n + 1].operation = p[m].operation
      BY <3>3 DEF Cleaned
    <3>5. DefinedBefore(q, (n + 1) + 1) = DefinedBefore(q, n + 1) + d
      BY <1>1, <2>4, <3>3, <3>4, DefinedSteps
    <3>6. QED
      BY <2>2, <2>6, <2>7, <2>8, <2>10, <3>2, <3>5
  <2>11. CASE m \notin Kept(p)
    <3>1. \A w \in (a + 1)..(a + d) : w \notin KeptVariables(p)
      BY <2>3, <2>4, <2>6, <2>11, VariablesOfOne
    <3>2. Count(KeptVariables(p), a + d) = Count(KeptVariables(p), a)
      BY <2>5, <2>9, <3>1, CountRun
    <3>3. QED
      BY <2>2, <2>6, <2>7, <2>8, <2>11, <3>2
  <2>12. QED
    BY <2>10, <2>11
<1> HIDE DEF S
<1>5. Nat \subseteq S
  BY <1>3, <1>4, Induction
<1>6. i \in S /\ i <= Len(p)
  BY <1>1, <1>5
<1>7. Count(Kept(p), i) + 1 \in 1..(Len(q) + 1)
  <2>1. Count(Kept(p), i) \in Nat /\ Count(Kept(p), i) <= Len(q)
    BY <1>2
  <2>2. QED
    BY <1>1, <2>1
<1>8. QED
  BY <1>6, <1>7 DEF S

\* A variable that is kept has the number it has in q.
LEMMA CleanedSame ==
  ASSUME NEW p \in Seq(Instruction), NEW q, NEW f, Cleaned(p, q, f),
         NEW v \in 1..DefinedBefore(p, Len(p) + 1), DefinerOf(p, v) \in Kept(p)
  PROVE  /\ Renumbered(p, Nops(p), v) \in 1..DefinedBefore(q, Len(q) + 1)
         /\ Same(q, p, f, Renumbered(p, Nops(p), v), v)
<1>1. Len(p) \in Nat /\ Len(q) \in Nat /\ q \in Seq(Instruction)
  BY CleanedFacts
<1>2. PICK a : a = DefinerOf(p, v)
  OBVIOUS
<1>3. a \in 1..Len(p) /\ v \in (DefinedBefore(p, a) + 1)..DefinedBefore(p, a + 1)
  <2>1. Len(p) + 1 \in 1..(Len(p) + 1)
    BY <1>1
  <2>2. DefinerOf(p, v) \in 1..(Len(p) + 1 - 1)
        /\ v \in (DefinedBefore(p, DefinerOf(p, v)) + 1)..DefinedBefore(p, DefinerOf(p, v) + 1)
    BY <2>1, DefinerExists
  <2>3. QED
    BY <1>1, <1>2, <2>2
<1>4. /\ a \in 1..(Len(p) + 1) /\ a + 1 \in 1..(Len(p) + 1) /\ a - 1 \in 0..Len(p)
      /\ a - 1 + 1 = a
  BY <1>1, <1>3
<1>5. PICK n, x, y, d : /\ n = Count(Kept(p), a) /\ x = DefinedBefore(p, a)
                        /\ y = DefinedBefore(q, n) /\ d = Defines(p[a].operation)
  OBVIOUS
<1>6. n \in 1..Len(q) /\ f[n] = a /\ n = Count(Kept(p), a - 1) + 1
  BY <1>2, <1>5, CleanedAt
<1>7. /\ n \in 1..(Len(q) + 1) /\ n + 1 \in 1..(Len(q) + 1)
      /\ Len(q) + 1 \in 1..(Len(q) + 1) /\ n + 1 \in 1..(Len(q) + 1)
  BY <1>1, <1>6
<1>8. x \in Nat /\ y \in Nat /\ d \in Nat /\ DefinedBefore(p, a + 1) = x + d
  BY <1>1, <1>3, <1>4, <1>5, <1>7, SlotsFinite, ProgramFacts, DefinesIsNatural, DefinedSteps
<1>9. DefinedBefore(q, n + 1) = y + d
  <2>1. q[n].operation = p[a].operation
    BY <1>6 DEF Cleaned
  <2>2. QED
    BY <1>1, <1>5, <1>6, <2>1, DefinedSteps
<1>10. Count(KeptVariables(p), x) = y
  <2>1. PICK e : e = a - 1
    OBVIOUS
  <2>2. e \in 0..Len(p) /\ e + 1 = a /\ Count(Kept(p), e) + 1 = n
    BY <1>4, <1>6, <2>1
  <2>3. Count(KeptVariables(p), DefinedBefore(p, e + 1)) = DefinedBefore(q, Count(Kept(p), e) + 1)
    BY <2>2, KeptVariablesCount
  <2>4. QED
    BY <1>5, <2>2, <2>3
<1>11. PICK z : z = v - x - 1
  OBVIOUS
<1>12. v \in Nat /\ z \in 0..d /\ z < d /\ v = x + z + 1 /\ v - 1 = x + z
  <2>1. v \in (x + 1)..(x + d)
    BY <1>3, <1>5, <1>8
  <2>2. QED
    BY <1>8, <1>11, <2>1
<1>13. Count(KeptVariables(p), x + z) = y + z
  <2>1. \A w \in (x + 1)..(x + d) : w \in KeptVariables(p)
    BY <1>2, <1>3, <1>5, <1>8, VariablesOfOne
  <2>2. Count(KeptVariables(p), x + z) = Count(KeptVariables(p), x) + z
    BY <1>8, <1>12, <2>1, CountRun
  <2>3. QED
    BY <1>10, <2>2
<1>14. PICK w : w = Renumbered(p, Nops(p), v)
  OBVIOUS
<1>15. w = y + z + 1
  <2>1. w = 1 + Count(KeptVariables(p), v - 1)
    BY <1>12, <1>14, RenumberedCounts
  <2>2. QED
    BY <1>8, <1>12, <1>13, <2>1
<1>16. w \in (y + 1)..(y + d) /\ w - y = v - x /\ w \in Nat \ {0}
  BY <1>8, <1>12, <1>15
<1>17. DefinerOf(q, w) = n
  BY <1>1, <1>5, <1>6, <1>9, <1>16, DefinerIs
<1>18. w \in 1..DefinedBefore(q, Len(q) + 1)
  <2>1. n + 1 \in 1..(Len(q) + 1) /\ Len(q) + 1 \in 1..(Len(q) + 1)
    BY <1>7
  <2>2. DefinedBefore(q, n + 1) <= DefinedBefore(q, Len(q) + 1)
    BY <1>1, <2>1, DefinedGrows
  <2>3. DefinedBefore(q, Len(q) + 1) \in Nat
    BY <1>1, <2>1, SlotsFinite
  <2>4. QED
    BY <1>8, <1>9, <1>16, <2>2, <2>3
<1>19. v \in Nat \ {0} /\ v <= DefinedBefore(p, a + 1)
  BY <1>8, <1>12
<1>20. Same(q, p, f, w, v)
  BY <1>2, <1>5, <1>6, <1>16, <1>17, <1>19 DEF Same
<1>21. QED
  BY <1>14, <1>18, <1>20

\* The inputs of an instruction that is kept come from where they came from.
LEMMA CleanedRewired ==
  ASSUME NEW p, Valid(p), NEW q, NEW f, Cleaned(p, q, f), NEW n \in 1..Len(q)
  PROVE  Rewired(q, p, f, n)
<1>1. /\ p \in Seq(Instruction) /\ Len(p) \in Nat
      /\ \A k \in 1..Len(p) : ValidInstruction(p, k, NumRoles, NumConnections)
  BY ValidFacts
<1>2. PICK k, s, t : k = f[n] /\ s = p[k].inputs /\ t = q[n].inputs
  OBVIOUS
<1>3. k \in 1..Len(p) /\ t = RenumberedInputs(p, Nops(p), s)
  BY <1>2 DEF Cleaned
<1>4. s \in Seq(Nat)
  BY <1>1, <1>2, <1>3, ProgramFacts
<1>5. /\ t \in Seq(Nat) /\ Len(t) = Len(s)
      /\ \A j \in 1..Len(s) : t[j] = Renumbered(p, Nops(p), s[j])
  BY <1>3, <1>4, RenumberedInputsAre
<1>6. ASSUME NEW j \in 1..Len(s)
      PROVE  t[j] \in 1..DefinedBefore(q, Len(q) + 1) /\ Same(q, p, f, t[j], s[j])
  <2>1. PICK v : v = s[j]
    OBVIOUS
  <2>2. /\ v \in 1..DefinedBefore(p, k) /\ v \in 1..DefinedBefore(p, Len(p) + 1)
        /\ Visible(p, v, k)
    BY <1>1, <1>2, <1>3, <2>1, InputsDefined
  <2>3. ~IsNop(p[DefinerOf(p, v)].operation)
    BY <2>2 DEF Visible
  <2>4. DefinerOf(p, v) \in 1..Len(p)
    <3>1. Len(p) + 1 \in 1..(Len(p) + 1)
      BY <1>1
    <3>2. DefinerOf(p, v) \in 1..(Len(p) + 1 - 1)
      BY <1>1, <2>2, <3>1, DefinerExists
    <3>3. QED
      BY <1>1, <3>2
  <2>5. DefinerOf(p, v) \in Kept(p)
    BY <1>1, <2>3, <2>4, KeptAre
  <2>6. /\ Renumbered(p, Nops(p), v) \in 1..DefinedBefore(q, Len(q) + 1)
        /\ Same(q, p, f, Renumbered(p, Nops(p), v), v)
    BY <1>1, <2>2, <2>5, CleanedSame
  <2>7. QED
    BY <1>5, <2>1, <2>6
<1>7. QED
  BY <1>2, <1>4, <1>5, <1>6 DEF Rewired

\* A valid program stays valid without its nops.
LEMMA CleanedIsValid ==
  ASSUME NEW p, Valid(p), NEW q, NEW f, Cleaned(p, q, f)
  PROVE  Valid(q)
<1>1. /\ p \in Seq(Instruction) /\ Len(p) \in Nat /\ Depth(p, Len(p)) = 0
      /\ \A k \in 1..Len(p) : ValidInstruction(p, k, NumRoles, NumConnections)
  BY ValidFacts
<1>2. q \in Seq(Instruction) /\ DOMAIN q = 1..Len(q)
  BY <1>1, CleanedFacts, ProgramFacts
<1>3. Within(q, p, f) /\ Depth(q, Len(q)) = 0
  BY <1>1, CleanedWithin
<1>4. ASSUME NEW n \in 1..Len(q) PROVE ValidInstruction(q, n, NumRoles, NumConnections)
  <2>1. f[n] \in 1..Len(p) /\ q[n].operation = p[f[n]].operation
    BY DEF Cleaned
  <2>2. ValidInstruction(p, f[n], NumRoles, NumConnections)
    BY <1>1, <2>1
  <2>3. Indexed(q[n].operation) <=> Indexed(p[f[n]].operation)
    BY <2>1
  <2>4. Rewired(q, p, f, n)
    BY CleanedRewired
  <2>5. QED
    BY <1>1, <1>2, <1>3, <2>2, <2>3, <2>4, WithinValid
<1>5. QED
  BY <1>2, <1>3, <1>4 DEF Valid, ValidProgram, ValidPrefix

-----------------------------------------------------------------------------
(* And it does what it did. *)

\* The parts of Meaning.
SourceOf(p, v) == <<Rank(p, DefinerOf(p, v)), v - DefinedBefore(p, DefinerOf(p, v))>>

Sources(p, k) == [j \in DOMAIN p[k].inputs |-> SourceOf(p, p[k].inputs[j])]

Does(p, k) == <<Rank(p, k), p[k].operation, Sources(p, k)>>

LEMMA MeaningIs ==
  ASSUME NEW p \in Seq(Instruction)
  PROVE  \A x : x \in Meaning(p) <=> \E k \in Kept(p) : x = Does(p, k)
<1>1. {k \in DOMAIN p : ~IsNop(p[k].operation)} = Kept(p)
  BY DEF Kept, KeptOf, Nops
<1>2. Meaning(p) = {Does(p, k) : k \in {k \in DOMAIN p : ~IsNop(p[k].operation)}}
  BY Zenon DEF Meaning, Does, Sources, SourceOf
<1>3. Meaning(p) = {Does(p, k) : k \in Kept(p)}
  BY <1>1, <1>2
<1>4. QED
  BY <1>3

LEMMA RankIs ==
  ASSUME NEW p \in Seq(Instruction), NEW k \in 1..Len(p)
  PROVE  Rank(p, k) = Count(Kept(p), k)
<1>1. Len(p) \in Nat
  BY ProgramFacts
<1>2. ASSUME NEW j \in 1..k PROVE ~IsNop(p[j].operation) <=> j \in Kept(p)
  BY <1>1, KeptAre
<1>3. {j \in 1..k : ~IsNop(p[j].operation)} = {j \in 1..k : j \in Kept(p)}
  BY <1>2
<1>4. QED
  BY <1>3 DEF Rank, Count

\* What is left has no nops, so that ranks are positions.
LEMMA CleanedRank ==
  ASSUME NEW p \in Seq(Instruction), NEW q, NEW f, Cleaned(p, q, f), NEW n \in 1..Len(q)
  PROVE  /\ n \in Kept(q) /\ Rank(q, n) = n
         /\ f[n] \in Kept(p) /\ f[n] \in 1..Len(p) /\ Rank(p, f[n]) = n
<1>1. Len(p) \in Nat /\ Len(q) \in Nat /\ q \in Seq(Instruction)
  BY CleanedFacts
<1>2. ASSUME NEW m \in 1..Len(q) PROVE m \in Kept(q)
  <2>1. f[m] \in Kept(p) /\ q[m].operation = p[f[m]].operation
    BY DEF Cleaned
  <2>2. ~IsNop(q[m].operation)
    BY <2>1, KeptAre
  <2>3. QED
    BY <1>1, <2>2, KeptAre
<1>3. f[n] \in Kept(p) /\ f[n] \in 1..Len(p) /\ Count(Kept(p), f[n]) = n
  BY DEF Cleaned
<1>4. Rank(p, f[n]) = n
  BY <1>3, RankIs
<1>5. Rank(q, n) = n
  <2>1. {j \in 1..n : j \in Kept(q)} = 1..n
    BY <1>1, <1>2
  <2>2. n \in Nat
    BY <1>1
  <2>3. Cardinality(1..n) = n
    BY <2>2, FS_Interval
  <2>4. QED
    BY <1>1, <2>1, <2>3, RankIs DEF Count
<1>6. QED
  BY <1>2, <1>3, <1>4, <1>5

LEMMA CleanedDoes ==
  ASSUME NEW p, Valid(p), NEW q, NEW f, Cleaned(p, q, f), NEW n \in 1..Len(q)
  PROVE  Does(q, n) = Does(p, f[n])
<1>1. p \in Seq(Instruction) /\ Len(p) \in Nat
  BY ValidFacts
<1>2. q \in Seq(Instruction) /\ Len(q) \in Nat
  BY <1>1, CleanedFacts
<1>3. Rank(q, n) = n /\ Rank(p, f[n]) = n
  BY <1>1, CleanedRank
<1>4. q[n].operation = p[f[n]].operation
  BY DEF Cleaned
<1>5. PICK s, t : s = p[f[n]].inputs /\ t = q[n].inputs
  OBVIOUS
<1>6. /\ s \in Seq(Nat) /\ t \in Seq(Nat) /\ Len(s) = Len(t)
      /\ \A j \in 1..Len(t) : t[j] \in 1..DefinedBefore(q, Len(q) + 1) /\ Same(q, p, f, t[j], s[j])
  BY <1>5, CleanedRewired DEF Rewired
<1>7. DOMAIN s = 1..Len(t) /\ DOMAIN t = 1..Len(t)
  BY <1>6, LenProperties
<1>8. ASSUME NEW j \in 1..Len(t) PROVE SourceOf(q, t[j]) = SourceOf(p, s[j])
  <2>1. PICK w, v : w = t[j] /\ v = s[j]
    OBVIOUS
  <2>2. Same(q, p, f, w, v)
    BY <1>6, <2>1
  <2>3. PICK d : d = DefinerOf(q, w)
    OBVIOUS
  <2>4. /\ d \in 1..Len(q) /\ DefinerOf(p, v) = f[d]
        /\ v - DefinedBefore(p, DefinerOf(p, v)) = w - DefinedBefore(q, d)
    BY <2>2, <2>3 DEF Same
  <2>5. Rank(q, d) = d /\ Rank(p, f[d]) = d
    BY <1>1, <2>4, CleanedRank
  <2>6. SourceOf(q, w) = SourceOf(p, v)
    BY <2>3, <2>4, <2>5 DEF SourceOf
  <2>7. QED
    BY <2>1, <2>6
<1>9. Sources(q, n) = Sources(p, f[n])
  BY <1>5, <1>7, <1>8 DEF Sources
<1>10. QED
  BY <1>3, <1>4, <1>9 DEF Does

LEMMA CleanedMeans ==
  ASSUME NEW p, Valid(p), NEW q, NEW f, Cleaned(p, q, f)
  PROVE  Meaning(q) = Meaning(p)
<1>1. p \in Seq(Instruction) /\ q \in Seq(Instruction) /\ Len(q) \in Nat
  BY ValidFacts, CleanedFacts
<1>2. ASSUME NEW n \in Kept(q) PROVE f[n] \in Kept(p) /\ Does(q, n) = Does(p, f[n])
  <2>1. n \in 1..Len(q)
    BY <1>1, KeptAre
  <2>2. QED
    BY <1>1, <2>1, CleanedRank, CleanedDoes
<1>3. ASSUME NEW k \in Kept(p) PROVE \E n \in Kept(q) : k = f[n]
  <2>1. Count(Kept(p), k) \in 1..Len(q) /\ f[Count(Kept(p), k)] = k
    BY <1>1, CleanedAt
  <2>2. Count(Kept(p), k) \in Kept(q)
    BY <1>1, <2>1, CleanedRank
  <2>3. QED
    BY <2>1, <2>2
<1>4. ASSUME NEW x PROVE x \in Meaning(q) <=> x \in Meaning(p)
  <2>1. /\ x \in Meaning(q) <=> \E n \in Kept(q) : x = Does(q, n)
        /\ x \in Meaning(p) <=> \E k \in Kept(p) : x = Does(p, k)
    BY <1>1, MeaningIs
  <2>2. QED
    BY <1>2, <1>3, <2>1
<1>5. QED
  BY <1>4

\* remove_nops keeps a valid program valid, and what it does.
LEMMA RemoveNopsKeeps ==
  ASSUME NEW p, Valid(p)
  PROVE  Valid(RemoveNops(p)) /\ Meaning(RemoveNops(p)) = Meaning(p)
<1>1. p \in Seq(Instruction)
  BY ValidFacts
<1>2. PICK f : Cleaned(p, RemoveNops(p), f)
  BY <1>1, RemoveNopsCleans
<1>3. QED
  BY <1>2, CleanedIsValid, CleanedMeans

-----------------------------------------------------------------------------
(* What the stages write. *)

LEMMA NoppedIsTyped ==
  ASSUME NEW p \in Seq(Instruction), NEW k
  PROVE  NoppedAt(p, k) \in Seq(Instruction)
<1>1. Len(p) \in Nat /\ DOMAIN p = 1..Len(p) /\ \A j \in 1..Len(p) : p[j] \in Instruction
  BY ProgramFacts
<1>2. PICK r : r = NoppedAt(p, k)
  OBVIOUS
<1>3. ASSUME NEW i \in Instruction PROVE Nopped(i) \in Instruction
  <2>1. i.operation \in Operation
    BY DEF Instruction
  <2>2. Len(OutputVariables(i.operation)) \in Nat /\ Len(InnerOutputVariables(i.operation)) \in Nat
    BY <2>1, OutputsTyped, LenProperties
  <2>3. PICK a, b : /\ a = Len(OutputVariables(i.operation))
                    /\ b = Len(InnerOutputVariables(i.operation))
    OBVIOUS
  <2>4. Nop(a, b) \in Operation
    BY <2>2, <2>3 DEF Nop, Operation
  <2>5. << >> \in Seq(Nat)
    OBVIOUS
  <2>6. [inputs |-> << >>, operation |-> Nop(a, b)] \in Instruction
    BY <2>4, <2>5 DEF Instruction
  <2>7. QED
    BY <2>3, <2>6 DEF Nopped
<1>4. r = [j \in 1..Len(p) |-> IF j = k THEN Nopped(p[j]) ELSE p[j]]
  BY <1>1, <1>2 DEF NoppedAt
<1>5. r \in [1..Len(p) -> Instruction]
  BY <1>1, <1>3, <1>4
<1>6. QED
  BY <1>1, <1>2, <1>5, ListIsSequence

\* The entry and what will replace it are valid programs, and at the end of a stage that kept
\* anything the one was written from the other.
WriteInv ==
  /\ Valid(entry) /\ Valid(current_ir)
  /\ pc = "attempt" => Attempt \in Seq(Instruction)
  /\ ~scheduled /\ pc \in {"begin", "while", "done"} /\ success => entry = RemoveNops(current_ir)

LEMMA EntriesAreValid == ASSUME NEW p \in Entries PROVE Valid(p)
  BY EntriesAssumption, ValidIsValidated

LEMMA WriteInvInit == Init => WriteInv
  BY EntriesAreValid DEF Init, WriteInv

\* Whatever a minimizer proposes is a program.
LEMMA ProposedIsTyped ==
  ASSUME MinInv, MinInv', KeptInHand, WriteInv, Propose
  PROVE  Attempt' \in Seq(Instruction)
<1>1. pc = "loop" /\ pc' = "attempt" /\ stage' = stage /\ stage \in 1..3
  BY DEF Propose, MinInv
<1>2. PICK p : p = minimizer.program
  OBVIOUS
<1>3. p \in Seq(Instruction)
  BY <1>1, <1>2, ValidFacts DEF KeptInHand, WriteInv
<1>4. minimizer' = Proposed(Stages[stage], minimizer)
  BY DEF Propose
<1>5. minimizer.program \in Seq(Instruction) /\ minimizer'.program = minimizer.program
  BY <1>2, <1>3, <1>4, StageNames DEF Proposed, MinInv, MinimizerOK
<1>6. CASE stage = 1
  <2>1. PICK T : T = Positions(Stages[stage], minimizer)
    OBVIOUS
  <2>2. minimizer' = [minimizer EXCEPT !.length = Max(T),
                                       !.candidate = <<Cut(minimizer.program, Max(T))>>]
    BY <1>4, <1>6, <2>1, StageNames DEF Proposed
  <2>3. minimizer'.candidate = <<Cut(minimizer.program, Max(T))>>
    BY <2>2 DEF MinInv, MinimizerOK
  <2>4. Attempt' = Cut(minimizer.program, Max(T))
    BY <2>3 DEF Attempt
  <2>5. QED
    BY <1>5, <2>4, WithoutIs DEF Cut
<1>7. CASE stage = 2
  <2>1. Attempt' = BlockRemoved(minimizer'.program, minimizer'.next)
    BY <1>1, <1>7 DEF MinInv, CandidateOK
  <2>2. QED
    BY <1>5, <2>1, WithoutIs DEF BlockRemoved
<1>8. CASE stage = 3
  <2>1. Attempt' = NoppedAt(minimizer'.program, minimizer'.next)
    BY <1>1, <1>8 DEF MinInv, CandidateOK
  <2>2. QED
    BY <1>5, <2>1, NoppedIsTyped
<1>9. QED
  BY <1>1, <1>6, <1>7, <1>8

LEMMA WriteInvNext ==
  ASSUME MinInv, MinInv', KeptInHand, WriteInv, [Next]_vars
  PROVE  WriteInv'
<1>1. CASE TakeEntry
  BY <1>1, EntriesAreValid DEF TakeEntry, FirstRound, WriteInv
<1>2. CASE Round \/ RoundsEnd
  BY <1>2 DEF Round, RoundsEnd, WriteInv
<1>3. CASE PerformSkips
  BY <1>3, StageNames DEF PerformSkips, Advanced, WriteInv
<1>4. CASE PerformBegins
  BY <1>4 DEF PerformBegins, WriteInv
<1>5. CASE Propose
  BY <1>5, ProposedIsTyped DEF Propose, WriteInv
<1>6. CASE Retained
  <2>1. Attempt \in Seq(Instruction) /\ IsStaticallyValid(Attempt)
    BY <1>6 DEF Retained, WriteInv
  <2>2. Valid(Attempt)
    BY <2>1, ValidIsValidated DEF IsStaticallyValid
  <2>3. QED
    BY <1>6, <2>2 DEF Retained, WriteInv
<1>7. CASE Lost \/ ExecutionErrs
  BY <1>7 DEF Lost, ExecutionErrs, WriteInv
<1>8. CASE Exhausted \/ GiveUp
  <2>1. /\ pc = "loop" /\ pc' \in {"begin", "while"} /\ success' = success
        /\ current_ir' = current_ir
        /\ entry' = IF success THEN RemoveNops(current_ir) ELSE entry
    BY <1>8 DEF Exhausted, GiveUp, PerformEnds, Advanced
  <2>2. Valid(RemoveNops(current_ir))
    BY RemoveNopsKeeps DEF WriteInv
  <2>3. QED
    BY <2>1, <2>2 DEF WriteInv
<1>9. CASE UNCHANGED vars
  BY <1>9 DEF vars, WriteInv, Attempt
<1>10. QED
  BY <1>1, <1>2, <1>3, <1>4, <1>5, <1>6, <1>7, <1>8, <1>9 DEF Next, Perform

\* However the stages have reduced an entry it is a statically valid program, although remove_nops
\* runs after the last is_statically_valid; and it does exactly what the last candidate that was
\* run and kept does, each input traced to the instruction that defines it, for entries of any
\* length, every outcome of every candidate and any number of rounds (stages/mod.rs:126-149,
\* lib.rs:60-108).
THEOREM StagesWriteWhatWasRun == Spec => []WrittenIsWhatWasKept
<1>1. KeptInHand /\ WriteInv => WrittenIsWhatWasKept
  <2> SUFFICES ASSUME KeptInHand, WriteInv PROVE WrittenIsWhatWasKept
    OBVIOUS
  <2>1. IsStaticallyValid(entry)
    BY ValidFacts, ValidIsValidated DEF WriteInv, IsStaticallyValid
  <2>2. ASSUME ~scheduled, pc \in {"begin", "while", "done"}, success
        PROVE  Meaning(entry) = Meaning(current_ir)
    BY <2>2, RemoveNopsKeeps DEF WriteInv
  <2>3. QED
    BY <2>1, <2>2 DEF WrittenIsWhatWasKept
<1>2. QED
  BY <1>1, WriteInvInit, WriteInvNext, MinInvHolds, KeptInHandHolds, PTL DEF Spec
=============================================================================
