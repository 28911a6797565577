--------------------------- MODULE WeightsProofs ---------------------------
(***************************************************************************)
(* Proofs about Weights for every number of processes and all arguments.   *)
(*                                                                         *)
(* The walks take no lock, so that the invariant says of a call in its     *)
(* middle what it has read so far (Walking, Adding), in terms that no step *)
(* of another process can change.                                          *)
(***************************************************************************)
EXTENDS Weights, WellFoundedInduction, TLAPS

(* What the proofs need of numbers and sequences.                          *)

(* Every non-empty set of naturals has a least element. *)
LEMMA LeastNatural ==
    ASSUME NEW T, T \subseteq Nat, T # {}
    PROVE  \E x \in T : \A y \in T : x <= y
<1> DEFINE R == OpToRel(<, Nat)
<1>1. PICK x \in T : \A y \in T : ~ (<<y, x>> \in R)
  <2> HIDE DEF R
  <2>1. IsWellFoundedOn(R, Nat)
    BY Zenon, NatLessThanWellFounded DEF R
  <2> QED BY Zenon, <2>1, WFMin
<1>2. ASSUME NEW y \in T PROVE x <= y
  <2>1. ~(y < x)
    BY Zenon, <1>1 DEF OpToRel
  <2> QED BY <2>1
<1> QED BY <1>2

(* f holds the sums of the first terms of a, up to n of them. *)
Sums(f, a, n) == f = [i \in 0..n |-> IF i = 0 THEN 0 ELSE f[i - 1] + a[i]]

(* Every a has sums, up to every n. *)
LEMMA SumsExist == \A a : \A n \in Nat : \E f : Sums(f, a, n)
<1> TAKE a
<1> DEFINE T == {n \in Nat : ~ \E f : Sums(f, a, n)}
<1> SUFFICES ASSUME T # {} PROVE FALSE
  OBVIOUS
<1>1. PICK n \in T : \A m \in T : n <= m
  <2>1. T \subseteq Nat
    OBVIOUS
  <2> HIDE DEF T
  <2> QED BY Zenon, <2>1, LeastNatural
<1>2. CASE n = 0
  <2> DEFINE f == [i \in 0..0 |-> 0]
  <2>1. Sums(f, a, 0)
    BY DEF Sums
  <2> QED BY <1>1, <1>2, <2>1
<1>3. CASE n # 0
  <2>1. n - 1 \in Nat /\ n \in Nat /\ n - 1 \notin T
    BY <1>1, <1>3
  <2>2. PICK g : Sums(g, a, n - 1)
    BY <2>1
  <2> DEFINE f == [i \in 0..n |-> IF i = n THEN g[n - 1] + a[n] ELSE g[i]]
  <2>3. \A i \in 0..n : i # n => i \in 0..(n - 1) /\ f[i] = g[i]
    BY <2>1
  <2>4. \A i \in 0..n : i # 0 => f[i - 1] = g[i - 1]
    BY <2>1
  <2>5. ASSUME NEW i \in 0..n PROVE f[i] = IF i = 0 THEN 0 ELSE f[i - 1] + a[i]
    <3>1. CASE i = n
      <4>1. f[i] = g[n - 1] + a[n] /\ f[i - 1] = g[i - 1]
        BY <1>3, <2>1, <2>4, <3>1
      <4> HIDE DEF f
      <4> QED BY <1>3, <3>1, <4>1
    <3>2. CASE i # n
      <4>1. i \in 0..(n - 1) /\ f[i] = g[i] /\ (i # 0 => f[i - 1] = g[i - 1])
        BY <2>3, <2>4, <3>2
      <4> HIDE DEF f
      <4> QED BY <2>2, <4>1 DEF Sums
    <3> QED BY <3>1, <3>2
  <2>6. Sums(f, a, n)
    <3>1. f = [i \in 0..n |-> f[i]]
      OBVIOUS
    <3> HIDE DEF f
    <3> QED BY Zenon, <2>5, <3>1 DEF Sums
  <2> QED BY <1>1, <2>6
<1> QED BY <1>2, <1>3

(* What a sum is. *)
LEMMA SumsAt ==
    ASSUME NEW f, NEW a, NEW n, Sums(f, a, n), NEW i \in 0..n
    PROVE  f[i] = IF i = 0 THEN 0 ELSE f[i - 1] + a[i]
BY DEF Sums

(* The first n terms of a and b agree, but for the one at x. *)
AgreeBut(a, b, n, x) ==
    \A i \in 1..n : a[i] \in Int /\ b[i] \in Int /\ (i # x => a[i] = b[i])

(* The sums of integers are integers, and sums of terms that agree but for *)
(* the one at x differ by the difference of those.                         *)
LEMMA SumsDiffer ==
    ASSUME NEW n \in Nat, NEW a, NEW b, NEW x \in Nat, AgreeBut(a, b, n, x), NEW f, Sums(f, a, n),
           NEW m \in Nat, n <= m, NEW g, Sums(g, b, m)
    PROVE  /\ f[n] \in Int /\ g[n] \in Int
           /\ g[n] = f[n] + (IF x \in 1..n THEN b[x] - a[x] ELSE 0)
<1> DEFINE D(i) == IF x \in 1..i THEN b[x] - a[x] ELSE 0
           P(i) == f[i] \in Int /\ g[i] \in Int /\ g[i] = f[i] + D(i)
           T == {i \in 0..n : ~P(i)}
<1> SUFFICES ASSUME T # {} PROVE FALSE
  OBVIOUS
<1>0. \A i \in 1..n : a[i] \in Int /\ b[i] \in Int /\ (i # x => a[i] = b[i])
  BY DEF AgreeBut
<1>1. PICK i \in T : \A j \in T : i <= j
  <2>1. T \subseteq Nat
    OBVIOUS
  <2> HIDE DEF T
  <2> QED BY Zenon, <2>1, LeastNatural
<1>2. i \in 0..n /\ i \in 0..m /\ ~P(i)
  BY <1>1
<1>3. /\ f[i] = IF i = 0 THEN 0 ELSE f[i - 1] + a[i]
      /\ g[i] = IF i = 0 THEN 0 ELSE g[i - 1] + b[i]
  BY <1>2, SumsAt
<1>4. CASE i = 0
  <2>1. D(i) = 0
    BY <1>4
  <2> HIDE DEF D
  <2> QED BY <1>2, <1>3, <1>4, <2>1
<1>5. CASE i # 0
  <2>1. i \in 1..n /\ i - 1 \in 0..n /\ i - 1 \notin T
    BY <1>1, <1>2, <1>5
  <2>2. P(i - 1)
    BY <2>1
  <2>3. a[i] \in Int /\ b[i] \in Int /\ (i # x => a[i] = b[i])
    BY <1>0, <2>1
  <2>4. D(i) = IF i = x THEN b[x] - a[x] ELSE D(i - 1)
    <3>1. x \in 1..i <=> i = x \/ x \in 1..(i - 1)
      BY <2>1
    <3> QED BY <3>1
  <2>5. i = x => D(i - 1) = 0
    BY <2>1
  <2>6. D(i - 1) \in Int
    <3>1. x \in 1..(i - 1) => x \in 1..n
      BY <2>1
    <3> QED BY <1>0, <3>1
  <2> HIDE DEF D
  <2>7. P(i)
    BY <1>3, <1>5, <2>2, <2>3, <2>4, <2>5, <2>6
  <2> QED BY <1>2, <2>7
<1> QED BY <1>4, <1>5

(* Sequences. *)

(* What a sequence holds is in its set. *)
LEMMA SeqItem ==
    ASSUME NEW S, NEW s \in Seq(S), NEW n \in 1..Len(s)
    PROVE  s[n] \in S
OBVIOUS

(* What Append returns. *)
LEMMA SeqAppend ==
    ASSUME NEW S, NEW s \in Seq(S), NEW e \in S
    PROVE  /\ Append(s, e) \in Seq(S) /\ Len(Append(s, e)) = Len(s) + 1
           /\ Append(s, e) # << >> /\ Append(s, e)[Len(s) + 1] = e
           /\ \A i \in 1..Len(s) : Append(s, e)[i] = s[i]
OBVIOUS

-----------------------------------------------------------------------------
USE WeightsAssumption

Reads == Seq(Procs \X Nat)

-----------------------------------------------------------------------------
(* What a walk has read. *)

(* s is seen with one more read, w of process a. *)
Longer(s, seen, a, w) ==
    /\ s \in Reads /\ Len(s) = Len(seen) + 1 /\ s[Len(s)] = <<a, w>>
    /\ \A i \in 1..Len(seen) : s[i] = seen[i]

(* Reading the weight w of a adds it at the end. *)
LEMMA ReadMore ==
    ASSUME NEW seen \in Reads, NEW a \in Procs, NEW w \in Nat
    PROVE  Longer(Append(seen, <<a, w>>), seen, a, w)
<1>1. <<a, w>> \in Procs \X Nat
  OBVIOUS
<1> DEFINE e == <<a, w>>
           S == Procs \X Nat
<1>2. e \in S /\ seen \in Seq(S)
  BY <1>1 DEF Reads
<1> HIDE DEF e, S
<1>3. /\ Append(seen, e) \in Seq(S) /\ Len(Append(seen, e)) = Len(seen) + 1
      /\ Append(seen, e)[Len(seen) + 1] = e
      /\ \A i \in 1..Len(seen) : Append(seen, e)[i] = seen[i]
  BY <1>2, SeqAppend
<1> QED BY <1>3 DEF Longer, Reads, e, S

(* A read is of a process and of a natural number. *)
LEMMA ReadFacts ==
    ASSUME NEW seen \in Reads
    PROVE  /\ Len(seen) \in Nat
           /\ \A i \in 1..Len(seen) : seen[i][1] \in Procs /\ seen[i][2] \in Nat
<1>1. Len(seen) \in Nat
  BY DEF Reads
<1>2. ASSUME NEW i \in 1..Len(seen) PROVE seen[i][1] \in Procs /\ seen[i][2] \in Nat
  <2>1. seen[i] \in Procs \X Nat
    BY SeqItem DEF Reads
  <2> QED BY <2>1
<1> QED BY <1>1, <1>2

(* Processes that exist, each the parent of the one before. *)
Chain(seen, L, par) ==
    /\ \A i \in 1..Len(seen) : seen[i][1] \in 1..L
    /\ \A i \in 2..Len(seen) : seen[i][1] = par[seen[i - 1][1]]

(* Of the first m reads, seen[k] is the nearest of the lightest divisors   *)
(* of own.                                                                 *)
Best(seen, m, own, k) ==
    /\ k \in 1..m /\ Divides(seen[k][2], own)
    /\ \A j \in 1..m : Divides(seen[j][2], own) =>
          seen[k][2] < seen[j][2] \/ (seen[k][2] = seen[j][2] /\ k <= j)

(* There is only one of them, the one that LightestDivisor chooses. *)
LEMMA BestIsChosen ==
    ASSUME NEW seen \in Reads, NEW k, seen[1][2] # 0, Best(seen, Len(seen), seen[1][2], k)
    PROVE  LightestDivisor(seen) = seen[k][1]
<1> DEFINE own == seen[1][2]
           ok == {i \in 1..Len(seen) : Divides(seen[i][2], own)}
           P(i) == \A j \in ok : seen[i][2] < seen[j][2] \/ (seen[i][2] = seen[j][2] /\ i <= j)
           best == CHOOSE i \in ok : P(i)
<1>1. LightestDivisor(seen) = seen[best][1]
  BY DEF LightestDivisor
<1>2. k \in ok /\ P(k)
  BY DEF Best
<1>3. best \in ok /\ P(best)
  <2> HIDE DEF ok, P
  <2> QED BY <1>2
<1>4. \A i \in ok : i \in 1..Len(seen) /\ i \in Nat /\ seen[i][2] \in Nat
  BY ReadFacts
<1> HIDE DEF ok, best
<1>5. best = k
  BY <1>2, <1>3, <1>4
<1> QED BY <1>1, <1>5

-----------------------------------------------------------------------------
(* get_lightest_divisor_ancestor. *)

WalkOps == {"climb", "divide", "compare", "take"}

WalkOf(op, at, cur, min, pid, seen, torn) ==
    [op |-> op, at |-> at, cur_weight |-> cur, min_weight |-> min,
     min_pid |-> pid, seen |-> seen, torn |-> torn]

WalkRec == [op : WalkOps, at : Procs, cur_weight : Nat, min_weight : Nat,
            min_pid : Procs, seen : Reads, torn : BOOLEAN]

(* The walk of p has read `seen', up to `at', and has chosen pid. *)
Path(at, cur, min, pid, seen, p, L, par) ==
    /\ at \in Procs /\ cur \in Nat /\ min \in Nat /\ pid \in Procs /\ seen \in Reads
    /\ p # 1 /\ cur # 0
    /\ Len(seen) >= 1 /\ seen[1] = <<p, cur>> /\ seen[Len(seen)][1] = at
    /\ Chain(seen, L, par)
    /\ \E i \in 1..Len(seen) : pid = seen[i][1]

(* The choice is the best of the first m reads. *)
Chosen(min, pid, seen, m, cur) ==
    \E k : Best(seen, m, cur, k) /\ seen[k] = <<pid, min>>

(* What a walk in the middle of a round knows of the last weight it read,  *)
(* when that has not changed since.                                        *)
InRound(op, cur, min, pid, seen) ==
    /\ Chosen(min, pid, seen, Len(seen) - 1, cur)
    /\ op \in {"compare", "take"} => Divides(seen[Len(seen)][2], cur)
    /\ op = "take" => seen[Len(seen)][2] < min

(* The walk of p, so far. *)
Walking(c, p, L, par) ==
    /\ c \in WalkRec
    /\ Path(c.at, c.cur_weight, c.min_weight, c.min_pid, c.seen, p, L, par)
    /\ c.op # "climb" => c.seen[Len(c.seen)][2] # 0
    /\ ~c.torn =>
          IF c.op = "climb"
          THEN Chosen(c.min_weight, c.min_pid, c.seen, Len(c.seen), c.cur_weight)
          ELSE InRound(c.op, c.cur_weight, c.min_weight, c.min_pid, c.seen)

(* The answer to p. *)
Walked(result, seen, torn, p, L, par) ==
    /\ seen \in Reads /\ Len(seen) >= 1 /\ Chain(seen, L, par)
    /\ seen[1][1] = p
    /\ seen[1][2] # 0 /\ p # 1 => seen[Len(seen)][1] = 1
    /\ \E i \in 1..Len(seen) : result = seen[i][1]
    /\ ~torn => result = LightestDivisor(seen)

(* What a step of the walk may leave. *)
Outcome(c, p, L, par) ==
    \/ c.op \in WalkOps /\ Walking(c, p, L, par)
    \/ c.op = "ancestor" /\ Walked(c.result, c.seen, c.torn, p, L, par)
    \/ c.op = "fault" /\ c.torn

(* A number divides itself. *)
LEMMA DividesItself == \A v \in Nat : v # 0 => Divides(v, v)
BY DEF Divides

(* The first read is the caller's own. *)
LEMMA FirstRead ==
    ASSUME NEW p \in Procs, NEW v \in Nat, NEW L \in Nat, p \in 1..L, NEW par
    PROVE  /\ <<<<p, v>>>> \in Reads /\ Len(<<<<p, v>>>>) = 1 /\ <<<<p, v>>>>[1] = <<p, v>>
           /\ Chain(<<<<p, v>>>>, L, par)
           /\ v # 0 => Best(<<<<p, v>>>>, 1, v, 1)
<1> DEFINE s == <<<<p, v>>>>
<1>1. s \in Reads /\ Len(s) = 1 /\ s[1] = <<p, v>>
  BY DEF Reads
<1> HIDE DEF s
<1>2. Chain(s, L, par)
  BY <1>1 DEF Chain
<1>3. v # 0 => Best(s, 1, v, 1)
  BY <1>1, DividesItself DEF Best
<1> QED BY <1>1, <1>2, <1>3 DEF s

(* The parent of the last process read continues the chain. *)
LEMMA ChainMore ==
    ASSUME NEW seen \in Reads, NEW L, NEW par, Chain(seen, L, par), Len(seen) >= 1,
           NEW a \in Procs, a \in 1..L, a = par[seen[Len(seen)][1]],
           NEW w \in Nat, NEW s, Longer(s, seen, a, w)
    PROVE  Chain(s, L, par)
<1>0. Len(seen) \in Nat /\ Len(s) = Len(seen) + 1 /\ s[Len(s)][1] = a
  BY ReadFacts DEF Longer
<1>1. ASSUME NEW i \in 1..Len(s) PROVE s[i][1] \in 1..L
  <2>1. CASE i = Len(s)
    BY <1>0, <2>1
  <2>2. CASE i # Len(s)
    <3>1. i \in 1..Len(seen)
      BY <1>0, <2>2
    <3> QED BY <3>1 DEF Longer, Chain
  <2> QED BY <2>1, <2>2
<1>2. ASSUME NEW i \in 2..Len(s) PROVE s[i][1] = par[s[i - 1][1]]
  <2>0. i - 1 \in 1..Len(seen)
    BY <1>0
  <2>1. s[i - 1] = seen[i - 1]
    BY <2>0 DEF Longer
  <2>2. CASE i = Len(s)
    <3>1. i - 1 = Len(seen)
      BY <1>0, <2>2
    <3> QED BY <1>0, <2>1, <2>2, <3>1
  <2>3. CASE i # Len(s)
    <3>1. i \in 2..Len(seen) /\ i \in 1..Len(seen)
      BY <1>0, <2>3
    <3>2. s[i] = seen[i] /\ seen[i][1] = par[seen[i - 1][1]]
      BY <3>1 DEF Longer, Chain
    <3> QED BY <2>1, <3>2
  <2> QED BY <2>2, <2>3
<1> QED BY <1>1, <1>2 DEF Chain
(* One more read: the best of those before is the same. *)
LEMMA BestLonger ==
    ASSUME NEW seen \in Reads, NEW own, NEW k, Best(seen, Len(seen), own, k),
           NEW a, NEW w, NEW s, Longer(s, seen, a, w)
    PROVE  Best(s, Len(s) - 1, own, k) /\ s[k] = seen[k]
<1>1. Len(seen) \in Nat /\ Len(s) - 1 = Len(seen) /\ \A j \in 1..Len(seen) : s[j] = seen[j]
  BY ReadFacts DEF Longer
<1>2. k \in 1..Len(seen) /\ s[k] = seen[k]
  BY Zenon, <1>1 DEF Best
<1>3. ASSUME NEW j \in 1..Len(seen), Divides(s[j][2], own)
      PROVE  s[k][2] < s[j][2] \/ (s[k][2] = s[j][2] /\ k <= j)
  <2>1. s[j] = seen[j] /\ Divides(seen[j][2], own)
    BY Zenon, <1>1, <1>3
  <2>2. seen[k][2] < seen[j][2] \/ (seen[k][2] = seen[j][2] /\ k <= j)
    BY Zenon, <2>1 DEF Best
  <2> QED BY Zenon, <1>2, <2>1, <2>2
<1>4. Divides(s[k][2], own)
  BY Zenon, <1>2 DEF Best
<1> QED BY Zenon, <1>1, <1>2, <1>3, <1>4 DEF Best

(* The choice of lines 54-60: a last read that is a lighter divisor is the *)
(* best, and any other leaves the best as it was.                          *)
LEMMA BestMore ==
    ASSUME NEW s \in Reads, NEW own \in Nat, NEW k, Best(s, Len(s) - 1, own, k)
    PROVE  LET w == s[Len(s)][2] IN
           /\ Divides(w, own) /\ w < s[k][2] => Best(s, Len(s), own, Len(s))
           /\ ~(Divides(w, own) /\ w < s[k][2]) => Best(s, Len(s), own, k)
<1> DEFINE n == Len(s)
           w == s[n][2]
<1>0. n \in Nat /\ \A j \in 1..n : s[j][2] \in Nat
  BY ReadFacts
<1>1. /\ k \in 1..(n - 1) /\ Divides(s[k][2], own)
      /\ \A j \in 1..(n - 1) : Divides(s[j][2], own) =>
            s[k][2] < s[j][2] \/ (s[k][2] = s[j][2] /\ k <= j)
  BY Zenon DEF Best
<1> HIDE DEF n
<1>2. k \in 1..n /\ n \in 1..n /\ k <= n /\ k \in Nat /\ s[k][2] \in Nat /\ w \in Nat
  BY <1>0, <1>1
<1>3. \A j \in 1..n : j = n \/ j \in 1..(n - 1)
  BY <1>0
<1> HIDE DEF w
<1>4. ASSUME Divides(w, own), w < s[k][2] PROVE Best(s, n, own, n)
  <2>1. ASSUME NEW j \in 1..n, Divides(s[j][2], own)
        PROVE  w < s[j][2] \/ (w = s[j][2] /\ n <= j)
    <3>1. CASE j = n
      BY <1>0, <3>1 DEF w
    <3>2. CASE j \in 1..(n - 1)
      <4>1. s[j][2] \in Nat /\ (s[k][2] < s[j][2] \/ s[k][2] = s[j][2])
        BY <1>0, <1>1, <2>1, <3>2
      <4> QED BY <1>2, <1>4, <4>1
    <3> QED BY <1>3, <3>1, <3>2
  <2> QED BY Zenon, <1>2, <1>4, <2>1 DEF Best, w
<1>5. ASSUME ~(Divides(w, own) /\ w < s[k][2]) PROVE Best(s, n, own, k)
  <2>1. ASSUME NEW j \in 1..n, Divides(s[j][2], own)
        PROVE  s[k][2] < s[j][2] \/ (s[k][2] = s[j][2] /\ k <= j)
    <3>1. CASE j = n
      <4>1. s[j][2] = w /\ ~(w < s[k][2])
        BY <1>5, <2>1, <3>1 DEF w
      <4> QED BY <1>2, <3>1, <4>1
    <3>2. CASE j \in 1..(n - 1)
      BY Zenon, <1>1, <2>1, <3>2
    <3> QED BY <1>3, <3>1, <3>2
  <2> QED BY Zenon, <1>1, <1>2, <2>1 DEF Best
<1> QED BY <1>4, <1>5 DEF w, n

(* The fields of a walk. *)
LEMMA WalkFields ==
    \A c \in WalkRec :
        c = WalkOf(c.op, c.at, c.cur_weight, c.min_weight, c.min_pid, c.seen, c.torn)
BY DEF WalkRec, WalkOf

(* A walk with good fields is a walk. *)
LEMMA WalkTyped ==
    ASSUME NEW op \in WalkOps, NEW at \in Procs, NEW cur \in Nat, NEW min \in Nat,
           NEW pid \in Procs, NEW seen \in Reads, NEW torn \in BOOLEAN
    PROVE  WalkOf(op, at, cur, min, pid, seen, torn) \in WalkRec
BY DEF WalkRec, WalkOf

(* Reading the ancestor's weight again. *)
LEMMA AgainFields ==
    ASSUME NEW c \in WalkRec, NEW op, NEW w
    PROVE  again(c, op, w) =
              WalkOf(op, c.at, c.cur_weight, c.min_weight, c.min_pid, c.seen,
                     c.torn \/ w # c.seen[Len(c.seen)][2])
<1> DEFINE t == c.torn \/ w # c.seen[Len(c.seen)][2]
<1>1. again(c, op, w) = [c EXCEPT !.op = op, !.torn = t]
  BY DEF again
<1> HIDE DEF t
<1>2. c = WalkOf(c.op, c.at, c.cur_weight, c.min_weight, c.min_pid, c.seen, c.torn)
  BY Zenon, WalkFields
<1> DEFINE d == [c EXCEPT !.op = op]
<1>3. d = WalkOf(op, c.at, c.cur_weight, c.min_weight, c.min_pid, c.seen, c.torn)
  BY <1>2 DEF WalkOf
<1>4. again(c, op, w) = [d EXCEPT !.torn = t]
  BY <1>1
<1> HIDE DEF d
<1>5. again(c, op, w) = WalkOf(op, c.at, c.cur_weight, c.min_weight, c.min_pid, c.seen, t)
  BY <1>3, <1>4 DEF WalkOf
<1> QED BY Zenon, <1>5 DEF t

(* The end of a round: the walk goes on, or at init has its answer. *)
LEMMA RoundStep ==
    ASSUME NEW op, NEW at, NEW cur, NEW min, NEW pid, NEW seen, NEW torn \in BOOLEAN,
           NEW p, NEW L, NEW par,
           Path(at, cur, min, pid, seen, p, L, par),
           ~torn => Chosen(min, pid, seen, Len(seen), cur)
    PROVE  Outcome(round(WalkOf(op, at, cur, min, pid, seen, torn)), p, L, par)
<1> DEFINE c == WalkOf(op, at, cur, min, pid, seen, torn)
           r == round(c)
<1>1. /\ c.at = at /\ c.cur_weight = cur /\ c.min_weight = min
      /\ c.min_pid = pid /\ c.seen = seen /\ c.torn = torn
  BY DEF WalkOf
<1>2. CASE at = 1
  <2>1. r = ancestorIs(pid, seen, torn)
    BY Zenon, <1>1, <1>2 DEF round
  <2>2. r.op = "ancestor" /\ r.result = pid /\ r.seen = seen /\ r.torn = torn
    <3> HIDE DEF r
    <3> QED BY <2>1 DEF ancestorIs
  <2>3. /\ seen \in Reads /\ Len(seen) >= 1 /\ Chain(seen, L, par) /\ cur # 0
        /\ seen[1] = <<p, cur>> /\ seen[Len(seen)][1] = 1
        /\ \E i \in 1..Len(seen) : pid = seen[i][1]
    BY Zenon, <1>2 DEF Path
  <2>4. seen[1][1] = p /\ seen[1][2] = cur
    BY <2>3
  <2>5. ASSUME ~torn PROVE pid = LightestDivisor(seen)
    <3>1. PICK k : Best(seen, Len(seen), cur, k) /\ seen[k] = <<pid, min>>
      BY Zenon, <2>5 DEF Chosen
    <3>2. LightestDivisor(seen) = seen[k][1]
      BY Zenon, <2>3, <2>4, <3>1, BestIsChosen
    <3> QED BY <3>1, <3>2
  <2>6. Walked(pid, seen, torn, p, L, par)
    BY Zenon, <2>3, <2>4, <2>5 DEF Walked
  <2> HIDE DEF r
  <2>7. Outcome(r, p, L, par)
    BY Zenon, <2>2, <2>6 DEF Outcome
  <2> QED BY <2>7 DEF r
<1>3. CASE at # 1
  <2>1. r = [c EXCEPT !.op = "climb"]
    BY Zenon, <1>1, <1>3 DEF round
  <2>2. r = WalkOf("climb", at, cur, min, pid, seen, torn)
    BY <2>1 DEF WalkOf
  <2> HIDE DEF r
  <2>3. /\ r.op = "climb" /\ r.at = at /\ r.cur_weight = cur /\ r.min_weight = min
        /\ r.min_pid = pid /\ r.seen = seen /\ r.torn = torn
    BY <2>2 DEF WalkOf
  <2>4. r \in WalkRec
    <3>1. "climb" \in WalkOps
      BY DEF WalkOps
    <3> QED BY Zenon, <2>2, <3>1, WalkTyped DEF Path
  <2>5. Walking(r, p, L, par)
    BY Zenon, <2>3, <2>4 DEF Walking
  <2>6. Outcome(r, p, L, par)
    BY Zenon, <2>4, <2>5 DEF Outcome, WalkRec
  <2> QED BY <2>6 DEF r
<1> QED BY <1>2, <1>3

(* A last read that is no lighter divisor leaves the choice. *)
LEMMA SkipLast ==
    ASSUME NEW s \in Reads, NEW cur \in Nat, NEW min, NEW pid,
           Chosen(min, pid, s, Len(s) - 1, cur),
           ~(Divides(s[Len(s)][2], cur) /\ s[Len(s)][2] < min)
    PROVE  Chosen(min, pid, s, Len(s), cur)
<1>1. PICK k : Best(s, Len(s) - 1, cur, k) /\ s[k] = <<pid, min>>
  BY Zenon DEF Chosen
<1>2. s[k][2] = min
  BY <1>1
<1>3. Best(s, Len(s), cur, k)
  BY Zenon, <1>1, <1>2, BestMore
<1> QED BY Zenon, <1>1, <1>3 DEF Chosen

(* One that is becomes the choice. *)
LEMMA TakeLast ==
    ASSUME NEW s \in Reads, NEW cur \in Nat, NEW min, NEW pid, NEW a, NEW w,
           Chosen(min, pid, s, Len(s) - 1, cur), s[Len(s)] = <<a, w>>,
           Divides(w, cur), w < min
    PROVE  Chosen(w, a, s, Len(s), cur)
<1>1. PICK k : Best(s, Len(s) - 1, cur, k) /\ s[k] = <<pid, min>>
  BY Zenon DEF Chosen
<1>2. s[k][2] = min /\ s[Len(s)][2] = w
  BY <1>1
<1>3. Best(s, Len(s), cur, Len(s))
  BY Zenon, <1>1, <1>2, BestMore
<1> QED BY Zenon, <1>3 DEF Chosen

(* A walk that stays in the round. *)
LEMMA StayStep ==
    ASSUME NEW op \in WalkOps, op # "climb",
           NEW at, NEW cur, NEW min, NEW pid, NEW seen, NEW torn \in BOOLEAN,
           NEW p, NEW L, NEW par,
           Path(at, cur, min, pid, seen, p, L, par), seen[Len(seen)][2] # 0,
           ~torn => InRound(op, cur, min, pid, seen)
    PROVE  Outcome(WalkOf(op, at, cur, min, pid, seen, torn), p, L, par)
<1> DEFINE r == WalkOf(op, at, cur, min, pid, seen, torn)
<1>1. /\ r.op = op /\ r.at = at /\ r.cur_weight = cur /\ r.min_weight = min
      /\ r.min_pid = pid /\ r.seen = seen /\ r.torn = torn
  BY DEF WalkOf
<1>2. r \in WalkRec
  BY Zenon, WalkTyped DEF Path
<1> HIDE DEF r
<1>3. Walking(r, p, L, par)
  BY Zenon, <1>1, <1>2 DEF Walking
<1>4. Outcome(r, p, L, par)
  BY Zenon, <1>1, <1>3 DEF Outcome
<1> QED BY <1>4 DEF r

(* The fields of a walk of p. *)
LEMMA WalkingFacts ==
    ASSUME NEW c, NEW p, NEW L, NEW par, Walking(c, p, L, par)
    PROVE  /\ c \in WalkRec /\ c.op \in WalkOps /\ c.torn \in BOOLEAN
           /\ Path(c.at, c.cur_weight, c.min_weight, c.min_pid, c.seen, p, L, par)
           /\ c.at \in Procs /\ c.cur_weight \in Nat /\ c.min_weight \in Nat
           /\ c.min_pid \in Procs /\ c.seen \in Reads /\ c.cur_weight # 0
           /\ Len(c.seen) >= 1 /\ Len(c.seen) \in Nat /\ Len(c.seen) \in 1..Len(c.seen)
           /\ c.seen[Len(c.seen)][2] \in Nat /\ c.seen[Len(c.seen)][1] = c.at
<1>1. /\ c \in WalkRec
      /\ Path(c.at, c.cur_weight, c.min_weight, c.min_pid, c.seen, p, L, par)
  BY Zenon DEF Walking
<1>2. c.op \in WalkOps /\ c.torn \in BOOLEAN
  BY <1>1 DEF WalkRec
<1>3. /\ c.at \in Procs /\ c.cur_weight \in Nat /\ c.min_weight \in Nat
      /\ c.min_pid \in Procs /\ c.seen \in Reads /\ c.cur_weight # 0
      /\ Len(c.seen) >= 1 /\ c.seen[Len(c.seen)][1] = c.at
  BY Zenon, <1>1 DEF Path
<1>4. Len(c.seen) \in Nat /\ \A i \in 1..Len(c.seen) : c.seen[i][2] \in Nat
  BY Zenon, <1>3, ReadFacts
<1>5. Len(c.seen) \in 1..Len(c.seen)
  BY <1>3, <1>4
<1> QED BY Zenon, <1>1, <1>2, <1>3, <1>4, <1>5

(* Lines 53-56: the parent a of weight w is read for the first time. *)
LEMMA ClimbStep ==
    ASSUME NEW c, NEW p, NEW L \in Nat, L <= N, NEW par, Walking(c, p, L, par),
           c.op = "climb", NEW a, a = par[c.at], a \in 1..L, NEW w \in Nat
    PROVE  Outcome(climb(c, a, w), p, L, par)
<1> DEFINE s == Append(c.seen, <<a, w>>)
           n == WalkOf("divide", a, c.cur_weight, c.min_weight, c.min_pid, s, c.torn)
<1>1. /\ c \in WalkRec /\ c.op \in WalkOps /\ c.torn \in BOOLEAN
      /\ c.at \in Procs /\ c.cur_weight \in Nat /\ c.min_weight \in Nat
      /\ c.min_pid \in Procs /\ c.seen \in Reads /\ c.cur_weight # 0
      /\ Len(c.seen) >= 1 /\ Len(c.seen) \in Nat
      /\ c.seen[Len(c.seen)][1] = c.at
  BY Zenon, WalkingFacts
<1>2. climb(c, a, w) = IF w = 0 THEN round(n) ELSE n
  <2> DEFINE d == [c EXCEPT !.op = "divide"]
             e == [d EXCEPT !.at = a]
             m == [e EXCEPT !.seen = s]
  <2>0. climb(c, a, w) = IF w = 0 THEN round(m) ELSE m
    BY <1>1 DEF climb, WalkRec
  <2>1. c = WalkOf(c.op, c.at, c.cur_weight, c.min_weight, c.min_pid, c.seen, c.torn)
    BY Zenon, <1>1, WalkFields
  <2> HIDE DEF s
  <2>2. d = WalkOf("divide", c.at, c.cur_weight, c.min_weight, c.min_pid, c.seen, c.torn)
    BY <2>1 DEF WalkOf
  <2> HIDE DEF d
  <2>3. e = WalkOf("divide", a, c.cur_weight, c.min_weight, c.min_pid, c.seen, c.torn)
    BY <2>2 DEF WalkOf
  <2> HIDE DEF e
  <2>4. m = n
    BY <2>3 DEF WalkOf
  <2> HIDE DEF m, n
  <2> QED BY Zenon, <2>0, <2>4
<1>3. a \in Procs
  BY DEF Procs
<1>4. Longer(s, c.seen, a, w)
  BY Zenon, <1>1, <1>3, ReadMore
<1> HIDE DEF s
<1>5. /\ s \in Reads /\ Len(s) = Len(c.seen) + 1 /\ s[Len(s)] = <<a, w>>
      /\ \A i \in 1..Len(c.seen) : s[i] = c.seen[i]
  BY Zenon, <1>4 DEF Longer
<1>6. /\ Len(s) >= 1 /\ Len(s) \in Nat /\ 1 \in 1..Len(c.seen) /\ s[Len(s)][1] = a
      /\ s[Len(s)][2] = w /\ \A i \in 1..Len(c.seen) : i \in 1..Len(s)
  BY <1>1, <1>5
<1>7. Path(a, c.cur_weight, c.min_weight, c.min_pid, s, p, L, par)
  <2>1. /\ Chain(c.seen, L, par) /\ p # 1 /\ c.seen[1] = <<p, c.cur_weight>>
        /\ \E i \in 1..Len(c.seen) : c.min_pid = c.seen[i][1]
    BY Zenon DEF Walking, Path
  <2>2. Chain(s, L, par)
    BY Zenon, <1>1, <1>3, <1>4, <2>1, ChainMore
  <2>3. s[1] = <<p, c.cur_weight>> /\ \E i \in 1..Len(s) : c.min_pid = s[i][1]
    BY Zenon, <1>5, <1>6, <2>1
  <2> QED BY Zenon, <1>1, <1>3, <1>5, <1>6, <2>1, <2>2, <2>3 DEF Path
<1>8. ~c.torn => Chosen(c.min_weight, c.min_pid, s, Len(s) - 1, c.cur_weight)
  <2> SUFFICES ASSUME ~c.torn
               PROVE  Chosen(c.min_weight, c.min_pid, s, Len(s) - 1, c.cur_weight)
    OBVIOUS
  <2>1. PICK k : /\ Best(c.seen, Len(c.seen), c.cur_weight, k)
                 /\ c.seen[k] = <<c.min_pid, c.min_weight>>
    BY Zenon DEF Walking, Chosen
  <2>2. Best(s, Len(s) - 1, c.cur_weight, k) /\ s[k] = c.seen[k]
    BY <1>1, <1>4, <2>1, BestLonger
  <2> QED BY Zenon, <2>1, <2>2 DEF Chosen
<1>9. CASE w = 0
  <2>1. ~c.torn => Chosen(c.min_weight, c.min_pid, s, Len(s), c.cur_weight)
    BY Zenon, <1>1, <1>5, <1>6, <1>8, <1>9, SkipLast DEF Divides
  <2>2. Outcome(round(n), p, L, par)
    BY Zenon, <1>1, <1>7, <2>1, RoundStep
  <2> HIDE DEF n
  <2> QED BY Zenon, <1>2, <1>9, <2>2
<1>10. CASE w # 0
  <2>1. "divide" \in WalkOps /\ "divide" # "climb"
    BY DEF WalkOps
  <2>2. ~c.torn => InRound("divide", c.cur_weight, c.min_weight, c.min_pid, s)
    BY <1>8 DEF InRound
  <2>3. Outcome(n, p, L, par)
    BY Zenon, <1>1, <1>6, <1>7, <1>10, <2>1, <2>2, StayStep
  <2> HIDE DEF n
  <2> QED BY Zenon, <1>2, <1>10, <2>3
<1> QED BY <1>9, <1>10


(* What a walk in the middle of a round finds when it reads the ancestor's *)
(* weight w again.                                                         *)
LEMMA AgainFacts ==
    ASSUME NEW c, NEW p, NEW L, NEW par, Walking(c, p, L, par), c.op # "climb",
           NEW op, NEW w \in Nat
    PROVE  \E t \in BOOLEAN :
              /\ again(c, op, w) =
                    WalkOf(op, c.at, c.cur_weight, c.min_weight, c.min_pid, c.seen, t)
              /\ again(c, op, w).torn = t
              /\ c.seen[Len(c.seen)][2] # 0
              /\ w = 0 => t
              /\ ~t => /\ c.seen[Len(c.seen)] = <<c.at, w>>
                       /\ InRound(c.op, c.cur_weight, c.min_weight, c.min_pid, c.seen)
<1> DEFINE v == c.seen[Len(c.seen)][2]
           t == c.torn \/ w # v
<1>1. /\ c \in WalkRec /\ c.torn \in BOOLEAN /\ c.seen \in Reads
      /\ Len(c.seen) \in 1..Len(c.seen) /\ c.seen[Len(c.seen)][1] = c.at
  BY Zenon, WalkingFacts
<1>2. again(c, op, w) = WalkOf(op, c.at, c.cur_weight, c.min_weight, c.min_pid, c.seen, t)
  BY Zenon, <1>1, AgainFields
<1>3. t \in BOOLEAN /\ (~t => ~c.torn /\ w = v)
  BY Zenon, <1>1
<1>4. /\ v # 0
      /\ ~c.torn => InRound(c.op, c.cur_weight, c.min_weight, c.min_pid, c.seen)
  BY Zenon DEF Walking
<1>5. w = 0 => t
  BY Zenon, <1>4
<1>6. c.seen[Len(c.seen)] = <<c.at, v>>
  <2>1. c.seen[Len(c.seen)] \in Procs \X Nat
    BY <1>1, SeqItem DEF Reads
  <2> QED BY <1>1, <2>1
<1> HIDE DEF t, v
<1>7. again(c, op, w).torn = t
  BY <1>2 DEF WalkOf
<1>8. ~t => /\ c.seen[Len(c.seen)] = <<c.at, w>>
            /\ InRound(c.op, c.cur_weight, c.min_weight, c.min_pid, c.seen)
  BY Zenon, <1>3, <1>4, <1>6
<1>9. c.seen[Len(c.seen)][2] # 0
  BY Zenon, <1>4 DEF v
<1> QED BY Zenon, <1>2, <1>3, <1>5, <1>7, <1>8, <1>9

(* Line 57: an ancestor whose weight divides the caller's stays in the     *)
(* race.  A weight that has become 0 is not the one that line 54 read.     *)
LEMMA DivideStep ==
    ASSUME NEW c, NEW p, NEW L, NEW par, Walking(c, p, L, par), c.op = "divide",
           NEW w \in Nat
    PROVE  Outcome(divide(c, w), p, L, par)
<1> DEFINE n == again(c, "compare", w)
           f == [op |-> "fault", seen |-> n.seen, torn |-> n.torn]
           s == c.seen
<1>1. /\ c.cur_weight \in Nat /\ s \in Reads /\ "divide" # "climb"
      /\ Path(c.at, c.cur_weight, c.min_weight, c.min_pid, s, p, L, par)
  BY Zenon, WalkingFacts
<1>2. PICK t \in BOOLEAN :
         /\ n = WalkOf("compare", c.at, c.cur_weight, c.min_weight, c.min_pid, s, t)
         /\ n.torn = t /\ s[Len(s)][2] # 0 /\ (w = 0 => t)
         /\ ~t => /\ s[Len(s)] = <<c.at, w>>
                  /\ InRound("divide", c.cur_weight, c.min_weight, c.min_pid, s)
  BY Zenon, <1>1, AgainFacts
<1>3. divide(c, w) = IF w = 0 THEN f ELSE IF c.cur_weight % w = 0 THEN n ELSE round(n)
  BY Zenon DEF divide
<1>4. ~t => /\ s[Len(s)][2] = w
            /\ Chosen(c.min_weight, c.min_pid, s, Len(s) - 1, c.cur_weight)
  BY <1>2 DEF InRound
<1> HIDE DEF n, s
<1>5. CASE w = 0
  <2>1. f.op = "fault" /\ f.torn = n.torn
    OBVIOUS
  <2> HIDE DEF f
  <2> QED BY Zenon, <1>2, <1>3, <1>5, <2>1 DEF Outcome
<1>6. CASE w # 0 /\ c.cur_weight % w = 0
  <2>1. "compare" \in WalkOps /\ "compare" # "climb" /\ "compare" # "take"
    BY DEF WalkOps
  <2>2. ~t => InRound("compare", c.cur_weight, c.min_weight, c.min_pid, s)
    BY Zenon, <1>4, <1>6, <2>1 DEF InRound, Divides
  <2>3. Outcome(n, p, L, par)
    BY Zenon, <1>1, <1>2, <2>1, <2>2, StayStep
  <2> QED BY Zenon, <1>3, <1>6, <2>3
<1>7. CASE w # 0 /\ c.cur_weight % w # 0
  <2>1. ~t => Chosen(c.min_weight, c.min_pid, s, Len(s), c.cur_weight)
    BY Zenon, <1>1, <1>4, <1>7, SkipLast DEF Divides
  <2>2. Outcome(round(n), p, L, par)
    BY Zenon, <1>1, <1>2, <2>1, RoundStep
  <2> QED BY Zenon, <1>3, <1>7, <2>2
<1> QED BY Zenon, <1>5, <1>6, <1>7

(* Line 58: and one that is lighter than the choice is taken. *)
LEMMA CompareStep ==
    ASSUME NEW c, NEW p, NEW L, NEW par, Walking(c, p, L, par), c.op = "compare",
           NEW w \in Nat
    PROVE  Outcome(compare(c, w), p, L, par)
<1> DEFINE n == again(c, "take", w)
           s == c.seen
<1>1. /\ c.cur_weight \in Nat /\ s \in Reads /\ "compare" # "climb"
      /\ Path(c.at, c.cur_weight, c.min_weight, c.min_pid, s, p, L, par)
  BY Zenon, WalkingFacts
<1>2. PICK t \in BOOLEAN :
         /\ n = WalkOf("take", c.at, c.cur_weight, c.min_weight, c.min_pid, s, t)
         /\ n.torn = t /\ s[Len(s)][2] # 0 /\ (w = 0 => t)
         /\ ~t => /\ s[Len(s)] = <<c.at, w>>
                  /\ InRound("compare", c.cur_weight, c.min_weight, c.min_pid, s)
  BY Zenon, <1>1, AgainFacts
<1>3. compare(c, w) = IF w < c.min_weight THEN n ELSE round(n)
  BY Zenon DEF compare, lighter
<1>4. ~t => /\ s[Len(s)][2] = w /\ Divides(s[Len(s)][2], c.cur_weight)
            /\ Chosen(c.min_weight, c.min_pid, s, Len(s) - 1, c.cur_weight)
  BY <1>2 DEF InRound
<1> HIDE DEF n, s
<1>5. CASE w < c.min_weight
  <2>1. "take" \in WalkOps /\ "take" # "climb"
    BY DEF WalkOps
  <2>2. ~t => InRound("take", c.cur_weight, c.min_weight, c.min_pid, s)
    BY Zenon, <1>4, <1>5 DEF InRound
  <2>3. Outcome(n, p, L, par)
    BY Zenon, <1>1, <1>2, <2>1, <2>2, StayStep
  <2> QED BY Zenon, <1>3, <1>5, <2>3
<1>6. CASE ~(w < c.min_weight)
  <2>1. ~t => Chosen(c.min_weight, c.min_pid, s, Len(s), c.cur_weight)
    BY Zenon, <1>1, <1>4, <1>6, SkipLast
  <2>2. Outcome(round(n), p, L, par)
    BY Zenon, <1>1, <1>2, <2>1, RoundStep
  <2> QED BY Zenon, <1>3, <1>6, <2>2
<1> QED BY Zenon, <1>5, <1>6

(* Lines 59-60. *)
LEMMA TakeStep ==
    ASSUME NEW c, NEW p, NEW L, NEW par, Walking(c, p, L, par), c.op = "take",
           NEW w \in Nat
    PROVE  Outcome(take(c, w), p, L, par)
<1> DEFINE n == again(c, "take", w)
           s == c.seen
<1>1. /\ c.cur_weight \in Nat /\ s \in Reads /\ "take" # "climb" /\ c.at \in Procs
      /\ Len(s) \in 1..Len(s) /\ s[Len(s)][1] = c.at
      /\ Path(c.at, c.cur_weight, c.min_weight, c.min_pid, s, p, L, par)
  BY Zenon, WalkingFacts
<1>2. PICK t \in BOOLEAN :
         /\ n = WalkOf("take", c.at, c.cur_weight, c.min_weight, c.min_pid, s, t)
         /\ n.torn = t /\ s[Len(s)][2] # 0 /\ (w = 0 => t)
         /\ ~t => /\ s[Len(s)] = <<c.at, w>>
                  /\ InRound("take", c.cur_weight, c.min_weight, c.min_pid, s)
  BY Zenon, <1>1, AgainFacts
<1> DEFINE d == [n EXCEPT !.min_weight = w]
           e == [d EXCEPT !.min_pid = c.at]
<1>3. take(c, w) = round(e)
  BY Zenon DEF take
<1> HIDE DEF n, s
<1>4. d = WalkOf("take", c.at, c.cur_weight, w, c.min_pid, s, t)
  BY <1>2 DEF WalkOf
<1> HIDE DEF d
<1>5. e = WalkOf("take", c.at, c.cur_weight, w, c.at, s, t)
  BY <1>4 DEF WalkOf
<1> HIDE DEF e
<1>6. ~t => Chosen(w, c.at, s, Len(s), c.cur_weight)
  <2>1. ~t => /\ s[Len(s)] = <<c.at, w>> /\ s[Len(s)][2] = w
              /\ Divides(s[Len(s)][2], c.cur_weight) /\ s[Len(s)][2] < c.min_weight
              /\ Chosen(c.min_weight, c.min_pid, s, Len(s) - 1, c.cur_weight)
    BY <1>2 DEF InRound
  <2> QED BY Zenon, <1>1, <2>1, TakeLast
<1>7. Path(c.at, c.cur_weight, w, c.at, s, p, L, par)
  BY Zenon, <1>1 DEF Path
<1>8. Outcome(round(e), p, L, par)
  BY Zenon, <1>5, <1>6, <1>7, RoundStep
<1> QED BY Zenon, <1>3, <1>8

(* Neither a fork nor a weight that another process sets reaches a walk.   *)
LEMMA ChainKept ==
    ASSUME NEW seen, Len(seen) \in Nat, NEW L \in Nat, NEW par, Chain(seen, L, par),
           NEW M \in Nat, L <= M, NEW q, \A i \in 1..L : q[i] = par[i]
    PROVE  Chain(seen, M, q)
<1>1. ASSUME NEW i \in 1..Len(seen) PROVE seen[i][1] \in 1..L /\ seen[i][1] \in 1..M
  BY DEF Chain
<1>2. ASSUME NEW i \in 2..Len(seen) PROVE seen[i][1] = q[seen[i - 1][1]]
  <2>1. i - 1 \in 1..Len(seen)
    OBVIOUS
  <2>2. seen[i - 1][1] \in 1..L
    BY <1>1, <2>1
  <2> QED BY <2>2 DEF Chain
<1> QED BY <1>1, <1>2 DEF Chain

-----------------------------------------------------------------------------
(* get_siblings_sum. *)

(* The weights that count for p. *)
Others(seen, p) == [i \in 1..Len(seen) |-> IF seen[i][1] = p THEN 0 ELSE seen[i][2]]

(* SumOthers is their sum. *)
LEMMA SumOthersIs ==
    ASSUME NEW seen, Len(seen) \in Nat, NEW p
    PROVE  \E f : Sums(f, Others(seen, p), Len(seen)) /\ SumOthers(seen, p) = f[Len(seen)]
<1> DEFINE n == Len(seen)
           L(f) == f = [i \in 0..n |-> IF i = 0 THEN 0
                           ELSE f[i - 1] + (IF seen[i][1] = p THEN 0 ELSE seen[i][2])]
           f == CHOOSE f : L(f)
<1>1. ASSUME NEW g PROVE L(g) <=> Sums(g, Others(seen, p), n)
  <2>1. \A i \in 0..n : i # 0 =>
           Others(seen, p)[i] = IF seen[i][1] = p THEN 0 ELSE seen[i][2]
    BY DEF Others
  <2> QED BY <2>1 DEF Sums
<1>2. SumOthers(seen, p) = f[n]
  BY DEF SumOthers
<1>3. L(f)
  <2> HIDE DEF L
  <2> QED BY <1>1, SumsExist
<1> HIDE DEF L, f
<1> QED BY <1>1, <1>2, <1>3

(* Nothing read adds up to nothing. *)
LEMMA SumNone == \A p : SumOthers(<< >>, p) = 0
<1> TAKE p
<1>1. Len(<< >>) = 0
  OBVIOUS
<1>2. PICK f : Sums(f, Others(<< >>, p), 0) /\ SumOthers(<< >>, p) = f[0]
  BY <1>1, SumOthersIs
<1> QED BY <1>2, SumsAt

(* One more read adds its weight, unless it is of p itself. *)
LEMMA SumMore ==
    ASSUME NEW seen \in Reads, NEW p, NEW a, NEW w \in Nat, NEW s, Longer(s, seen, a, w)
    PROVE  /\ SumOthers(seen, p) \in Int
           /\ SumOthers(s, p) = SumOthers(seen, p) + (IF a = p THEN 0 ELSE w)
<1> DEFINE n == Len(seen)
           A == Others(seen, p)
           B == Others(s, p)
<1>1. n \in Nat /\ \A i \in 1..n : seen[i][2] \in Nat
  BY ReadFacts
<1>2. Len(s) = n + 1 /\ s[n + 1][1] = a /\ s[n + 1][2] = w /\ \A i \in 1..n : s[i] = seen[i]
  BY DEF Longer
<1>3. \A i \in 1..n : A[i] \in Int /\ B[i] \in Int /\ A[i] = B[i]
  BY <1>1, <1>2 DEF Others
<1>4. B[n + 1] = IF a = p THEN 0 ELSE w
  BY <1>1, <1>2 DEF Others
<1>5. PICK f : Sums(f, A, n) /\ SumOthers(seen, p) = f[n]
  BY <1>1, SumOthersIs
<1>6. PICK g : Sums(g, B, n + 1) /\ SumOthers(s, p) = g[n + 1]
  <2>1. n + 1 \in Nat
    BY <1>1
  <2> QED BY <1>2, <2>1, SumOthersIs
<1> HIDE DEF n, A, B
<1>7. f[n] \in Int /\ g[n] = f[n]
  <2> DEFINE k == n + 1
  <2>1. k \in Nat /\ n <= k /\ k \notin 1..n
    BY <1>1
  <2>2. Sums(g, B, k)
    BY <1>6
  <2> HIDE DEF k
  <2>3. AgreeBut(A, B, n, k)
    BY <1>3 DEF AgreeBut
  <2>4. f[n] \in Int /\ g[n] = f[n] + (IF k \in 1..n THEN B[k] - A[k] ELSE 0)
    BY <1>1, <1>5, <2>1, <2>2, <2>3, SumsDiffer
  <2> QED BY <2>1, <2>4
<1>8. g[n + 1] = g[n] + B[n + 1]
  <2>1. n + 1 \in 0..(n + 1) /\ n + 1 # 0 /\ (n + 1) - 1 = n
    BY <1>1
  <2>2. g[n + 1] = IF n + 1 = 0 THEN 0 ELSE g[(n + 1) - 1] + B[n + 1]
    BY <1>6, <2>1, SumsAt
  <2> QED BY <2>1, <2>2
<1> QED BY <1>4, <1>5, <1>6, <1>7, <1>8

(* The list of the children of a parent of p. *)
Siblings(kids, p) ==
    /\ kids \in Seq(Procs)
    /\ \A i, j \in 1..Len(kids) : kids[i] = kids[j] => i = j
    /\ \E i \in 1..Len(kids) : kids[i] = p

AddRec == [op : {"sum"}, at : Nat, sum : Int, seen : Reads, before : Nat]

(* The loop of p, of weight v, so far: p's own weight is in the sum when   *)
(* the loop has passed p, and it is v still.                               *)
Adding(c, p, v, kids) ==
    /\ c \in AddRec /\ p # 1
    /\ c.at = Len(c.seen) /\ c.at <= Len(kids) /\ c.before <= Len(kids)
    /\ \A i \in 1..c.at : c.seen[i][1] = kids[i]
    /\ c.sum = SumOthers(c.seen, p) + (IF \E i \in 1..c.at : kids[i] = p THEN v ELSE 0)

(* The answer to p. *)
Added(result, seen, before, p, kids) ==
    /\ Len(seen) \in Nat /\ Len(seen) <= Len(kids) /\ before <= Len(seen)
    /\ result = IF \E i \in 1..Len(seen) : seen[i][1] # p THEN SumOthers(seen, p) ELSE ESRCH
    /\ \A i \in 1..Len(seen) : seen[i][1] = kids[i]
    /\ \E i \in 1..Len(seen) : seen[i][1] = p

(* One round of list_for_each on the next sibling q. *)
AddOne(c, q, w) ==
    [c EXCEPT !.at = c.at + 1, !.sum = c.sum + w, !.seen = Append(c.seen, <<q, w>>)]

(* The assignments of a round. *)
LEMMA AddFields ==
    ASSUME NEW c \in AddRec, NEW q, NEW w
    PROVE  AddOne(c, q, w) = [op |-> "sum", at |-> c.at + 1, sum |-> c.sum + w,
                              seen |-> Append(c.seen, <<q, w>>), before |-> c.before]
<1> DEFINE s == Append(c.seen, <<q, w>>)
           m == c.at + 1
           v == c.sum + w
<1> HIDE DEF s, m, v
<1> DEFINE c1 == [c EXCEPT !.at = m]
           c2 == [c1 EXCEPT !.sum = v]
           c3 == [c2 EXCEPT !.seen = s]
<1>0. c = [op |-> "sum", at |-> c.at, sum |-> c.sum, seen |-> c.seen, before |-> c.before]
  BY DEF AddRec
<1>1. c1 = [op |-> "sum", at |-> m, sum |-> c.sum, seen |-> c.seen, before |-> c.before]
  BY <1>0
<1> HIDE DEF c1
<1>2. c2 = [op |-> "sum", at |-> m, sum |-> v, seen |-> c.seen, before |-> c.before]
  BY <1>1
<1> HIDE DEF c2
<1>3. c3 = [op |-> "sum", at |-> m, sum |-> v, seen |-> s, before |-> c.before]
  BY <1>2
<1>4. AddOne(c, q, w) = c3
  BY DEF AddOne, s, m, v, c1, c2
<1> HIDE DEF c3
<1>5. AddOne(c, q, w) = [op |-> "sum", at |-> m, sum |-> v, seen |-> s, before |-> c.before]
  BY <1>3, <1>4
<1> QED BY <1>5 DEF s, m, v

(* A round keeps what is known of the loop: the children of one parent     *)
(* are distinct, so that p's weight is added once.                         *)
LEMMA AddStep ==
    ASSUME NEW p \in Procs, NEW v \in Nat, NEW kids, Siblings(kids, p),
           NEW c, Adding(c, p, v, kids), c.at < Len(kids),
           NEW q, q = kids[c.at + 1], NEW w \in Nat, q = p => w = v
    PROVE  Adding(AddOne(c, q, w), p, v, kids)
<1> DEFINE s == Append(c.seen, <<q, w>>)
           n == AddOne(c, q, w)
           own(k) == \E i \in 1..k : kids[i] = p
<1>1. /\ c \in AddRec /\ p # 1 /\ c.at = Len(c.seen) /\ c.at <= Len(kids)
      /\ c.at \in Nat /\ c.sum \in Int /\ c.seen \in Reads
      /\ c.before \in Nat /\ c.before <= Len(kids)
      /\ \A i \in 1..c.at : c.seen[i][1] = kids[i]
      /\ c.sum = SumOthers(c.seen, p) + (IF own(c.at) THEN v ELSE 0)
  BY DEF Adding, AddRec
<1>2. Len(kids) \in Nat /\ c.at + 1 \in 1..Len(kids) /\ q \in Procs
  <2>1. kids \in Seq(Procs)
    BY DEF Siblings
  <2>2. Len(kids) \in Nat /\ c.at + 1 \in 1..Len(kids)
    BY <1>1, <2>1
  <2> QED BY <2>1, <2>2, SeqItem
<1>3. Longer(s, c.seen, q, w)
  BY <1>1, <1>2, ReadMore
<1>4. /\ n.op = "sum" /\ n.at = c.at + 1 /\ n.sum = c.sum + w /\ n.seen = s
      /\ n.before = c.before
      /\ n = [op |-> n.op, at |-> n.at, sum |-> n.sum, seen |-> n.seen, before |-> n.before]
  <2>1. n = [op |-> "sum", at |-> c.at + 1, sum |-> c.sum + w, seen |-> s,
             before |-> c.before]
    BY Zenon, <1>1, AddFields
  <2> HIDE DEF s, n
  <2> QED BY <2>1
<1> HIDE DEF s, n
<1>5. s \in Reads /\ Len(s) = c.at + 1 /\ s[c.at + 1] = <<q, w>>
      /\ \A i \in 1..c.at : s[i] = c.seen[i]
  BY <1>1, <1>3 DEF Longer
<1>6. ASSUME NEW i \in 1..(c.at + 1) PROVE s[i][1] = kids[i]
  <2>1. CASE i = c.at + 1
    BY <1>5, <2>1
  <2>2. CASE i # c.at + 1
    <3>1. i \in 1..c.at
      BY <1>1, <2>2
    <3> QED BY <1>1, <1>5, <3>1
  <2> QED BY <2>1, <2>2
<1>7. /\ SumOthers(c.seen, p) \in Int
      /\ SumOthers(s, p) = SumOthers(c.seen, p) + (IF q = p THEN 0 ELSE w)
  BY <1>1, <1>3, SumMore
<1>8. own(c.at + 1) <=> own(c.at) \/ q = p
  <2>1. \A i \in 1..(c.at + 1) : i = c.at + 1 \/ i \in 1..c.at
    BY <1>1
  <2>2. c.at + 1 \in 1..(c.at + 1) /\ \A i \in 1..c.at : i \in 1..(c.at + 1)
    BY <1>1
  <2> QED BY <2>1, <2>2
<1>9. q = p => ~own(c.at)
  <2> SUFFICES ASSUME q = p, NEW i \in 1..c.at, kids[i] = p PROVE FALSE
    OBVIOUS
  <2>1. i \in 1..Len(kids) /\ i # c.at + 1
    BY <1>1, <1>2
  <2> QED BY Zenon, <1>2, <2>1 DEF Siblings
<1> HIDE DEF own
<1>a. n.sum = SumOthers(s, p) + (IF own(c.at + 1) THEN v ELSE 0)
  BY <1>1, <1>4, <1>7, <1>8, <1>9
<1>b. n \in AddRec
  <2>1. c.at + 1 \in Nat /\ c.sum + w \in Int
    BY <1>1
  <2> QED BY <1>1, <1>4, <1>5, <2>1 DEF AddRec
<1>c. c.at + 1 <= Len(kids)
  BY <1>2
<1>d. Adding(n, p, v, kids)
  BY <1>1, <1>4, <1>5, <1>6, <1>a, <1>b, <1>c DEF Adding, own
<1> QED BY <1>d DEF n

(* At the end of the list p's weight is in the sum, and line 106 takes it  *)
(* out again; a list of one has nobody but p.                              *)
LEMMA AddEnd ==
    ASSUME NEW p \in Procs, NEW v \in Nat, NEW kids, Siblings(kids, p),
           NEW c, Adding(c, p, v, kids), ~(c.at < Len(kids))
    PROVE  Added(IF c.at = 1 THEN ESRCH ELSE c.sum - v, c.seen, c.before, p, kids)
<1> DEFINE n == Len(kids)
<1> HIDE DEF n
<1>n. n = Len(kids) /\ n \in Nat /\ n <= Len(kids)
  BY DEF n, Siblings
<1>1. /\ c.at = n /\ c.at = Len(c.seen) /\ n \in Nat /\ c.seen \in Reads
      /\ c.before <= n /\ \A i \in 1..n : c.seen[i][1] = kids[i]
  BY <1>n DEF Adding, AddRec, Siblings
<1>2. PICK k \in 1..n : kids[k] = p
  BY <1>n DEF Siblings
<1>3. c.sum = SumOthers(c.seen, p) + v
  BY <1>1, <1>2 DEF Adding
<1>4. SumOthers(c.seen, p) \in Int
  <2>1. Longer(Append(c.seen, <<p, v>>), c.seen, p, v)
    BY <1>1, ReadMore
  <2> QED BY Zenon, <1>1, <2>1, SumMore
<1>5. \A i, j \in 1..n : kids[i] = kids[j] => i = j
  BY <1>n DEF Siblings
<1>6. (\E i \in 1..n : c.seen[i][1] # p) <=> n # 1
  <2>1. CASE n = 1
    <3>1. k = 1 /\ \A i \in 1..n : i = 1
      BY <2>1
    <3> QED BY Zenon, <1>1, <1>2, <2>1, <3>1
  <2>2. CASE n # 1
    <3>1. PICK i \in 1..n : i # k
      <4>1. n >= 2 /\ 1 \in 1..n /\ 2 \in 1..n
        BY <1>n, <2>2
      <4> QED BY <4>1
    <3>2. kids[i] # p
      BY <1>2, <1>5, <3>1
    <3> QED BY <1>1, <2>2, <3>2
  <2> QED BY <2>1, <2>2
<1>7. (IF c.at = 1 THEN ESRCH ELSE c.sum - v)
        = IF \E i \in 1..n : c.seen[i][1] # p THEN SumOthers(c.seen, p) ELSE ESRCH
  <2>1. c.sum - v = SumOthers(c.seen, p)
    BY <1>3, <1>4
  <2> QED BY <1>1, <1>6, <2>1
<1>8. \E i \in 1..n : c.seen[i][1] = p
  BY <1>1, <1>2
<1> QED BY <1>1, <1>n, <1>7, <1>8 DEF Added

-----------------------------------------------------------------------------
(* The invariant. *)

(* Every process has a parent that exists, whose list has it once. *)
Family ==
    /\ live \in 1..N /\ parent \in [Procs -> Procs] /\ weight \in [Procs -> Nat]
    /\ children \in [Procs -> Seq(Procs)]
    /\ \A p \in 1..live : parent[p] \in 1..live
    /\ \A q \in Procs : \A i \in 1..Len(children[q]) : children[q][i] \in 1..live
    /\ \A q \in Procs : \A i, j \in 1..Len(children[q]) :
          children[q][i] = children[q][j] => i = j
    /\ \A p \in 2..live : \E i \in 1..Len(children[parent[p]]) : children[parent[p]][i] = p

(* What is known of p, in the call c and of weight v. *)
CallOK(c, p, L, par, v, kids) ==
    /\ c.op \in WalkOps \union {"idle", "ancestor", "fault", "sum", "siblings"}
    /\ p \notin 1..L => c.op = "idle"
    /\ c.op \in WalkOps => Walking(c, p, L, par)
    /\ c.op = "ancestor" => Walked(c.result, c.seen, c.torn, p, L, par)
    /\ c.op = "fault" => c.torn
    /\ c.op = "sum" => Adding(c, p, v, kids)
    /\ c.op = "siblings" /\ p # 1 => Added(c.result, c.seen, c.before, p, kids)

Calls ==
    /\ call = [p \in Procs |-> call[p]]
    /\ \A p \in Procs : CallOK(call[p], p, live, parent, weight[p], children[parent[p]])

WeightsInv == Family /\ Calls

(* A process in no call. *)
LEMMA IdleOK ==
    /\ Idle.op = "idle"
    /\ \A c, p, L, par, v, kids : c.op = "idle" => CallOK(c, p, L, par, v, kids)
<1>1. Idle.op = "idle"
  BY DEF Idle
<1>2. ASSUME NEW c, c.op = "idle", NEW p, NEW L, NEW par, NEW v, NEW kids
      PROVE  CallOK(c, p, L, par, v, kids)
  BY <1>2 DEF CallOK, WalkOps
<1> QED BY <1>1, <1>2

(* The list kids, longer at its end. *)
Extends(more, kids) ==
    /\ Len(kids) \in Nat /\ Len(more) \in Nat /\ Len(kids) <= Len(more)
    /\ \A i \in 1..Len(kids) : more[i] = kids[i]

(* A fork gives nobody another parent and puts the child last on its list, *)
(* so that what is known of every other call stays true.                   *)
LEMMA CallKept ==
    ASSUME NEW c, NEW p, NEW L \in Nat, NEW par, NEW v, NEW kids,
           CallOK(c, p, L, par, v, kids), c.op # "idle",
           NEW M \in Nat, L <= M, NEW q, \A i \in 1..L : q[i] = par[i],
           NEW more, Extends(more, kids)
    PROVE  CallOK(c, p, M, q, v, more)
<1>0. /\ c.op \in WalkOps \union {"idle", "ancestor", "fault", "sum", "siblings"}
      /\ p \in 1..M /\ (c.op = "fault" => c.torn)
  <2>1. p \in 1..L
    BY Zenon DEF CallOK
  <2>2. p \in 1..M
    BY <2>1
  <2> QED BY Zenon, <2>2 DEF CallOK
<1>1. ASSUME c.op \in WalkOps PROVE Walking(c, p, M, q)
  <2>1. Walking(c, p, L, par)
    BY Zenon, <1>1 DEF CallOK
  <2>2. c.seen \in Reads /\ Chain(c.seen, L, par)
    BY Zenon, <2>1 DEF Walking, Path
  <2>3. Chain(c.seen, M, q)
    BY <2>2, ReadFacts, ChainKept
  <2> QED BY Zenon, <2>1, <2>3 DEF Walking, Path
<1>2. ASSUME c.op = "ancestor" PROVE Walked(c.result, c.seen, c.torn, p, M, q)
  <2>1. Walked(c.result, c.seen, c.torn, p, L, par)
    BY Zenon, <1>2 DEF CallOK
  <2>2. c.seen \in Reads /\ Chain(c.seen, L, par)
    BY Zenon, <2>1 DEF Walked
  <2>3. Chain(c.seen, M, q)
    BY <2>2, ReadFacts, ChainKept
  <2> QED BY Zenon, <2>1, <2>3 DEF Walked
<1>3. ASSUME c.op = "sum" PROVE Adding(c, p, v, more)
  <2>1. Adding(c, p, v, kids)
    BY Zenon, <1>3 DEF CallOK
  <2>2. c.at \in Nat /\ c.at <= Len(kids) /\ c.before \in Nat /\ c.before <= Len(kids)
    BY <2>1 DEF Adding, AddRec
  <2>3. /\ c.at <= Len(more) /\ c.before <= Len(more)
        /\ \A i \in 1..c.at : more[i] = kids[i]
    BY <2>2 DEF Extends
  <2> QED BY <2>1, <2>3 DEF Adding
<1>4. ASSUME c.op = "siblings", p # 1
      PROVE  Added(c.result, c.seen, c.before, p, more)
  <2>1. Added(c.result, c.seen, c.before, p, kids)
    BY Zenon, <1>4 DEF CallOK
  <2>2. Len(c.seen) \in Nat /\ Len(c.seen) <= Len(kids)
    BY Zenon, <2>1 DEF Added
  <2>3. Len(c.seen) <= Len(more) /\ \A i \in 1..Len(c.seen) : more[i] = kids[i]
    BY <2>2 DEF Extends
  <2> QED BY Zenon, <2>1, <2>3 DEF Added
<1> QED BY Zenon, <1>0, <1>1, <1>2, <1>3, <1>4 DEF CallOK

(* A step that only moves p on in its call. *)
LEMMA OwnStep ==
    ASSUME WeightsInv, NEW p \in Procs, NEW c,
           CallOK(c, p, live, parent, weight[p], children[parent[p]]),
           call' = [call EXCEPT ![p] = c], UNCHANGED <<live, parent, weight, children>>
    PROVE  WeightsInv'
<1>1. Family'
  BY Zenon DEF WeightsInv, Family
<1>2. call = [q \in Procs |-> call[q]]
  BY DEF WeightsInv, Calls
<1>3. ASSUME NEW q \in Procs
      PROVE  CallOK(call[q], q, live, parent, weight[q], children[parent[q]])'
  <2>1. CASE q = p
    <3>1. call'[q] = c
      BY <1>2, <2>1
    <3> QED BY <2>1, <3>1
  <2>2. CASE q # p
    <3>1. call'[q] = call[q]
      BY <1>2, <2>2
    <3>2. CallOK(call[q], q, live, parent, weight[q], children[parent[q]])
      BY DEF WeightsInv, Calls
    <3> QED BY <3>1, <3>2
  <2> QED BY <2>1, <2>2
<1>4. call' = [q \in Procs |-> call'[q]]
  BY <1>2
<1> QED BY <1>1, <1>3, <1>4 DEF WeightsInv, Calls

(* The processes that run. *)
LEMMA Runs ==
    ASSUME Family, NEW p \in 1..live
    PROVE  /\ live \in Nat /\ live <= N /\ p \in Procs /\ p \in Nat
           /\ parent[p] \in 1..live /\ parent[p] \in Procs /\ weight[p] \in Nat
           /\ p # 1 => Siblings(children[parent[p]], p)
<1>1. /\ live \in Nat /\ live <= N /\ p \in Procs /\ p \in Nat
      /\ parent[p] \in 1..live /\ parent[p] \in Procs /\ weight[p] \in Nat
  <2>1. live \in 1..N /\ parent \in [Procs -> Procs] /\ weight \in [Procs -> Nat]
    BY DEF Family
  <2>2. parent[p] \in 1..live
    BY DEF Family
  <2>3. live \in Nat /\ live <= N /\ p \in Procs /\ p \in Nat
    BY <2>1 DEF Procs
  <2> QED BY <2>1, <2>2, <2>3
<1>2. ASSUME p # 1 PROVE Siblings(children[parent[p]], p)
  <2>1. p \in 2..live
    BY <1>1, <1>2
  <2>2. children[parent[p]] \in Seq(Procs)
    BY <1>1 DEF Family
  <2>3. \E i \in 1..Len(children[parent[p]]) : children[parent[p]][i] = p
    BY Zenon, <2>1 DEF Family
  <2>4. \A i, j \in 1..Len(children[parent[p]]) :
           children[parent[p]][i] = children[parent[p]][j] => i = j
    BY Zenon, <1>1 DEF Family
  <2> QED BY <2>2, <2>3, <2>4 DEF Siblings
<1> QED BY <1>1, <1>2

(* What a step of a walk leaves is known of the call. *)
LEMMA OutcomeOK ==
    ASSUME NEW c, NEW p, NEW L, p \in 1..L, NEW par, NEW v, NEW kids, Outcome(c, p, L, par)
    PROVE  CallOK(c, p, L, par, v, kids)
<1>1. CASE c.op \in WalkOps /\ Walking(c, p, L, par)
  <2>1. c.op \notin {"idle", "ancestor", "fault", "sum", "siblings"}
    BY <1>1 DEF WalkOps
  <2> QED BY Zenon, <1>1, <2>1 DEF CallOK
<1>2. CASE c.op = "ancestor" /\ Walked(c.result, c.seen, c.torn, p, L, par)
  <2>1. c.op \notin WalkOps /\ c.op \notin {"idle", "fault", "sum", "siblings"}
    BY <1>2 DEF WalkOps
  <2> QED BY Zenon, <1>2, <2>1 DEF CallOK
<1>3. CASE c.op = "fault" /\ c.torn
  <2>1. c.op \notin WalkOps /\ c.op \notin {"idle", "ancestor", "sum", "siblings"}
    BY <1>3 DEF WalkOps
  <2> QED BY Zenon, <1>3, <2>1 DEF CallOK
<1> QED BY Zenon, <1>1, <1>2, <1>3 DEF Outcome

(* Lines 38-49. *)
LEMMA StartAncestorKeeps ==
    ASSUME WeightsInv, NEW p \in 1..live, startAncestor(p) PROVE WeightsInv'
<1> DEFINE s == <<<<p, weight[p]>>>>
           d == ancestorIs(p, s, FALSE)
           c == WalkOf("climb", p, weight[p], weight[p], p, s, FALSE)
           n == IF p = 1 \/ weight[p] = 0 THEN d ELSE c
           kids == children[parent[p]]
<1>0. live \in Nat /\ live <= N /\ p \in Procs /\ weight[p] \in Nat
  BY Runs DEF WeightsInv
<1>1. /\ s \in Reads /\ Len(s) = 1 /\ s[1] = <<p, weight[p]>>
      /\ Chain(s, live, parent) /\ (weight[p] # 0 => Best(s, 1, weight[p], 1))
  BY <1>0, FirstRead
<1>2. call' = [call EXCEPT ![p] = n] /\ UNCHANGED <<live, parent, weight, children>>
  BY DEF startAncestor, WalkOf
<1>3. s[1][1] = p /\ s[1][2] = weight[p] /\ Len(s) >= 1 /\ 1 \in 1..Len(s)
  BY <1>1
<1> HIDE DEF s, kids
<1>4. CASE p = 1 \/ weight[p] = 0
  <2>1. n = d
    BY Zenon, <1>4
  <2>2. d.op = "ancestor" /\ d.result = p /\ d.seen = s /\ d.torn = FALSE
    BY DEF ancestorIs
  <2>3. LightestDivisor(s) = p
    <3>1. CASE weight[p] = 0
      BY <1>3, <3>1 DEF LightestDivisor
    <3>2. CASE weight[p] # 0
      <4>1. Best(s, Len(s), s[1][2], 1) /\ s[1][2] # 0
        BY Zenon, <1>1, <1>3, <3>2
      <4> QED BY Zenon, <1>1, <1>3, <4>1, BestIsChosen
    <3> QED BY <3>1, <3>2
  <2>4. Walked(p, s, FALSE, p, live, parent)
    BY Zenon, <1>1, <1>3, <1>4, <2>3 DEF Walked
  <2> HIDE DEF d
  <2>5. Outcome(d, p, live, parent)
    BY Zenon, <2>2, <2>4 DEF Outcome
  <2>6. CallOK(d, p, live, parent, weight[p], kids)
    BY Zenon, <2>5, OutcomeOK
  <2> HIDE DEF n
  <2> QED BY Zenon, <1>0, <1>2, <2>1, <2>6, OwnStep DEF kids
<1>5. CASE ~(p = 1 \/ weight[p] = 0)
  <2>1. n = c
    BY Zenon, <1>5
  <2>2. /\ c.op = "climb" /\ c.at = p /\ c.cur_weight = weight[p] /\ c.min_weight = weight[p]
        /\ c.min_pid = p /\ c.seen = s /\ c.torn = FALSE
    BY DEF WalkOf
  <2>3. "climb" \in WalkOps
    BY DEF WalkOps
  <2>4. c \in WalkRec
    BY Zenon, <1>0, <1>1, <2>3, WalkTyped
  <2>5. Path(p, weight[p], weight[p], p, s, p, live, parent)
    BY Zenon, <1>0, <1>1, <1>3, <1>5 DEF Path
  <2>6. Chosen(weight[p], p, s, Len(s), weight[p])
    BY Zenon, <1>1, <1>5 DEF Chosen
  <2> HIDE DEF c, n
  <2>7. Walking(c, p, live, parent)
    BY Zenon, <2>2, <2>4, <2>5, <2>6 DEF Walking
  <2>8. Outcome(c, p, live, parent)
    BY Zenon, <2>2, <2>3, <2>7 DEF Outcome
  <2>9. CallOK(c, p, live, parent, weight[p], kids)
    BY Zenon, <2>8, OutcomeOK
  <2> QED BY Zenon, <1>0, <1>2, <2>1, <2>9, OwnStep DEF kids
<1> QED BY <1>4, <1>5

(* Lines 52-64. *)
LEMMA StepAncestorKeeps ==
    ASSUME WeightsInv, NEW p \in 1..live, stepAncestor(p) PROVE WeightsInv'
<1> DEFINE c == call[p]
           a == parent[c.at]
           n == CASE c.op = "climb" -> climb(c, a, weight[a])
                  [] c.op = "divide" -> divide(c, weight[c.at])
                  [] c.op = "compare" -> compare(c, weight[c.at])
                  [] c.op = "take" -> take(c, weight[c.at])
           kids == children[parent[p]]
<1>0. live \in Nat /\ live <= N /\ p \in Procs
  BY Runs DEF WeightsInv
<1>1. /\ c.op \in WalkOps /\ UNCHANGED <<live, parent, weight, children>>
      /\ call' = [call EXCEPT ![p] = n]
  BY Zenon DEF stepAncestor, WalkOps
<1>2. Walking(c, p, live, parent)
  BY Zenon, <1>0, <1>1 DEF WeightsInv, Calls, CallOK
<1>3. c.at \in 1..live
  <2>1. /\ Len(c.seen) \in 1..Len(c.seen) /\ c.seen[Len(c.seen)][1] = c.at
    BY Zenon, <1>2, WalkingFacts
  <2>2. Chain(c.seen, live, parent)
    BY Zenon, <1>2 DEF Walking, Path
  <2> QED BY Zenon, <2>1, <2>2 DEF Chain
<1>4. a \in 1..live /\ weight[c.at] \in Nat
  BY <1>3, Runs DEF WeightsInv
<1>5. weight[a] \in Nat
  BY <1>4, Runs DEF WeightsInv
<1> HIDE DEF c, kids
<1>6. Outcome(n, p, live, parent)
  <2>1. CASE c.op = "climb"
    <3>1. n = climb(c, a, weight[a])
      BY <2>1
    <3> HIDE DEF n
    <3> QED BY Zenon, <1>0, <1>2, <1>4, <1>5, <2>1, <3>1, ClimbStep
  <2>2. CASE c.op = "divide"
    <3>1. n = divide(c, weight[c.at])
      BY <2>2
    <3> HIDE DEF n
    <3> QED BY Zenon, <1>2, <1>4, <2>2, <3>1, DivideStep
  <2>3. CASE c.op = "compare"
    <3>1. n = compare(c, weight[c.at])
      BY <2>3
    <3> HIDE DEF n
    <3> QED BY Zenon, <1>2, <1>4, <2>3, <3>1, CompareStep
  <2>4. CASE c.op = "take"
    <3>1. n = take(c, weight[c.at])
      BY <2>4
    <3> HIDE DEF n
    <3> QED BY Zenon, <1>2, <1>4, <2>4, <3>1, TakeStep
  <2> HIDE DEF n
  <2> QED BY Zenon, <1>1, <2>1, <2>2, <2>3, <2>4 DEF WalkOps
<1> HIDE DEF n
<1>7. CallOK(n, p, live, parent, weight[p], kids)
  BY Zenon, <1>6, OutcomeOK
<1> QED BY Zenon, <1>0, <1>1, <1>7, OwnStep DEF kids

(* A sum in its middle, and one that has returned. *)
LEMMA SumOK ==
    ASSUME NEW c, NEW p, NEW L, p \in 1..L, NEW par, NEW v, NEW kids,
           \/ c.op = "sum" /\ Adding(c, p, v, kids)
           \/ c.op = "siblings" /\ (p # 1 => Added(c.result, c.seen, c.before, p, kids))
    PROVE  CallOK(c, p, L, par, v, kids)
<1>1. c.op \notin WalkOps /\ c.op \notin {"idle", "ancestor", "fault"}
  BY DEF WalkOps
<1>2. c.op = "sum" => c.op # "siblings"
  OBVIOUS
<1> QED BY Zenon, <1>1, <1>2 DEF CallOK

(* Lines 89-99. *)
LEMMA StartSiblingsKeeps ==
    ASSUME WeightsInv, NEW p \in 1..live, startSiblings(p) PROVE WeightsInv'
<1> DEFINE kids == children[parent[p]]
           d == siblingsAre(ESRCH, << >>, 0)
           c == [op |-> "sum", at |-> 0, sum |-> 0, seen |-> << >>, before |-> Len(kids)]
<1>0. p \in Procs /\ parent[p] \in Procs /\ weight[p] \in Nat
  BY Runs DEF WeightsInv
<1>1. /\ call' = [call EXCEPT ![p] = IF p = 1 THEN d ELSE c]
      /\ UNCHANGED <<live, parent, weight, children>>
  BY DEF startSiblings
<1>2. Len(kids) \in Nat
  <2>1. children[parent[p]] \in Seq(Procs)
    BY <1>0 DEF WeightsInv, Family
  <2> QED BY <2>1
<1> HIDE DEF kids
<1>3. CASE p = 1
  <2>1. d.op = "siblings"
    BY DEF siblingsAre
  <2> HIDE DEF d
  <2>2. CallOK(d, p, live, parent, weight[p], kids)
    BY Zenon, <1>3, <2>1, SumOK
  <2>3. call' = [call EXCEPT ![p] = d]
    BY <1>1, <1>3
  <2> QED BY Zenon, <1>0, <1>1, <2>2, <2>3, OwnStep DEF kids
<1>4. CASE p # 1
  <2>1. c.op = "sum" /\ c.at = 0 /\ c.sum = 0 /\ c.seen = << >> /\ c.before = Len(kids)
    OBVIOUS
  <2>2. c \in AddRec
    BY <1>2 DEF AddRec, Reads
  <2>3. call' = [call EXCEPT ![p] = c]
    BY <1>1, <1>4
  <2> HIDE DEF c
  <2>4. c.at = Len(c.seen) /\ c.at <= Len(kids) /\ c.before <= Len(kids)
    BY <1>2, <2>1
  <2>5. SumOthers(c.seen, p) = 0
    BY <2>1, SumNone
  <2>6. c.sum = SumOthers(c.seen, p) + (IF \E i \in 1..c.at : kids[i] = p THEN weight[p] ELSE 0)
    BY <2>1, <2>5
  <2>7. \A i \in 1..c.at : c.seen[i][1] = kids[i]
    BY <2>1
  <2>8. Adding(c, p, weight[p], kids)
    BY Zenon, <1>4, <2>2, <2>4, <2>6, <2>7 DEF Adding
  <2>9. CallOK(c, p, live, parent, weight[p], kids)
    BY Zenon, <2>1, <2>8, SumOK
  <2> QED BY Zenon, <1>0, <1>1, <2>3, <2>9, OwnStep DEF kids
<1> QED BY <1>3, <1>4

(* Lines 100-111. *)
LEMMA StepSiblingsKeeps ==
    ASSUME WeightsInv, NEW p \in 1..live, stepSiblings(p) PROVE WeightsInv'
<1> DEFINE c == call[p]
           kids == children[parent[p]]
           q == kids[c.at + 1]
           n == AddOne(c, q, weight[q])
           r == IF c.at = 1 THEN ESRCH ELSE c.sum - weight[p]
           d == siblingsAre(r, c.seen, c.before)
<1>0. p \in Procs /\ weight[p] \in Nat
  BY Runs DEF WeightsInv
<1>1. /\ c.op = "sum" /\ UNCHANGED <<live, parent, weight, children>>
      /\ call' = [call EXCEPT ![p] = IF c.at < Len(kids) THEN n ELSE d]
  BY DEF stepSiblings, moreOf, AddOne, withoutCurrent
<1>2. Adding(c, p, weight[p], kids)
  BY <1>0, <1>1 DEF WeightsInv, Calls, CallOK
<1>3. Siblings(kids, p)
  <2>1. p # 1
    BY <1>2 DEF Adding
  <2> QED BY <2>1, Runs DEF WeightsInv
<1> HIDE DEF c, kids
<1>4. CASE c.at < Len(kids)
  <2>1. c.at + 1 \in 1..Len(kids)
    BY <1>2, <1>3, <1>4 DEF Adding, AddRec, Siblings
  <2>2. q \in Procs
    BY <1>3, <2>1, SeqItem DEF Siblings
  <2>3. weight[q] \in Nat
    BY <2>2 DEF WeightsInv, Family
  <2> HIDE DEF q
  <2>4. Adding(n, p, weight[p], kids)
    BY <1>0, <1>2, <1>3, <1>4, <2>3, AddStep DEF q
  <2> HIDE DEF n
  <2>5. n.op = "sum"
    BY <2>4 DEF Adding, AddRec
  <2>6. CallOK(n, p, live, parent, weight[p], kids)
    BY Zenon, <2>4, <2>5, SumOK
  <2>7. call' = [call EXCEPT ![p] = n]
    BY <1>1, <1>4
  <2> QED BY Zenon, <1>0, <1>1, <2>6, <2>7, OwnStep DEF kids
<1>5. CASE ~(c.at < Len(kids))
  <2>1. Added(r, c.seen, c.before, p, kids)
    BY <1>0, <1>2, <1>3, <1>5, AddEnd
  <2> HIDE DEF r
  <2>2. d.op = "siblings" /\ d.result = r /\ d.seen = c.seen /\ d.before = c.before
    BY DEF siblingsAre
  <2> HIDE DEF d
  <2>3. CallOK(d, p, live, parent, weight[p], kids)
    BY Zenon, <2>1, <2>2, SumOK
  <2>4. call' = [call EXCEPT ![p] = d]
    BY <1>1, <1>5
  <2> QED BY Zenon, <1>0, <1>1, <2>3, <2>4, OwnStep DEF kids
<1> QED BY <1>4, <1>5

(* set_weight changes the weight of its caller, which is in no other call. *)
LEMMA SetWeightKeeps ==
    ASSUME WeightsInv, NEW p \in 1..live, NEW w \in Weights, sys_set_weight(p, w)
    PROVE  WeightsInv'
<1>0. p \in Procs /\ live \in Nat /\ w \in Int
  BY Runs DEF WeightsInv
<1>1. /\ weight' = IF valid(w) THEN [weight EXCEPT ![p] = w] ELSE weight
      /\ call' = [call EXCEPT ![p] = Idle] /\ UNCHANGED <<live, parent, children>>
  BY DEF sys_set_weight
<1>2. weight \in [Procs -> Nat] /\ call = [q \in Procs |-> call[q]]
  BY DEF WeightsInv, Family, Calls
<1>3. weight' \in [Procs -> Nat] /\ \A q \in Procs : q # p => weight'[q] = weight[q]
  <2>1. CASE valid(w)
    <3>1. w \in Nat
      BY <1>0, <2>1 DEF valid
    <3> QED BY <1>0, <1>1, <1>2, <2>1, <3>1
  <2>2. CASE ~valid(w)
    BY <1>1, <1>2, <2>2
  <2> QED BY <2>1, <2>2
<1>4. Family'
  BY Zenon, <1>1, <1>3 DEF WeightsInv, Family
<1>5. ASSUME NEW q \in Procs
      PROVE  CallOK(call[q], q, live, parent, weight[q], children[parent[q]])'
  <2>1. CASE q = p
    <3>1. call'[q] = Idle
      BY <1>1, <1>2, <2>1
    <3> QED BY <3>1, IdleOK
  <2>2. CASE q # p
    <3>1. call'[q] = call[q] /\ weight'[q] = weight[q]
      BY <1>1, <1>2, <1>3, <2>2
    <3>2. CallOK(call[q], q, live, parent, weight[q], children[parent[q]])
      BY DEF WeightsInv, Calls
    <3> QED BY <1>1, <3>1, <3>2
  <2> QED BY <2>1, <2>2
<1>6. call' = [q \in Procs |-> call'[q]]
  BY <1>1, <1>2
<1> QED BY <1>4, <1>5, <1>6 DEF WeightsInv, Calls

(* The lists of children after p forked b. *)
LEMMA ForkLists ==
    ASSUME Family, NEW p \in 1..live, live < N, NEW b, b = live + 1,
           children' = [children EXCEPT ![p] = Append(@, b)]
    PROVE  /\ children' \in [Procs -> Seq(Procs)]
           /\ \A q \in Procs : Extends(children'[q], children[q])
           /\ \A q \in Procs : q # p => children'[q] = children[q]
           /\ Len(children'[p]) = Len(children[p]) + 1
           /\ children'[p][Len(children[p]) + 1] = b
<1>0. p \in Procs /\ b \in Procs
  BY Runs DEF Procs
<1>1. children \in [Procs -> Seq(Procs)]
  BY DEF Family
<1>2. children'[p] = Append(children[p], b) /\ \A q \in Procs : q # p => children'[q] = children[q]
  BY <1>0, <1>1
<1> DEFINE l == children[p]
<1>3. l \in Seq(Procs)
  BY <1>0, <1>1
<1> HIDE DEF l
<1>4. /\ Append(l, b) \in Seq(Procs) /\ Len(Append(l, b)) = Len(l) + 1
      /\ Append(l, b)[Len(l) + 1] = b /\ \A i \in 1..Len(l) : Append(l, b)[i] = l[i]
  BY <1>0, <1>3, SeqAppend
<1>5. Extends(Append(l, b), l)
  BY <1>3, <1>4 DEF Extends
<1>6. ASSUME NEW q \in Procs PROVE Extends(children'[q], children[q])
  <2>1. CASE q = p
    BY <1>2, <1>5, <2>1 DEF l
  <2>2. CASE q # p
    <3>1. children'[q] = children[q] /\ children[q] \in Seq(Procs)
      BY <1>1, <1>2, <2>2
    <3>2. Len(children[q]) \in Nat
      BY <3>1
    <3> QED BY <3>1, <3>2 DEF Extends
  <2> QED BY <2>1, <2>2
<1>7. children' \in [Procs -> Seq(Procs)]
  <2>1. children' = [children EXCEPT ![p] = Append(l, b)]
    BY DEF l
  <2> QED BY Zenon, <1>1, <1>4, <2>1
<1> QED BY <1>2, <1>4, <1>6, <1>7 DEF l

(* fork adds a process with a parent that exists, at the end of the list   *)
(* of that parent.                                                         *)
LEMMA ForkFamily ==
    ASSUME Family, NEW p \in 1..live, fork(p) PROVE Family'
<1> DEFINE b == live + 1
           l == children[p]
<1> HIDE DEF b, l
<1>0. /\ live \in Nat /\ live < N /\ b \in Procs /\ b \in 1..N /\ b \notin 1..live /\ p \in Procs
      /\ b # 1 /\ b # p
  BY Runs DEF fork, b, Procs
<1>1. /\ live' = b /\ parent' = [parent EXCEPT ![b] = p] /\ weight' = [weight EXCEPT ![b] = weight[p]]
      /\ children' = [children EXCEPT ![p] = Append(@, b)]
  BY DEF fork, b
<1>2. /\ parent \in [Procs -> Procs] /\ weight \in [Procs -> Nat]
      /\ children \in [Procs -> Seq(Procs)]
  BY DEF Family
<1>3. /\ children' \in [Procs -> Seq(Procs)]
      /\ \A q \in Procs : Extends(children'[q], children[q])
      /\ \A q \in Procs : q # p => children'[q] = children[q]
      /\ Len(children'[p]) = Len(l) + 1
      /\ children'[p][Len(l) + 1] = b
  <2>1. b = live + 1
    BY DEF b
  <2> QED BY Zenon, <1>0, <1>1, <2>1, ForkLists DEF l
<1>4. Len(l) \in Nat /\ \A i \in 1..Len(l) : children'[p][i] = l[i] /\ l[i] \in 1..live
  <2>1. l \in Seq(Procs)
    BY <1>0, <1>2 DEF l
  <2>2. \A i \in 1..Len(l) : children'[p][i] = l[i]
    BY <1>0, <1>3 DEF Extends, l
  <2>3. \A i \in 1..Len(l) : l[i] \in 1..live
    BY <1>0 DEF Family, l
  <2> QED BY <2>1, <2>2, <2>3
<1>5. live' \in 1..N /\ parent' \in [Procs -> Procs] /\ weight' \in [Procs -> Nat]
  BY <1>0, <1>1, <1>2
<1>6. parent'[b] = p /\ \A q \in 1..live : parent'[q] = parent[q]
  BY <1>0, <1>1, <1>2 DEF Procs
<1>7. \A q \in 1..b : q = b \/ q \in 1..live
  BY <1>0 DEF b
<1>8. \A q \in 1..live : q \in 1..b
  BY <1>0 DEF b
<1>9. ASSUME NEW q \in 1..b PROVE parent'[q] \in 1..b
  <2>1. CASE q = b
    BY <1>6, <1>8, <2>1
  <2>2. CASE q # b
    <3>1. q \in 1..live
      BY <1>7, <2>2
    <3>2. parent[q] \in 1..live
      BY <3>1 DEF Family
    <3> QED BY <1>6, <1>8, <3>1, <3>2
  <2> QED BY <2>1, <2>2
<1>a. ASSUME NEW i \in 1..(Len(l) + 1) PROVE i = Len(l) + 1 \/ i \in 1..Len(l)
  BY <1>4
<1>b. ASSUME NEW q \in Procs, NEW i \in 1..Len(children'[q]) PROVE children'[q][i] \in 1..b
  <2>1. CASE q = p
    <3>1. CASE i = Len(l) + 1
      BY <1>0, <1>3, <2>1, <3>1
    <3>2. CASE i # Len(l) + 1
      <4>1. i \in 1..Len(l)
        BY <1>3, <1>a, <2>1, <3>2
      <4> QED BY <1>4, <1>8, <2>1, <4>1
    <3> QED BY <3>1, <3>2
  <2>2. CASE q # p
    <3>1. children'[q] = children[q]
      BY <1>3, <2>2
    <3>2. children[q][i] \in 1..live
      BY <3>1 DEF Family
    <3> QED BY <1>8, <3>1, <3>2
  <2> QED BY <2>1, <2>2
<1>c. ASSUME NEW q \in Procs, NEW i \in 1..Len(children'[q]), NEW j \in 1..Len(children'[q]),
             children'[q][i] = children'[q][j]
      PROVE  i = j
  <2>1. CASE q = p
    <3>0. i \in 1..(Len(l) + 1) /\ j \in 1..(Len(l) + 1)
      BY <1>3, <2>1
    <3>1. \A k \in 1..Len(l) : children'[p][k] # b
      BY <1>0, <1>4
    <3>2. (i = Len(l) + 1) = (j = Len(l) + 1)
      BY <1>3, <1>a, <1>c, <2>1, <3>0, <3>1
    <3>3. CASE i = Len(l) + 1
      BY <3>2, <3>3
    <3>4. CASE i # Len(l) + 1
      <4>1. i \in 1..Len(l) /\ j \in 1..Len(l)
        BY <1>a, <3>0, <3>2, <3>4
      <4>2. l[i] = l[j]
        BY <1>4, <1>c, <2>1, <4>1
      <4> QED BY <1>0, <4>1, <4>2 DEF Family, l
    <3> QED BY <3>3, <3>4
  <2>2. CASE q # p
    <3>1. children'[q] = children[q]
      BY <1>3, <2>2
    <3> QED BY Zenon, <1>c, <3>1 DEF Family
  <2> QED BY <2>1, <2>2
<1>d. ASSUME NEW q \in 2..b
      PROVE  \E i \in 1..Len(children'[parent'[q]]) : children'[parent'[q]][i] = q
  <2>1. CASE q = b
    <3>1. Len(l) + 1 \in 1..Len(children'[p])
      BY <1>3, <1>4
    <3> QED BY <1>3, <1>6, <2>1, <3>1
  <2>2. CASE q # b
    <3>1. q \in 2..live /\ q \in 1..live
      BY <1>0, <2>2 DEF b
    <3>2. PICK i \in 1..Len(children[parent[q]]) : children[parent[q]][i] = q
      BY Zenon, <3>1 DEF Family
    <3>3. parent'[q] = parent[q] /\ parent[q] \in Procs
      BY <1>2, <1>6, <3>1, Runs
    <3>4. Extends(children'[parent[q]], children[parent[q]])
      BY <1>3, <3>3
    <3>5. /\ i \in 1..Len(children'[parent[q]])
          /\ children'[parent[q]][i] = children[parent[q]][i]
      BY <3>2, <3>4 DEF Extends
    <3> QED BY <3>2, <3>3, <3>5
  <2> QED BY <2>1, <2>2
<1> QED BY Zenon, <1>1, <1>3, <1>5, <1>9, <1>b, <1>c, <1>d DEF Family

(* fork reaches no call but the forking process's own, which is over. *)
LEMMA ForkKeeps ==
    ASSUME WeightsInv, NEW p \in 1..live, fork(p) PROVE WeightsInv'
<1> DEFINE b == live + 1
<1> HIDE DEF b
<1>0. live \in Nat /\ live < N /\ b \in Nat /\ live <= b /\ b \notin 1..live /\ p \in Procs
  BY Runs DEF WeightsInv, fork, b
<1>1. /\ live' = b /\ parent' = [parent EXCEPT ![b] = p] /\ weight' = [weight EXCEPT ![b] = weight[p]]
      /\ children' = [children EXCEPT ![p] = Append(@, b)] /\ call' = [call EXCEPT ![p] = Idle]
  BY DEF fork, b
<1>2. /\ Family /\ parent \in [Procs -> Procs] /\ weight \in [Procs -> Nat]
      /\ call = [q \in Procs |-> call[q]]
  BY DEF WeightsInv, Family, Calls
<1>3. \A q \in Procs : Extends(children'[q], children[q])
  <2>1. b = live + 1
    BY DEF b
  <2> QED BY Zenon, <1>0, <1>1, <1>2, <2>1, ForkLists
<1>4. \A q \in 1..live : q \in Procs /\ parent'[q] = parent[q] /\ weight'[q] = weight[q]
  <2>1. \A q \in 1..live : q \in Procs /\ q # b
    BY <1>0, <1>2, Runs
  <2> QED BY <1>1, <1>2, <2>1
<1>5. ASSUME NEW q \in Procs
      PROVE  CallOK(call[q], q, live, parent, weight[q], children[parent[q]])'
  <2>0. CallOK(call[q], q, live, parent, weight[q], children[parent[q]])
    BY DEF WeightsInv, Calls
  <2>1. CASE q = p
    <3>1. call'[q] = Idle
      BY <1>1, <1>2, <2>1
    <3> QED BY <3>1, IdleOK
  <2>2. CASE q # p
    <3>1. call'[q] = call[q]
      BY <1>1, <1>2, <2>2
    <3>2. CASE call[q].op = "idle"
      BY <3>1, <3>2, IdleOK
    <3>3. CASE call[q].op # "idle"
      <4>1. q \in 1..live
        BY <2>0, <3>3 DEF CallOK
      <4>2. parent'[q] = parent[q] /\ weight'[q] = weight[q] /\ parent[q] \in Procs
        BY <1>2, <1>4, <4>1
      <4>3. Extends(children'[parent[q]], children[parent[q]])
        BY <1>3, <4>2
      <4>4. CallOK(call[q], q, b, parent', weight[q], children'[parent[q]])
        BY <1>0, <1>4, <2>0, <3>3, <4>3, CallKept
      <4> QED BY <1>1, <3>1, <4>2, <4>4
    <3> QED BY <3>2, <3>3
  <2> QED BY <2>1, <2>2
<1>6. call' = [q \in Procs |-> call'[q]]
  BY Zenon, <1>1, <1>2
<1>7. Family'
  BY <1>2, ForkFamily
<1> QED BY <1>5, <1>6, <1>7 DEF WeightsInv, Calls

(* At first there is only init, in no call. *)
LEMMA WeightsInvInit == Init => WeightsInv
<1> SUFFICES ASSUME Init PROVE WeightsInv
  OBVIOUS
<1>1. /\ live = 1 /\ parent = [p \in Procs |-> 1] /\ weight = [p \in Procs |-> 0]
      /\ children = [p \in Procs |-> << >>] /\ call = [p \in Procs |-> Idle]
  BY DEF Init
<1>2. 1 \in Procs /\ 1 \in 1..N
  BY DEF Procs
<1>3. /\ parent \in [Procs -> Procs] /\ weight \in [Procs -> Nat]
      /\ children \in [Procs -> Seq(Procs)] /\ \A q \in Procs : Len(children[q]) = 0
  BY <1>1, <1>2
<1>4. Family
  BY <1>1, <1>2, <1>3 DEF Family
<1>5. call = [p \in Procs |-> call[p]] /\ \A p \in Procs : call[p].op = "idle"
  BY <1>1, IdleOK
<1>6. Calls
  BY <1>5, IdleOK DEF Calls
<1> QED BY <1>4, <1>6 DEF WeightsInv

(* Every step of every process keeps it. *)
LEMMA WeightsStep == WeightsInv /\ [Next]_vars => WeightsInv'
<1> SUFFICES ASSUME WeightsInv, [Next]_vars PROVE WeightsInv'
  OBVIOUS
<1>1. CASE UNCHANGED vars
  BY <1>1 DEF vars, WeightsInv, Family, Calls
<1>2. CASE Next
  <2>1. PICK p \in 1..live :
           \/ fork(p) \/ startAncestor(p) \/ stepAncestor(p)
           \/ startSiblings(p) \/ stepSiblings(p)
           \/ \E w \in Weights : sys_set_weight(p, w)
    BY <1>2 DEF Next
  <2> QED BY <2>1, ForkKeeps, StartAncestorKeeps, StepAncestorKeeps, StartSiblingsKeeps,
             StepSiblingsKeeps, SetWeightKeeps
<1> QED BY <1>1, <1>2

(* The invariant holds whatever the processes do. *)
LEMMA WeightsInvariant == Spec => []WeightsInv
BY WeightsInvInit, WeightsStep, PTL DEF Spec

(* set_weight (hw2.c:13) and fork leave no process with a negative weight, *)
(* for any number of processes.                                            *)
THEOREM WeightsTyped == Spec => []WeightsTypeOK
<1>1. WeightsInv => WeightsTypeOK
  BY DEF WeightsInv, Family, Calls, CallOK, WalkOps, WeightsTypeOK
<1> QED BY <1>1, WeightsInvariant, PTL

(* get_lightest_divisor_ancestor (hw2.c:31) walks from the caller to init  *)
(* and answers with one of those it passed, although it takes no lock and  *)
(* others fork and set their weights during the walk.  Unless a weight     *)
(* changed between two reads of it in one round, that is the nearest of    *)
(* the lightest divisors, and line 57 divides by no zero.                  *)
THEOREM AncestorFound == Spec => []AncestorRight
<1>1. ASSUME WeightsInv PROVE AncestorRight
  <2>1. ASSUME NEW p \in Procs, call[p].op = "ancestor"
        PROVE  LET c == call[p] IN
               /\ c.seen[1][1] = p
               /\ c.seen[1][2] # 0 /\ p # 1 => c.seen[Len(c.seen)][1] = 1
               /\ \A i \in 2..Len(c.seen) : c.seen[i][1] = parent[c.seen[i - 1][1]]
               /\ \E i \in 1..Len(c.seen) : c.result = c.seen[i][1]
               /\ ~c.torn => c.result = LightestDivisor(c.seen)
    <3>1. Walked(call[p].result, call[p].seen, call[p].torn, p, live, parent)
      BY Zenon, <1>1, <2>1 DEF WeightsInv, Calls, CallOK
    <3> QED BY Zenon, <3>1 DEF Walked, Chain
  <2>2. ASSUME NEW p \in Procs, call[p].op = "fault" PROVE call[p].torn
    BY Zenon, <1>1, <2>2 DEF WeightsInv, Calls, CallOK
  <2> QED BY Zenon, <2>1, <2>2 DEF AncestorRight
<1> QED BY <1>1, WeightsInvariant, PTL

(* get_siblings_sum (hw2.c:73) answers with the sum of the weights it read *)
(* of the caller's siblings, each once and the caller left out, and misses *)
(* none that was there when it began, although siblings are born and set   *)
(* their weights during the loop.                                          *)
THEOREM SiblingsAdded == Spec => []SiblingsRight
<1>1. ASSUME WeightsInv PROVE SiblingsRight
  <2> SUFFICES ASSUME NEW p \in Procs, call[p].op = "siblings", p # 1
               PROVE  LET seen == call[p].seen IN
                      /\ call[p].result =
                            IF \E i \in 1..Len(seen) : seen[i][1] # p
                            THEN SumOthers(seen, p) ELSE ESRCH
                      /\ \A i \in 1..Len(seen) : seen[i][1] = children[parent[p]][i]
                      /\ \E i \in 1..Len(seen) : seen[i][1] = p
                      /\ call[p].before <= Len(seen)
    BY DEF SiblingsRight
  <2>1. Added(call[p].result, call[p].seen, call[p].before, p, children[parent[p]])
    BY Zenon, <1>1 DEF WeightsInv, Calls, CallOK
  <2> QED BY Zenon, <2>1 DEF Added
<1> QED BY <1>1, WeightsInvariant, PTL
=============================================================================
