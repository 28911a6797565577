----------------------------- MODULE ReqQProofs -----------------------------
(***************************************************************************)
(* The linked list of reqQ.c is a queue, for any heap and any max_size:    *)
(* its links stay consistent, no call goes through a bad pointer, and      *)
(* every call does to the queue what ReqQSpec promises.                    *)
(*                                                                         *)
(* The loops follow `next' from head.  The invariant names the nodes they  *)
(* meet, s[0] to s[cur_size - 1], instead: that function is the witness    *)
(* for the recursive definition of nodeAt, and WalkFollows shows that the  *)
(* two agree.                                                              *)
(***************************************************************************)
EXTENDS ReqQ, WellFoundedInduction, TLAPS

(* What the proofs need of numbers and sequences.                          *)

(* Every non-empty set of naturals has a least element. *)
LEMMA LeastNatural ==
    ASSUME NEW T, T \subseteq Nat, T # {}
    PROVE  \E x \in T : \A y \in T : x <= y
<1> DEFINE R == OpToRel(<, Nat)
<1>1. PICK x \in T : \A y \in T : ~ (<<y, x>> \in R)
  <2> HIDE DEF R
  <2>1. IsWellFoundedOn(R, Nat)
    BY Zenon, NatLessThanWellFounded DEF R
  <2> QED BY Zenon, <2>1, WFMin
<1>2. ASSUME NEW y \in T PROVE x <= y
  <2>1. ~(y < x)
    BY Zenon, <1>1 DEF OpToRel
  <2> QED BY <2>1
<1> QED BY <1>2

(* A sequence is a function on 1..Len. *)
LEMMA SeqLen ==
    ASSUME NEW S, NEW s \in Seq(S)
    PROVE  Len(s) \in Nat /\ DOMAIN s = 1..Len(s) /\ s \in [1..Len(s) -> S]
OBVIOUS

(* What the sequences are. *)
LEMMA SeqFunctions == \A S : Seq(S) = UNION {[1..n -> S] : n \in Nat}
OBVIOUS

(* What Append returns. *)
LEMMA SeqAppend ==
    ASSUME NEW S, NEW s \in Seq(S), NEW e \in S
    PROVE  /\ Append(s, e) \in Seq(S) /\ Len(Append(s, e)) = Len(s) + 1
           /\ Append(s, e) # << >> /\ Append(s, e)[Len(s) + 1] = e
           /\ \A i \in 1..Len(s) : Append(s, e)[i] = s[i]
OBVIOUS

(* What Head and Tail return. *)
LEMMA SeqTail ==
    ASSUME NEW S, NEW s \in Seq(S), s # << >>
    PROVE  /\ Head(s) \in S /\ Tail(s) \in Seq(S) /\ Len(Tail(s)) = Len(s) - 1
           /\ \A i \in 1..Len(Tail(s)) : Tail(s)[i] = s[i + 1]
OBVIOUS
-----------------------------------------------------------------------------
(* s lists the n nodes of a list with the head h, the tail t, the links nx *)
(* and pv, and the allocated nodes L.  What `previous' of the first node   *)
(* holds does not matter.                                                  *)
Chained(s, n, h, t, nx, pv, L) ==
    /\ s \in [0..(n - 1) -> Node]
    /\ n = 0 => h = Null /\ t = Null
    /\ n > 0 => h = s[0] /\ t = s[n - 1] /\ nx[t] = Null
    /\ \A i \in 1..(n - 1) : nx[s[i - 1]] = s[i] /\ pv[s[i]] = s[i - 1]
    /\ \A i, j \in 0..(n - 1) : s[i] = s[j] => i = j
    /\ L = {s[i] : i \in 0..(n - 1)}

Lists(s) == Chained(s, cur_size, head, tail, next, previous, live)

(* The inductive invariant. *)
ListInv ==
    /\ cur_size \in 0..Limit
    /\ DOMAIN data = Ptr /\ DOMAIN time = Ptr
    /\ DOMAIN next = Ptr /\ DOMAIN previous = Ptr
    /\ fault = FALSE
    /\ \E s : Lists(s)

(* nodeAt, the walk of the loops, meets the nodes of the list. *)
WalksRight == \A s : Lists(s) => \A k \in 0..(cur_size - 1) : nodeAt(k) = s[k]

(* s with x behind its n nodes, and s without its node at k. *)
grown(s, n, x) == [i \in 0..n |-> IF i = n THEN x ELSE s[i]]

cut(s, n, k) == [i \in 0..(n - 2) |-> IF i < k THEN s[i] ELSE s[i + 1]]

OnePlace(s, n) == \A i, j \in 0..(n - 1) : s[i] = s[j] => i = j

IsCut(z, s, n, k) ==
    /\ z \in [0..(n - 2) -> Node]
    /\ \A i \in 0..(n - 2) : z[i] = IF i < k THEN s[i] ELSE s[i + 1]
    /\ \A i, j \in 0..(n - 2) : z[i] = z[j] => i = j
    /\ {z[i] : i \in 0..(n - 2)} = {s[i] : i \in 0..(n - 1)} \ {s[k]}

(* The links mx and qv, from nx and pv: after the insertion of x behind t, *)
(* after the removal of the head h, after the removal of the node at k.    *)
LinksGrown(n, t, L, x, nx, pv, mx, qv) ==
    /\ mx[x] = Null
    /\ n > 0 => mx[t] = x /\ qv[x] = t
    /\ \A m \in L : m # t => mx[m] = nx[m]
    /\ \A m \in L : qv[m] = pv[m]

LinksDropped(h, L, nx, pv, mx, qv) ==
    /\ \A m \in L : m # h => mx[m] = nx[m]
    /\ \A m \in L : m # h /\ m # nx[h] => qv[m] = pv[m]

LinksCut(s, k, L, nx, pv, mx, qv) ==
    /\ mx[s[k - 1]] = nx[s[k]]
    /\ \A m \in L : m # s[k - 1] /\ m # s[k] => mx[m] = nx[m]
    /\ nx[s[k]] # Null => qv[nx[s[k]]] = s[k - 1]
    /\ \A m \in L : m # s[k] /\ m # nx[s[k]] => qv[m] = pv[m]

(* The links between two neighbours of the list. *)
LEMMA ChainedLink ==
    ASSUME NEW s, NEW n \in Nat, NEW h, NEW t, NEW nx, NEW pv, NEW L,
           Chained(s, n, h, t, nx, pv, L), NEW i \in 0..(n - 2)
    PROVE  nx[s[i]] = s[i + 1] /\ pv[s[i + 1]] = s[i]
<1>1. \A j \in 1..(n - 1) : nx[s[j - 1]] = s[j] /\ pv[s[j]] = s[j - 1]
  BY DEF Chained
<1>2. i + 1 \in 1..(n - 1) /\ (i + 1) - 1 = i
  OBVIOUS
<1>3. nx[s[(i + 1) - 1]] = s[i + 1] /\ pv[s[i + 1]] = s[(i + 1) - 1]
  BY <1>1, <1>2
<1> QED BY <1>2, <1>3

(* The nodes of the list are its live ones, each in one place. *)
LEMMA ChainedNodes ==
    ASSUME NEW s, NEW n \in Nat, NEW h, NEW t, NEW nx, NEW pv, NEW L,
           Chained(s, n, h, t, nx, pv, L), NEW i \in 0..(n - 1)
    PROVE  /\ s[i] \in Node /\ s[i] \in L
           /\ \A j \in 0..(n - 1) : j # i => s[j] # s[i]
BY DEF Chained

-----------------------------------------------------------------------------
(* The loops of lines 211, 264 and 310 meet the nodes of the list in their *)
(* order.                                                                  *)
LEMMA WalkFollows == ListInv => WalksRight
<1> SUFFICES ASSUME cur_size \in Nat, NEW s, Lists(s), NEW k \in 0..(cur_size - 1)
             PROVE  nodeAt(k) = s[k]
  BY ReqQAssumption DEF ListInv, WalksRight
<1> DEFINE W(f) == f = [i \in 0..k |-> IF i = 0 THEN head ELSE next[f[i - 1]]]
           walk == CHOOSE f : W(f)
           g == [i \in 0..k |-> s[i]]
<1>1. /\ head = s[0]
      /\ \A i \in 1..k : next[s[i - 1]] = s[i]
  BY DEF Lists, Chained
<1>2. W(g)
  <2>1. ASSUME NEW i \in 0..k PROVE g[i] = IF i = 0 THEN head ELSE next[g[i - 1]]
    <3>1. CASE i = 0
      BY <1>1, <3>1
    <3>2. CASE i # 0
      <4>1. i \in 1..k /\ i - 1 \in 0..k
        BY <3>2
      <4> QED BY <1>1, <3>2, <4>1
    <3> QED BY <3>1, <3>2
  <2> QED BY <2>1
<1>3. W(walk)
  <2> HIDE DEF W, g
  <2> QED BY <1>2
<1>4. \A i \in 0..k : walk[i] = IF i = 0 THEN head ELSE next[walk[i - 1]]
  <2> HIDE DEF walk
  <2> QED BY <1>3
<1>5. nodeAt(k) = walk[k]
  BY DEF nodeAt
<1> HIDE DEF walk, g, W
<1> DEFINE Bad == {i \in 0..k : walk[i] # s[i]}
<1>6. CASE Bad = {}
  BY <1>5, <1>6
<1>7. CASE Bad # {}
  <2>0. Bad \subseteq Nat
    OBVIOUS
  <2>1. PICK x \in Bad : \A y \in Bad : x <= y
    <3> HIDE DEF Bad
    <3> QED BY Zenon, <1>7, <2>0, LeastNatural
  <2>2. x \in 1..k /\ x - 1 \in 0..k /\ x - 1 \notin Bad
    BY <1>1, <1>4, <2>1
  <2>3. walk[x] = next[s[x - 1]]
    BY <1>4, <2>2
  <2> QED BY <1>1, <2>1, <2>2, <2>3
<1> QED BY <1>6, <1>7

-----------------------------------------------------------------------------
(* insertReq: a new node x behind the tail. *)
LEMMA ChainGrows ==
    ASSUME NEW n \in Nat, NEW s, NEW h, NEW t, NEW nx, NEW pv, NEW L,
           Chained(s, n, h, t, nx, pv, L),
           NEW x \in Node, x \notin L, NEW mx, NEW qv,
           LinksGrown(n, t, L, x, nx, pv, mx, qv)
    PROVE  Chained(grown(s, n, x), n + 1, IF n = 0 THEN x ELSE h, x, mx, qv, L \cup {x})
<1> DEFINE z == grown(s, n, x)
<1>1. /\ s \in [0..(n - 1) -> Node] /\ (n + 1) - 1 = n
      /\ n > 0 => h = s[0] /\ t = s[n - 1]
      /\ \A i \in 1..(n - 1) : nx[s[i - 1]] = s[i] /\ pv[s[i]] = s[i - 1]
      /\ \A i, j \in 0..(n - 1) : s[i] = s[j] => i = j
      /\ L = {s[i] : i \in 0..(n - 1)}
  BY DEF Chained
<1>2. /\ z \in [0..n -> Node] /\ z[n] = x
      /\ \A i \in 0..(n - 1) : z[i] = s[i] /\ s[i] \in L /\ s[i] # x
  BY <1>1 DEF grown
<1>3. \A i \in 0..n : i = n \/ i \in 0..(n - 1)
  OBVIOUS
<1> HIDE DEF z
<1>4. \A i, j \in 0..n : z[i] = z[j] => i = j
  BY <1>1, <1>2, <1>3
<1>5. L \cup {x} = {z[i] : i \in 0..n}
  <2>1. \A y \in L \cup {x} : \E i \in 0..n : y = z[i]
    BY <1>1, <1>2
  <2>2. \A i \in 0..n : z[i] \in L \cup {x}
    BY <1>2, <1>3
  <2> QED BY <2>1, <2>2
<1>6. ASSUME NEW i \in 1..n PROVE mx[z[i - 1]] = z[i] /\ qv[z[i]] = z[i - 1]
  <2>1. CASE i = n
    <3>1. n > 0 /\ n - 1 \in 0..(n - 1)
      BY <2>1
    <3>2. z[n - 1] = t
      BY <1>1, <1>2, <3>1
    <3>3. mx[t] = x /\ qv[x] = t
      BY <3>1 DEF LinksGrown
    <3> QED BY <1>2, <2>1, <3>2, <3>3
  <2>2. CASE i # n
    <3>1. i \in 1..(n - 1) /\ i \in 0..(n - 1) /\ i - 1 \in 0..(n - 1) /\ n - 1 \in 0..(n - 1)
      BY <2>2
    <3>2. s[i - 1] # t
      BY <1>1, <3>1
    <3>3. mx[s[i - 1]] = s[i] /\ qv[s[i]] = s[i - 1]
      <4>1. nx[s[i - 1]] = s[i] /\ pv[s[i]] = s[i - 1]
        BY <1>1, <3>1
      <4>2. s[i - 1] \in L /\ s[i] \in L
        BY <1>2, <3>1
      <4> QED BY <3>2, <4>1, <4>2 DEF LinksGrown
    <3>4. z[i] = s[i] /\ z[i - 1] = s[i - 1]
      BY <1>2, <3>1
    <3> QED BY <3>3, <3>4
  <2> QED BY <2>1, <2>2
<1>7. (IF n = 0 THEN x ELSE h) = z[0]
  <2>1. CASE n = 0
    BY <1>2, <2>1
  <2>2. CASE n # 0
    <3>1. n > 0 /\ 0 \in 0..(n - 1)
      BY <2>2
    <3> QED BY <1>1, <1>2, <2>2, <3>1
  <2> QED BY <2>1, <2>2
<1>8. mx[x] = Null
  BY DEF LinksGrown
<1>9. n + 1 > 0 /\ n + 1 # 0
  OBVIOUS
<1>10. Chained(z, n + 1, IF n = 0 THEN x ELSE h, x, mx, qv, L \cup {x})
  BY <1>1, <1>2, <1>4, <1>5, <1>6, <1>7, <1>8, <1>9 DEF Chained
<1> QED BY <1>10 DEF z

(* Without the node at k the others keep their order. *)
LEMMA CutFacts ==
    ASSUME NEW n \in Nat, NEW k \in 0..(n - 1), NEW s \in [0..(n - 1) -> Node],
           OnePlace(s, n)
    PROVE  IsCut(cut(s, n, k), s, n, k)
<1> DEFINE z == cut(s, n, k)
<1>0. \A i, j \in 0..(n - 1) : s[i] = s[j] => i = j
  BY DEF OnePlace
<1>1. \A i \in 0..(n - 2) : z[i] = IF i < k THEN s[i] ELSE s[i + 1]
  BY DEF cut
<1>2. z \in [0..(n - 2) -> Node]
  <2>1. \A i \in 0..(n - 2) : i \in 0..(n - 1) /\ i + 1 \in 0..(n - 1)
    OBVIOUS
  <2> QED BY <2>1 DEF cut
<1> HIDE DEF z
<1>3. \A i, j \in 0..(n - 2) : z[i] = z[j] => i = j
  <2> DEFINE at(i) == IF i < k THEN i ELSE i + 1
  <2>1. \A i \in 0..(n - 2) : at(i) \in 0..(n - 1)
    OBVIOUS
  <2>2. \A i, j \in 0..(n - 2) : at(i) = at(j) => i = j
    OBVIOUS
  <2>3. \A i \in 0..(n - 2) : z[i] = s[at(i)]
    BY <1>1
  <2> HIDE DEF at
  <2> QED BY <1>0, <2>1, <2>2, <2>3
<1>4. ASSUME NEW i \in 0..(n - 2)
      PROVE  z[i] \in {s[j] : j \in 0..(n - 1)} \ {s[k]}
  <2>1. CASE i < k
    <3>1. i \in 0..(n - 1) /\ i # k
      BY <2>1
    <3> QED BY <1>0, <1>1, <2>1, <3>1
  <2>2. CASE ~(i < k)
    <3>1. i + 1 \in 0..(n - 1) /\ i + 1 # k
      BY <2>2
    <3> QED BY <1>0, <1>1, <2>2, <3>1
  <2> QED BY <2>1, <2>2
<1>5. ASSUME NEW j \in 0..(n - 1), s[j] # s[k]
      PROVE  \E i \in 0..(n - 2) : s[j] = z[i]
  <2>1. CASE j < k
    <3>1. j \in 0..(n - 2)
      BY <2>1
    <3> QED BY <1>1, <2>1, <3>1
  <2>2. CASE j > k
    <3>1. j - 1 \in 0..(n - 2) /\ ~(j - 1 < k) /\ (j - 1) + 1 = j
      BY <2>2
    <3> QED BY Zenon, <1>1, <3>1
  <2> QED BY <1>5, <2>1, <2>2
<1>6. {z[i] : i \in 0..(n - 2)} = {s[i] : i \in 0..(n - 1)} \ {s[k]}
  BY <1>4, <1>5
<1> QED BY Zenon, <1>1, <1>2, <1>3, <1>6 DEF z, IsCut

(* removeFirstReq. *)
LEMMA ChainDrops ==
    ASSUME NEW n \in Nat, n > 0, NEW s, NEW h, NEW t, NEW nx, NEW pv, NEW L,
           Chained(s, n, h, t, nx, pv, L), NEW mx, NEW qv,
           LinksDropped(h, L, nx, pv, mx, qv)
    PROVE  Chained(cut(s, n, 0), n - 1, IF n = 1 THEN Null ELSE nx[h],
                   IF n = 1 THEN Null ELSE t, mx, qv, L \ {h})
<1> DEFINE z == cut(s, n, 0)
<1>1. /\ s \in [0..(n - 1) -> Node] /\ (n - 1) - 1 = n - 2 /\ 0 \in 0..(n - 1)
      /\ h = s[0] /\ t = s[n - 1] /\ nx[t] = Null
      /\ \A i \in 1..(n - 1) : nx[s[i - 1]] = s[i] /\ pv[s[i]] = s[i - 1]
      /\ \A i, j \in 0..(n - 1) : s[i] = s[j] => i = j
      /\ L = {s[i] : i \in 0..(n - 1)}
  BY DEF Chained
<1>2. /\ z \in [0..(n - 2) -> Node]
      /\ \A i \in 0..(n - 2) : z[i] = s[i + 1]
      /\ \A i, j \in 0..(n - 2) : z[i] = z[j] => i = j
      /\ {z[i] : i \in 0..(n - 2)} = L \ {h}
  <2>1. IsCut(z, s, n, 0)
    <3>1. OnePlace(s, n)
      BY <1>1 DEF OnePlace
    <3> QED BY <1>1, <3>1, CutFacts
  <2>2. \A i \in 0..(n - 2) : ~(i < 0)
    OBVIOUS
  <2> HIDE DEF z
  <2> QED BY Zenon, <1>1, <2>1, <2>2 DEF IsCut
<1> HIDE DEF z
<1>3. n > 1 => nx[h] = z[0] /\ t = z[n - 2] /\ mx[t] = Null
  <2> SUFFICES ASSUME n > 1 PROVE nx[h] = z[0] /\ t = z[n - 2] /\ mx[t] = Null
    OBVIOUS
  <2>1. /\ 0 \in 0..(n - 2) /\ n - 2 \in 0..(n - 2) /\ (n - 2) + 1 = n - 1 /\ 0 + 1 = 1
        /\ 1 \in 1..(n - 1) /\ 1 - 1 = 0 /\ n - 1 \in 0..(n - 1) /\ n - 1 # 0
    OBVIOUS
  <2>2. t # h /\ t \in L
    BY <1>1, <2>1
  <2>3. mx[t] = nx[t]
    BY <2>2 DEF LinksDropped
  <2>4. z[0] = s[1] /\ z[n - 2] = s[n - 1]
    BY <1>2, <2>1
  <2>5. nx[s[0]] = s[1]
    BY <1>1, <2>1
  <2> QED BY <1>1, <2>3, <2>4, <2>5
<1>4. ASSUME NEW i \in 1..(n - 2) PROVE mx[z[i - 1]] = z[i] /\ qv[z[i]] = z[i - 1]
  <2>1. /\ i \in 0..(n - 2) /\ i - 1 \in 0..(n - 2) /\ (i - 1) + 1 = i
        /\ i + 1 \in 1..(n - 1) /\ (i + 1) - 1 = i /\ i + 1 # 0 /\ i + 1 # 1 /\ i # 0
        /\ i \in 0..(n - 1) /\ i + 1 \in 0..(n - 1)
        /\ 1 \in 1..(n - 1) /\ 1 \in 0..(n - 1) /\ 1 - 1 = 0
    OBVIOUS
  <2>2. nx[h] = s[1] /\ h = s[0]
    BY <1>1, <2>1
  <2>3. s[i] \in L /\ s[i] # s[0]
    BY <1>1, <2>1, ChainedNodes
  <2>4. s[i + 1] \in L /\ s[i + 1] # s[0] /\ s[i + 1] # s[1]
    BY <1>1, <2>1, ChainedNodes
  <2>5. nx[s[i]] = s[i + 1] /\ pv[s[i + 1]] = s[i]
    BY <2>1, ChainedLink
  <2>6. mx[s[i]] = s[i + 1] /\ qv[s[i + 1]] = s[i]
    BY <2>2, <2>3, <2>4, <2>5 DEF LinksDropped
  <2>7. z[i] = s[i + 1] /\ z[i - 1] = s[(i - 1) + 1]
    BY <1>2, <2>1
  <2> QED BY <2>1, <2>6, <2>7
<1>5. n = 1 \/ (n > 1 /\ n - 1 > 0 /\ n - 1 # 0)
  OBVIOUS
<1>6. /\ z \in [0..(n - 1 - 1) -> Node] /\ L \ {h} = {z[i] : i \in 0..(n - 1 - 1)}
      /\ \A i, j \in 0..(n - 1 - 1) : z[i] = z[j] => i = j
      /\ \A i \in 1..(n - 1 - 1) : mx[z[i - 1]] = z[i] /\ qv[z[i]] = z[i - 1]
  BY Zenon, <1>1, <1>2, <1>4
<1>7. CASE n = 1
  <2>1. n - 1 = 0 /\ ~(n - 1 > 0)
    BY <1>7
  <2> QED BY <1>6, <1>7, <2>1 DEF Chained, z
<1>8. CASE n > 1
  <2>1. n # 1 /\ n - 1 # 0 /\ n - 1 - 1 = n - 2
    BY <1>8
  <2>2. nx[h] = z[0] /\ t = z[n - 1 - 1] /\ mx[t] = Null
    BY <1>3, <1>8, <2>1
  <2> QED BY Zenon, <1>6, <2>1, <2>2 DEF Chained, z
<1> QED BY <1>5, <1>7, <1>8

(* removeReq at an index above 0: the neighbours are linked to each other. *)
LEMMA ChainCut ==
    ASSUME NEW n \in Nat, NEW k \in 1..(n - 1),
           NEW s, NEW h, NEW t, NEW nx, NEW pv, NEW L,
           Chained(s, n, h, t, nx, pv, L), NEW mx, NEW qv, NEW u,
           LinksCut(s, k, L, nx, pv, mx, qv),
           u = IF k >= n - 1 THEN s[k - 1] ELSE t
    PROVE  Chained(cut(s, n, k), n - 1, h, u, mx, qv, L \ {s[k]})
<1> DEFINE z == cut(s, n, k)
<1>0. n > 0 /\ (n - 1) - 1 = n - 2 /\ k \in 0..(n - 1)
  OBVIOUS
<1>1. /\ s \in [0..(n - 1) -> Node] /\ (n - 1) - 1 = n - 2 /\ k \in 0..(n - 1)
      /\ h = s[0] /\ t = s[n - 1] /\ nx[t] = Null
      /\ \A i \in 1..(n - 1) : nx[s[i - 1]] = s[i] /\ pv[s[i]] = s[i - 1]
      /\ \A i, j \in 0..(n - 1) : s[i] = s[j] => i = j
      /\ L = {s[i] : i \in 0..(n - 1)}
  BY <1>0 DEF Chained
<1>2. /\ z \in [0..(n - 2) -> Node]
      /\ \A i \in 0..(n - 2) : z[i] = IF i < k THEN s[i] ELSE s[i + 1]
      /\ \A i, j \in 0..(n - 2) : z[i] = z[j] => i = j
      /\ {z[i] : i \in 0..(n - 2)} = L \ {s[k]}
  <2>1. IsCut(z, s, n, k)
    <3>1. OnePlace(s, n)
      BY <1>1 DEF OnePlace
    <3> QED BY Zenon, <1>1, <3>1, CutFacts
  <2> HIDE DEF z
  <2> QED BY Zenon, <1>1, <2>1 DEF IsCut
<1> HIDE DEF z
<1>3. h = z[0]
  <2>1. 0 \in 0..(n - 2) /\ 0 < k
    OBVIOUS
  <2>2. z[0] = s[0]
    <3>1. \A i \in 0..(n - 2) : z[i] = IF i < k THEN s[i] ELSE s[i + 1]
      BY <1>2
    <3> QED BY <2>1, <3>1
  <2>3. h = s[0]
    BY <1>1
  <2> QED BY <2>2, <2>3
<1>4. u = z[n - 2] /\ mx[u] = Null
  <2>1. CASE k = n - 1
    <3>1. n - 2 \in 0..(n - 2) /\ n - 2 < k /\ n - 2 = k - 1 /\ k >= n - 1
      BY <2>1
    <3>2. nx[s[k]] = Null /\ u = s[k - 1]
      BY <1>1, <2>1, <3>1
    <3>3. mx[s[k - 1]] = Null
      BY <3>2 DEF LinksCut
    <3> QED BY <1>2, <3>1, <3>2, <3>3
  <2>2. CASE k < n - 1
    <3>1. /\ n - 2 \in 0..(n - 2) /\ ~(n - 2 < k) /\ (n - 2) + 1 = n - 1 /\ ~(k >= n - 1)
          /\ n - 1 \in 0..(n - 1) /\ k - 1 \in 0..(n - 1) /\ n - 1 # k - 1 /\ n - 1 # k
      BY <2>2
    <3>2. u = t /\ t # s[k - 1] /\ t # s[k] /\ t \in L
      BY <1>1, <3>1
    <3>3. z[n - 2] = s[n - 1]
      BY <1>2, <3>1
    <3>4. mx[t] = nx[t]
      BY <3>2 DEF LinksCut
    <3> QED BY <1>1, <3>2, <3>3, <3>4
  <2> QED BY <2>1, <2>2
<1>5. ASSUME NEW i \in 1..(n - 2) PROVE mx[z[i - 1]] = z[i] /\ qv[z[i]] = z[i - 1]
  <2>1. i \in 0..(n - 2) /\ i - 1 \in 0..(n - 2) /\ k - 1 \in 0..(n - 1)
    OBVIOUS
  <2>2. CASE i < k
    <3>1. /\ i - 1 < k /\ i \in 1..(n - 1) /\ i \in 0..(n - 1) /\ i - 1 \in 0..(n - 1)
          /\ i - 1 # k - 1 /\ i - 1 # k /\ i # k
      BY <2>2
    <3>2. /\ s[i - 1] \in L /\ s[i - 1] # s[k - 1] /\ s[i - 1] # s[k]
          /\ s[i] \in L /\ s[i] # s[k]
      BY <1>1, <2>1, <3>1
    <3>3. s[i] # nx[s[k]]
      <4>1. CASE k = n - 1
        <5>1. nx[s[k]] = Null /\ s[i] \in Node
          BY <1>1, <3>1, <4>1
        <5> QED BY <5>1, ReqQAssumption
      <4>2. CASE k < n - 1
        <5>1. k + 1 \in 1..(n - 1) /\ k + 1 \in 0..(n - 1) /\ (k + 1) - 1 = k /\ i # k + 1
          BY <2>2, <4>2
        <5>2. nx[s[k]] = s[k + 1]
          BY <1>1, <5>1
        <5> QED BY <1>1, <3>1, <5>1, <5>2
      <4> QED BY <4>1, <4>2
    <3>4. mx[s[i - 1]] = s[i] /\ qv[s[i]] = s[i - 1]
      <4>1. nx[s[i - 1]] = s[i] /\ pv[s[i]] = s[i - 1]
        BY <1>1, <3>1
      <4> QED BY <3>2, <3>3, <4>1 DEF LinksCut
    <3> QED BY <1>2, <2>1, <2>2, <3>1, <3>4
  <2>3. CASE i = k
    <3>1. /\ k - 1 < k /\ ~(k < k) /\ k + 1 \in 1..(n - 1) /\ (k + 1) - 1 = k
          /\ k + 1 \in 0..(n - 1)
      BY <2>3
    <3>2. nx[s[k]] = s[k + 1] /\ s[k + 1] \in Node
      BY <1>1, <3>1
    <3>3. mx[s[k - 1]] = s[k + 1] /\ qv[s[k + 1]] = s[k - 1]
      BY <3>2, ReqQAssumption DEF LinksCut
    <3> QED BY <1>2, <2>1, <2>3, <3>1, <3>3
  <2>4. CASE i > k
    <3>1. /\ ~(i < k) /\ ~(i - 1 < k) /\ (i - 1) + 1 = i /\ i + 1 \in 1..(n - 1)
          /\ (i + 1) - 1 = i /\ i \in 0..(n - 1) /\ i + 1 \in 0..(n - 1)
          /\ i # k - 1 /\ i # k /\ i + 1 # k /\ i + 1 # k + 1
          /\ k + 1 \in 1..(n - 1) /\ (k + 1) - 1 = k /\ k + 1 \in 0..(n - 1)
      BY <2>4
    <3>n. i \in 0..(n - 2) /\ k \in 0..(n - 2) /\ k - 1 \in 0..(n - 1) /\ k \in 0..(n - 1)
      BY <3>1
    <3>2. nx[s[k]] = s[k + 1]
      BY <3>n, ChainedLink
    <3>3. /\ s[i] \in L /\ s[i] # s[k - 1] /\ s[i] # s[k]
          /\ s[i + 1] \in L /\ s[i + 1] # s[k] /\ s[i + 1] # nx[s[k]]
      <4>1. s[i] \in L /\ s[i] # s[k - 1] /\ s[i] # s[k]
        BY <3>1, <3>n, ChainedNodes
      <4>2. s[i + 1] \in L /\ s[i + 1] # s[k] /\ s[i + 1] # s[k + 1]
        BY <3>1, <3>n, ChainedNodes
      <4> QED BY <3>2, <4>1, <4>2
    <3>4. nx[s[i]] = s[i + 1] /\ pv[s[i + 1]] = s[i]
      BY <3>n, ChainedLink
    <3>5. mx[s[i]] = s[i + 1] /\ qv[s[i + 1]] = s[i]
      BY <3>3, <3>4 DEF LinksCut
    <3> QED BY <1>2, <2>1, <3>1, <3>5
  <2> QED BY <2>2, <2>3, <2>4
<1>6. n - 1 # 0 /\ n - 1 > 0
  OBVIOUS
<1> QED BY Zenon, <1>1, <1>2, <1>3, <1>4, <1>5, <1>6 DEF Chained, z

-----------------------------------------------------------------------------
(* What each call that changes the list does to its nodes. *)

Inserted(s, fd, t) ==
    \E n \in Node \ live : \E z :
        /\ z = grown(s, cur_size, n) /\ Lists(z)' /\ cur_size' = cur_size + 1
        /\ data' = [data EXCEPT ![n] = fd] /\ time' = [time EXCEPT ![n] = t]
        /\ DOMAIN next' = Ptr /\ DOMAIN previous' = Ptr /\ fault' = FALSE

Removed(s, k) ==
    \E z :
        /\ z = cut(s, cur_size, k) /\ Lists(z)' /\ cur_size' = cur_size - 1
        /\ data' = [data EXCEPT ![s[k]] = 0] /\ time' = [time EXCEPT ![s[k]] = 0]
        /\ DOMAIN next' = Ptr /\ DOMAIN previous' = Ptr /\ fault' = FALSE

(* The nodes of the list are allocated. *)
LEMMA NodesAllocated ==
    ASSUME NEW s, Lists(s)
    PROVE  live \subseteq Ptr /\ \A i \in 0..(cur_size - 1) : s[i] \in live
<1>1. s \in [0..(cur_size - 1) -> Node] /\ live = {s[i] : i \in 0..(cur_size - 1)}
  BY DEF Lists, Chained
<1> QED BY <1>1 DEF Ptr

(* insertReq into a queue that is not full. *)
LEMMA InsertStep ==
    ASSUME ListInv, NEW s, Lists(s), NEW fd, NEW t, insertReq(fd, t), ~isQfull
    PROVE  Inserted(s, fd, t)
<1>1. PICK n \in Node, garbage \in Ptr :
        /\ createRequest(n, garbage, fd, t)
        /\ tail' = n
        /\ head' = IF isQempty THEN n ELSE head
        /\ next' = IF isQempty THEN [next EXCEPT ![n] = Null]
                   ELSE [next EXCEPT ![n] = Null, ![tail] = n]
  BY DEF insertReq
<1>2. cur_size' = cur_size + 1 /\ deref(IF isQempty THEN {} ELSE {tail})
  BY DEF insertReq
<1>3. /\ n \notin live /\ live' = live \cup {n}
      /\ data' = [data EXCEPT ![n] = fd] /\ time' = [time EXCEPT ![n] = t]
      /\ previous' = [previous EXCEPT ![n] = IF isQempty THEN garbage ELSE tail]
  BY <1>1 DEF createRequest, previousOfNew
<1>4. /\ cur_size \in Nat /\ DOMAIN next = Ptr /\ DOMAIN previous = Ptr /\ fault = FALSE
      /\ n \in Ptr /\ live \subseteq Ptr
  BY NodesAllocated, ReqQAssumption DEF ListInv, Ptr
<1>5. cur_size > 0 => tail \in live /\ tail # n
  <2>1. cur_size > 0 => cur_size - 1 \in 0..(cur_size - 1)
    BY <1>4
  <2> QED BY <1>3, <2>1 DEF Lists, Chained
<1>6. DOMAIN next' = Ptr /\ DOMAIN previous' = Ptr /\ fault' = FALSE
  <2>1. DOMAIN next' = Ptr /\ DOMAIN previous' = Ptr
    BY <1>1, <1>3, <1>4
  <2>2. (IF isQempty THEN {} ELSE {tail}) \subseteq live
    BY <1>4, <1>5 DEF isQempty
  <2> QED BY Zenon, <1>2, <1>4, <2>1, <2>2 DEF deref
<1>7. /\ next'[n] = Null
      /\ cur_size > 0 => next'[tail] = n
      /\ \A m \in live : m # tail => next'[m] = next[m]
  <2>1. CASE isQempty
    BY <1>1, <1>3, <1>4, <2>1 DEF isQempty
  <2>2. CASE ~isQempty
    <3>1. next' = [next EXCEPT ![n] = Null, ![tail] = n] /\ tail # n /\ tail \in Ptr
      BY <1>1, <1>4, <1>5, <2>2 DEF isQempty
    <3> QED BY <1>3, <1>4, <3>1
  <2> QED BY <2>1, <2>2
<1>8. /\ cur_size > 0 => previous'[n] = tail
      /\ \A m \in live : previous'[m] = previous[m]
  BY <1>3, <1>4 DEF isQempty
<1>9. Chained(grown(s, cur_size, n), cur_size + 1, IF cur_size = 0 THEN n ELSE head, n,
              next', previous', live \cup {n})
  <2>1. Chained(s, cur_size, head, tail, next, previous, live)
    BY DEF Lists
  <2>2. LinksGrown(cur_size, tail, live, n, next, previous, next', previous')
    BY <1>7, <1>8 DEF LinksGrown
  <2> QED BY Zenon, <1>3, <1>4, <2>1, <2>2, ChainGrows
<1>10. head' = (IF cur_size = 0 THEN n ELSE head) /\ tail' = n
  BY <1>1 DEF isQempty
<1>11. PICK z : z = grown(s, cur_size, n)
  OBVIOUS
<1>12. Lists(z)'
  BY <1>2, <1>3, <1>9, <1>10, <1>11 DEF Lists
<1> QED BY Zenon, <1>2, <1>3, <1>6, <1>11, <1>12 DEF Inserted

(* removeFirstReq, and removeReq(0), on a queue that is not empty. *)
LEMMA FirstStep ==
    ASSUME ListInv, NEW s, Lists(s), cur_size > 0, NEW name, NEW arg, unlinkFirst(name, arg)
    PROVE  Removed(s, 0) /\ last' = <<name, arg, data[s[0]]>>
<1>1. /\ last' = <<name, arg, data[head]>> /\ live' = live \ {head}
      /\ data' = [data EXCEPT ![head] = 0] /\ time' = [time EXCEPT ![head] = 0]
      /\ next' = [next EXCEPT ![head] = Null] /\ cur_size' = cur_size - 1
  BY DEF unlinkFirst, free, forget
<1>2. cur_size = 1 => /\ head' = Null /\ tail' = Null /\ deref({head})
                     /\ previous' = [previous EXCEPT ![head] = Null]
  BY DEF unlinkFirst, single, forget
<1>3. cur_size # 1 =>
        /\ head' = next[head] /\ tail' = tail /\ deref({head, next[head]})
        /\ previous' = [[previous EXCEPT ![head] = Null] EXCEPT ![next[head]] = Null]
  BY DEF unlinkFirst, single, forget
<1>4. /\ cur_size \in Nat /\ DOMAIN next = Ptr /\ DOMAIN previous = Ptr /\ fault = FALSE
      /\ live \subseteq Ptr
      /\ Chained(s, cur_size, head, tail, next, previous, live)
  BY NodesAllocated, ReqQAssumption DEF ListInv, Lists
<1>5. /\ head = s[0] /\ head \in live
      /\ cur_size # 1 => next[head] \in live
  <2>1. 0 \in 0..(cur_size - 1)
    BY <1>4
  <2>2. cur_size # 1 => 1 \in 1..(cur_size - 1) /\ 1 \in 0..(cur_size - 1) /\ 1 - 1 = 0
    BY <1>4
  <2>3. head = s[0] /\ \A i \in 0..(cur_size - 1) : s[i] \in live
    BY <1>4, NodesAllocated DEF Chained
  <2>4. cur_size # 1 => next[s[1 - 1]] = s[1]
    BY <1>4, <2>2 DEF Chained
  <2> QED BY <2>1, <2>2, <2>3, <2>4
<1>6. DOMAIN next' = Ptr /\ DOMAIN previous' = Ptr
  BY <1>1, <1>2, <1>3, <1>4
<1>7. fault' = FALSE
  BY Zenon, <1>2, <1>3, <1>4, <1>5 DEF deref
<1>8. LinksDropped(head, live, next, previous, next', previous')
  <2>1. \A m \in live : m # head => next'[m] = next[m]
    BY <1>1, <1>4
  <2>2. \A m \in live : m # head /\ m # next[head] => previous'[m] = previous[m]
    BY <1>2, <1>3, <1>4
  <2> QED BY <2>1, <2>2 DEF LinksDropped
<1>9. Chained(cut(s, cur_size, 0), cur_size - 1, IF cur_size = 1 THEN Null ELSE next[head],
              IF cur_size = 1 THEN Null ELSE tail, next', previous', live \ {head})
  BY Zenon, <1>4, <1>8, ChainDrops
<1>10. /\ head' = (IF cur_size = 1 THEN Null ELSE next[head])
       /\ tail' = (IF cur_size = 1 THEN Null ELSE tail)
  BY <1>2, <1>3
<1>11. PICK z : z = cut(s, cur_size, 0)
  OBVIOUS
<1>12. Lists(z)'
  BY <1>1, <1>9, <1>10, <1>11 DEF Lists
<1>13. Removed(s, 0)
  BY <1>1, <1>5, <1>6, <1>7, <1>11, <1>12 DEF Removed
<1> QED BY <1>1, <1>5, <1>13

(* removeReq at an index above 0.  `previous' is never NULL there, so the  *)
(* test of line 217 never sends it to removeFirstReq.                      *)
LEMMA CutStep ==
    ASSUME ListInv, WalksRight, NEW s, Lists(s), NEW k \in 1..(cur_size - 1), removeReq(k)
    PROVE  Removed(s, k) /\ last' = <<"removeReq", k, data[s[k]]>>
<1> DEFINE tmp == s[k]
           prev == s[k - 1]
           nxt == next[tmp]
<1>1. /\ cur_size \in Nat /\ DOMAIN next = Ptr /\ DOMAIN previous = Ptr /\ fault = FALSE
      /\ live \subseteq Ptr
      /\ Chained(s, cur_size, head, tail, next, previous, live)
  BY NodesAllocated, ReqQAssumption DEF ListInv, Lists
<1>2. k \in 0..(cur_size - 1) /\ k - 1 \in 0..(cur_size - 1) /\ k # 0 /\ k # k - 1
  BY <1>1
<1>3. /\ \A i \in 0..(cur_size - 1) : nodeAt(i) = s[i] /\ s[i] \in live
      /\ tmp # prev /\ previous[tmp] = prev /\ prev \in Node
  BY <1>1, <1>2 DEF WalksRight, Chained
<1>4. nodeAt(k) = tmp /\ previous[tmp] # Null
  BY <1>2, <1>3, ReqQAssumption
<1>5. unlinkAt(k)
  <2>1. ~isQempty /\ ~(k < 0) /\ ~(k >= cur_size)
    BY <1>1 DEF isQempty
  <2> QED BY <1>2, <1>4, <2>1 DEF removeReq
<1>6. nxt = Null \/ (nxt \in live /\ nxt # prev /\ nxt # tmp)
  <2>1. CASE k = cur_size - 1
    BY <1>1, <2>1 DEF Chained
  <2>2. CASE k # cur_size - 1
    <3>1. k + 1 \in 1..(cur_size - 1) /\ k + 1 \in 0..(cur_size - 1) /\ k + 1 - 1 = k
          /\ k + 1 # k /\ k + 1 # k - 1
      BY <1>1, <2>2
    <3>2. nxt = s[k + 1]
      BY <1>1, <3>1 DEF Chained
    <3> QED BY <1>1, <1>2, <1>3, <3>1, <3>2 DEF Chained
  <2> QED BY <2>1, <2>2
<1>7. /\ last' = <<"removeReq", k, data[tmp]>>
      /\ next' = [[next EXCEPT ![tmp] = Null] EXCEPT ![prev] = nxt]
      /\ previous' = IF nxt = Null THEN [previous EXCEPT ![tmp] = Null]
                     ELSE [[previous EXCEPT ![tmp] = Null] EXCEPT ![nxt] = prev]
      /\ tail' = IF k >= cur_size - 1 THEN prev ELSE tail
      /\ live' = live \ {tmp} /\ head' = head /\ cur_size' = cur_size - 1
      /\ data' = [data EXCEPT ![tmp] = 0] /\ time' = [time EXCEPT ![tmp] = 0]
      /\ deref(walked(k) \cup {prev} \cup ({nxt} \ {Null}))
  <2>1. nodeAt(k) = tmp /\ previous[nodeAt(k)] = prev /\ next[nodeAt(k)] = nxt
    BY <1>3, <1>4
  <2>2. /\ last' = <<"removeReq", k, data[nodeAt(k)]>>
        /\ next' = [[next EXCEPT ![nodeAt(k)] = Null]
                     EXCEPT ![previous[nodeAt(k)]] = next[nodeAt(k)]]
        /\ previous' = IF next[nodeAt(k)] = Null
                       THEN [previous EXCEPT ![nodeAt(k)] = Null]
                       ELSE [[previous EXCEPT ![nodeAt(k)] = Null]
                             EXCEPT ![next[nodeAt(k)]] = previous[nodeAt(k)]]
        /\ tail' = IF k >= cur_size - 1 THEN previous[nodeAt(k)] ELSE tail
        /\ live' = live \ {nodeAt(k)} /\ head' = head /\ cur_size' = cur_size - 1
        /\ data' = [data EXCEPT ![nodeAt(k)] = 0] /\ time' = [time EXCEPT ![nodeAt(k)] = 0]
        /\ deref(walked(k) \cup {previous[nodeAt(k)]} \cup ({next[nodeAt(k)]} \ {Null}))
    BY <1>5 DEF unlinkAt, free, forget, tailAfter
  <2> HIDE DEF tmp, prev, nxt
  <2> QED BY <2>1, <2>2
<1> HIDE DEF nxt
<1>8. DOMAIN next' = Ptr /\ DOMAIN previous' = Ptr
  BY <1>1, <1>7
<1>9. fault' = FALSE
  <2>1. walked(k) \subseteq live
    <3>1. \A i \in 0..k : i \in 0..(cur_size - 1)
      BY <1>1
    <3> QED BY <1>3, <3>1 DEF walked
  <2>2. walked(k) \cup {prev} \cup ({nxt} \ {Null}) \subseteq live
    BY <1>2, <1>3, <1>6, <2>1
  <2> QED BY Zenon, <1>1, <1>7, <2>2 DEF deref
<1>10. LinksCut(s, k, live, next, previous, next', previous')
  <2>0. tmp \in Ptr /\ prev \in Ptr /\ (nxt # Null => nxt \in Ptr) /\ tmp # prev
    BY <1>1, <1>2, <1>3, <1>6
  <2>1. next'[prev] = nxt /\ \A m \in live : m # prev /\ m # tmp => next'[m] = next[m]
    BY <1>1, <1>7, <2>0
  <2>2. nxt # Null => previous'[nxt] = prev
    BY <1>1, <1>7, <2>0
  <2>3. \A m \in live : m # tmp /\ m # nxt => previous'[m] = previous[m]
    BY <1>1, <1>7, <2>0
  <2> QED BY <2>1, <2>2, <2>3 DEF LinksCut, nxt
<1>11. Chained(cut(s, cur_size, k), cur_size - 1, head, tail', next', previous', live \ {tmp})
  BY Zenon, <1>1, <1>7, <1>10, ChainCut
<1>12. PICK z : z = cut(s, cur_size, k)
  OBVIOUS
<1>13. Lists(z)'
  BY <1>7, <1>11, <1>12 DEF Lists
<1>14. Removed(s, k)
  BY <1>7, <1>8, <1>9, <1>12, <1>13 DEF Removed
<1> QED BY <1>7, <1>14

-----------------------------------------------------------------------------
(* The invariant is inductive.                                             *)
LEMMA ListInitial == Init => ListInv
<1> SUFFICES ASSUME Init PROVE ListInv
  OBVIOUS
<1>1. cur_size = 0 /\ head = Null /\ tail = Null /\ live = {} /\ fault = FALSE
  BY DEF Init
<1>2. \A i : i \notin 0..(cur_size - 1) /\ i \notin 1..(cur_size - 1)
  BY <1>1
<1>3. PICK s : s = [i \in 0..(cur_size - 1) |-> Null]
  BY Zenon
<1>4. Lists(s)
  BY <1>1, <1>2, <1>3 DEF Lists, Chained
<1> QED BY <1>1, <1>4, ReqQAssumption DEF ListInv, Init

(* A call that only reads: it goes through nodes of the list. *)
LEMMA ReadStep ==
    ASSUME ListInv, NEW P, P \subseteq live, deref(P),
           UNCHANGED <<live, fields, head, tail, cur_size>>
    PROVE  ListInv'
<1>1. fault' = FALSE
  BY Zenon DEF ListInv, deref
<1>2. /\ data' = data /\ time' = time /\ next' = next /\ previous' = previous
      /\ live' = live /\ head' = head /\ tail' = tail /\ cur_size' = cur_size
  BY DEF fields
<1> QED BY <1>1, <1>2 DEF ListInv, Lists

(* The loop of findFileId and getReqTime stops at the first match. *)
IsFirst(k, fd) ==
    \/ k = -1 /\ \A i \in 0..(cur_size - 1) : data[nodeAt(i)] # fd
    \/ /\ k \in 0..(cur_size - 1) /\ data[nodeAt(k)] = fd
       /\ \A j \in 0..(k - 1) : data[nodeAt(j)] # fd

(* The loops that look for fd stop at its first node. *)
LEMMA SearchStops == ASSUME cur_size \in Nat, NEW fd PROVE IsFirst(firstWith(fd), fd)
<1> DEFINE T == {i \in 0..(cur_size - 1) : data[nodeAt(i)] = fd}
<1>1. CASE T # {}
  <2>1. T \subseteq Nat
    OBVIOUS
  <2>2. PICK x \in T : \A y \in T : x <= y
    <3> HIDE DEF T
    <3> QED BY Zenon, <1>1, <2>1, LeastNatural
  <2>3. x \in 0..(cur_size - 1) /\ data[nodeAt(x)] = fd
    OBVIOUS
  <2>4. ASSUME NEW j \in 0..(x - 1) PROVE data[nodeAt(j)] # fd
    <3>1. j \in 0..(cur_size - 1) /\ ~(x <= j)
      BY <2>3
    <3> QED BY <2>2, <3>1
  <2>5. firstWith(fd) = CHOOSE i \in 0..(cur_size - 1) :
            data[nodeAt(i)] = fd /\ \A j \in 0..(i - 1) : data[nodeAt(j)] # fd
    BY <2>3 DEF firstWith
  <2> HIDE DEF T
  <2> QED BY <2>3, <2>4, <2>5 DEF IsFirst
<1>2. CASE T = {}
  BY <1>2 DEF firstWith, IsFirst
<1> QED BY <1>1, <1>2

(* They read allocated nodes only. *)
LEMMA SearchReads ==
    ASSUME ListInv, WalksRight, NEW fd
    PROVE  (IF isQempty THEN {} ELSE
            walked(IF firstWith(fd) = -1 THEN cur_size - 1 ELSE firstWith(fd))) \subseteq live
<1>1. PICK s : Lists(s)
  BY DEF ListInv
<1>2. \A i \in 0..(cur_size - 1) : nodeAt(i) = s[i] /\ s[i] \in live
  BY <1>1, NodesAllocated DEF WalksRight
<1>3. cur_size \in Nat
  BY ReqQAssumption DEF ListInv
<1>4. firstWith(fd) = -1 \/ firstWith(fd) \in 0..(cur_size - 1)
  BY <1>3, SearchStops DEF IsFirst
<1>5. CASE ~isQempty
  <2>1. PICK m \in 0..(cur_size - 1) :
          m = IF firstWith(fd) = -1 THEN cur_size - 1 ELSE firstWith(fd)
    BY <1>3, <1>4, <1>5 DEF isQempty
  <2>2. \A i \in 0..m : i \in 0..(cur_size - 1)
    BY <1>3
  <2>3. walked(m) \subseteq live
    BY <1>2, <2>2 DEF walked
  <2> QED BY <1>5, <2>1, <2>3
<1> QED BY <1>5

(* Every call keeps the list. *)
LEMMA ListStep == ListInv /\ WalksRight /\ [Next]_vars => ListInv'
<1> SUFFICES ASSUME ListInv, WalksRight, [Next]_vars PROVE ListInv'
  OBVIOUS
<1>1. PICK s : Lists(s)
  BY DEF ListInv
<1>2. cur_size \in 0..Limit /\ cur_size \in Nat /\ Limit \in Nat
  BY ReqQAssumption DEF ListInv
<1>3. ASSUME UNCHANGED <<live, fields, head, tail, cur_size, fault>> PROVE ListInv'
  <2>1. deref({})
    BY Zenon, <1>3 DEF deref, ListInv
  <2>2. UNCHANGED <<live, fields, head, tail, cur_size>>
    BY <1>3
  <2> QED BY <2>1, <2>2, ReadStep
<1>4. ASSUME NEW fd \in Fds, NEW t \in Times, insertReq(fd, t) PROVE ListInv'
  <2>1. CASE isQfull
    BY <1>3, <1>4, <2>1 DEF insertReq
  <2>2. CASE ~isQfull
    <3>1. cur_size + 1 \in 0..Limit
      BY <1>2, <2>2 DEF isQfull
    <3>i. Inserted(s, fd, t)
      BY <1>1, <1>4, <2>2, InsertStep
    <3>n. PICK n \in Node \ live : \E z :
              /\ z = grown(s, cur_size, n) /\ Lists(z)' /\ cur_size' = cur_size + 1
              /\ data' = [data EXCEPT ![n] = fd] /\ time' = [time EXCEPT ![n] = t]
              /\ DOMAIN next' = Ptr /\ DOMAIN previous' = Ptr /\ fault' = FALSE
      BY Zenon, <3>i DEF Inserted
    <3>2. PICK z :
              /\ z = grown(s, cur_size, n) /\ Lists(z)' /\ cur_size' = cur_size + 1
              /\ data' = [data EXCEPT ![n] = fd] /\ time' = [time EXCEPT ![n] = t]
              /\ DOMAIN next' = Ptr /\ DOMAIN previous' = Ptr /\ fault' = FALSE
      BY <3>n
    <3>3. DOMAIN data' = Ptr /\ DOMAIN time' = Ptr
      BY <3>2 DEF ListInv
    <3> QED BY <3>1, <3>2, <3>3 DEF ListInv
  <2> QED BY <2>1, <2>2
<1>5. ASSUME NEW k, cur_size > 0, Removed(s, k) PROVE ListInv'
  <2>1. cur_size - 1 \in 0..Limit
    BY <1>2, <1>5
  <2>2. PICK z :
              /\ z = cut(s, cur_size, k) /\ Lists(z)' /\ cur_size' = cur_size - 1
              /\ data' = [data EXCEPT ![s[k]] = 0] /\ time' = [time EXCEPT ![s[k]] = 0]
              /\ DOMAIN next' = Ptr /\ DOMAIN previous' = Ptr /\ fault' = FALSE
    BY <1>5 DEF Removed
  <2>3. DOMAIN data' = Ptr /\ DOMAIN time' = Ptr
    BY <2>2 DEF ListInv
  <2> QED BY <2>1, <2>2, <2>3 DEF ListInv
<1>6. CASE removeFirstReq
  <2>1. CASE isQempty
    BY <1>3, <1>6, <2>1 DEF removeFirstReq, returnMinusOne
  <2>2. CASE ~isQempty
    <3>1. cur_size > 0 /\ unlinkFirst("removeFirstReq", 0)
      BY <1>2, <1>6, <2>2 DEF removeFirstReq, isQempty
    <3> QED BY <1>1, <1>5, <3>1, FirstStep
  <2> QED BY <2>1, <2>2
<1>7. ASSUME NEW k \in -1..Limit, removeReq(k) PROVE ListInv'
  <2>1. CASE isQempty \/ k < 0 \/ k >= cur_size
    BY <1>3, <1>7, <2>1 DEF removeReq, returnMinusOne
  <2>2. CASE k = 0 /\ cur_size > 0
    <3>1. ~(isQempty \/ k < 0 \/ k >= cur_size)
      BY <1>2, <2>2 DEF isQempty
    <3>2. unlinkFirst("removeReq", k)
      BY <1>7, <2>2, <3>1 DEF removeReq
    <3> QED BY <1>1, <1>5, <2>2, <3>2, FirstStep
  <2>3. CASE k \in 1..(cur_size - 1)
    <3>1. cur_size > 0
      BY <1>2, <2>3
    <3> QED BY <1>1, <1>5, <1>7, <2>3, <3>1, CutStep
  <2>4. (isQempty \/ k < 0 \/ k >= cur_size) \/ (k = 0 /\ cur_size > 0) \/ k \in 1..(cur_size - 1)
    BY <1>2 DEF isQempty
  <2> QED BY <2>1, <2>2, <2>3, <2>4
<1>8. ASSUME NEW fd \in Fds, findFileId(fd) \/ getReqTime(fd) PROVE ListInv'
  <2>1. PICK P : P = IF isQempty THEN {} ELSE
                     walked(IF firstWith(fd) = -1 THEN cur_size - 1 ELSE firstWith(fd))
    BY Zenon
  <2>2. deref(P) /\ UNCHANGED <<live, fields, head, tail, cur_size>>
    BY <1>8, <2>1 DEF findFileId, getReqTime
  <2>3. P \subseteq live
    BY <2>1, SearchReads
  <2> QED BY <2>2, <2>3, ReadStep
<1>9. CASE getFirstReqTime
  <2>1. PICK P : P = IF isQempty \/ head = Null THEN {} ELSE {head}
    BY Zenon
  <2>2. deref(P) /\ UNCHANGED <<live, fields, head, tail, cur_size>>
    BY <1>9, <2>1 DEF getFirstReqTime
  <2>3. cur_size > 0 => head \in live
    <3>1. cur_size > 0 => head = s[0] /\ 0 \in 0..(cur_size - 1)
      BY <1>1, <1>2 DEF Lists, Chained
    <3> QED BY <1>1, <3>1, NodesAllocated
  <2>4. P \subseteq live
    BY <1>2, <2>1, <2>3 DEF isQempty
  <2> QED BY <2>2, <2>4, ReadStep
<1>10. CASE UNCHANGED vars
  <2>1. UNCHANGED <<live, fields, head, tail, cur_size, fault>>
    BY <1>10 DEF vars, fields
  <2> QED BY <1>3, <2>1
<1> QED BY <1>4, <1>6, <1>7, <1>8, <1>9, <1>10 DEF Next

(* The nodes are always one list of cur_size allocated nodes, and no call  *)
(* walks off it.                                                           *)
THEOREM ListInvariant == Spec => [](ListInv /\ WalksRight)
<1>1. Init => ListInv
  BY ListInitial
<1>2. ListInv => WalksRight
  BY WalkFollows
<1>3. ListInv /\ WalksRight /\ [Next]_vars => ListInv'
  BY ListStep
<1> QED BY <1>1, <1>2, <1>3, PTL DEF Spec

(* No call on the list, in any order, goes through NULL, a freed node or   *)
(* the uninitialised `previous' of a first node.                           *)
THEOREM ListFaultFree == Spec => []NoFault
<1>1. ListInv => NoFault
  BY DEF ListInv, NoFault
<1> QED BY <1>1, ListInvariant, PTL

(* The nodes from head along next are cur_size distinct nodes ending in    *)
(* tail, linked backwards as well, and the only ones allocated.            *)
THEOREM ListLinked == Spec => []WellLinked
<1>1. ListInv /\ WalksRight => WellLinked
  <2> SUFFICES ASSUME ListInv, WalksRight PROVE WellLinked
    OBVIOUS
  <2>1. PICK s : Lists(s)
    BY DEF ListInv
  <2>2. cur_size \in Nat
    BY ReqQAssumption DEF ListInv
  <2>3. \A i \in 0..(cur_size - 1) : nodeAt(i) = s[i]
    BY <2>1 DEF WalksRight
  <2>4. CASE cur_size = 0
    <3>1. \A i : i \notin 0..(cur_size - 1)
      BY <2>4
    <3> QED BY <2>1, <2>4, <3>1 DEF Lists, Chained, WellLinked
  <2>5. CASE cur_size # 0
    <3>1. cur_size > 0 /\ cur_size - 1 \in 0..(cur_size - 1)
      BY <2>2, <2>5
    <3>2. nodeAt(cur_size - 1) = tail /\ next[tail] = Null
      BY <2>1, <2>3, <3>1 DEF Lists, Chained
    <3>3. live = {nodeAt(i) : i \in 0..(cur_size - 1)}
      <4>1. live = {s[i] : i \in 0..(cur_size - 1)}
        BY <2>1 DEF Lists, Chained
      <4> QED BY <2>3, <4>1
    <3>4. \A i, j \in 0..(cur_size - 1) : nodeAt(i) = nodeAt(j) => i = j
      BY <2>1, <2>3 DEF Lists, Chained
    <3>5. ASSUME NEW i \in 1..(cur_size - 1) PROVE previous[nodeAt(i)] = nodeAt(i - 1)
      <4>1. i \in 0..(cur_size - 1) /\ i - 1 \in 0..(cur_size - 1)
        BY <2>2
      <4>2. previous[s[i]] = s[i - 1]
        BY <2>1 DEF Lists, Chained
      <4> QED BY <2>3, <4>1, <4>2
    <3> QED BY <2>5, <3>2, <3>3, <3>4, <3>5 DEF WellLinked
  <2> QED BY <2>4, <2>5
<1> QED BY <1>1, ListInvariant, PTL

-----------------------------------------------------------------------------
(* The refinement: every call does to Contents what ReqQSpec says.         *)

(* The queue of the n nodes s with the fields d and t. *)
QueueOf(s, n, d, t) == [i \in 1..n |-> [data |-> d[s[i - 1]], time |-> t[s[i - 1]]]]

ContentsRight == \A s : Lists(s) => Contents = QueueOf(s, cur_size, data, time)

(* What a walk from first reads is the contents of the list. *)
LEMMA ContentsFollow == ListInv /\ WalksRight => ContentsRight
<1> SUFFICES ASSUME ListInv, WalksRight, NEW s, Lists(s)
             PROVE  Contents = QueueOf(s, cur_size, data, time)
  BY DEF ContentsRight
<1>1. cur_size \in Nat
  BY ReqQAssumption DEF ListInv
<1>2. \A i \in 1..cur_size : i - 1 \in 0..(cur_size - 1)
  BY <1>1
<1>3. \A i \in 1..cur_size : nodeAt(i - 1) = s[i - 1]
  BY <1>2 DEF WalksRight
<1> QED BY <1>3 DEF Contents, QueueOf

IsQueue(q, s, n, d, t) ==
    /\ \A S : (\A i \in 1..n : q[i] \in S) => q \in Seq(S)
    /\ Len(q) = n /\ DOMAIN q = 1..n
    /\ \A i \in 1..n : q[i] = [data |-> d[s[i - 1]], time |-> t[s[i - 1]]]

(* QueueOf is the queue of the nodes of s. *)
LEMMA QueueLen ==
    ASSUME NEW s, NEW n \in Nat, NEW d, NEW t
    PROVE  IsQueue(QueueOf(s, n, d, t), s, n, d, t)
<1> DEFINE q == QueueOf(s, n, d, t)
<1>1. /\ q = [i \in 1..n |-> q[i]] /\ DOMAIN q = 1..n
      /\ \A i \in 1..n : q[i] = [data |-> d[s[i - 1]], time |-> t[s[i - 1]]]
  BY DEF QueueOf
<1> HIDE DEF q
<1>2. ASSUME NEW S, \A i \in 1..n : q[i] \in S PROVE q \in Seq(S)
  <2>1. q \in [1..n -> S]
    BY <1>1, <1>2
  <2> QED BY <2>1, SeqFunctions
<1>3. Len(q) = n
  <2>1. PICK S : S = {q[i] : i \in 1..n}
    BY Zenon
  <2>2. q \in Seq(S)
    BY <1>2, <2>1
  <2>3. Len(q) \in Nat /\ DOMAIN q = 1..Len(q)
    BY <2>2, SeqLen
  <2> QED BY <1>1, <2>3
<1>4. IsQueue(q, s, n, d, t)
  BY <1>1, <1>2, <1>3 DEF IsQueue
<1> QED BY <1>4 DEF q

(* insertReq appends. *)
Grows(s, n, d, t, x, fd, tm) ==
    QueueOf(grown(s, n, x), n + 1, [d EXCEPT ![x] = fd], [t EXCEPT ![x] = tm])
    = Append(QueueOf(s, n, d, t), [data |-> fd, time |-> tm])

(* A node linked at the end appends to the queue. *)
LEMMA QueueGrows ==
    ASSUME NEW s, NEW n \in Nat, NEW d, NEW t, NEW x \in Ptr, NEW fd, NEW tm,
           \A i \in 0..(n - 1) : s[i] \in Ptr /\ s[i] # x, DOMAIN d = Ptr, DOMAIN t = Ptr
    PROVE  Grows(s, n, d, t, x, fd, tm)
<1> DEFINE q == QueueOf(s, n, d, t)
           r == [data |-> fd, time |-> tm]
           e == [d EXCEPT ![x] = fd]
           u == [t EXCEPT ![x] = tm]
           p == QueueOf(grown(s, n, x), n + 1, e, u)
<1>0. IsQueue(q, s, n, d, t)
  BY QueueLen
<1>1. Append(q, r) = [i \in 1..(n + 1) |-> IF i = n + 1 THEN r ELSE q[i]]
  <2>1. PICK S : S = {q[i] : i \in 1..n} \cup {r}
    BY Zenon
  <2>2. r \in S /\ \A i \in 1..n : q[i] \in S
    BY <2>1
  <2>3. Len(q) = n /\ q \in Seq(S)
    <3> HIDE DEF q
    <3> QED BY <1>0, <2>2 DEF IsQueue
  <2> HIDE DEF q, r
  <2>4. /\ Append(q, r) \in Seq(S) /\ Len(Append(q, r)) = n + 1
        /\ \A i \in 1..n : Append(q, r)[i] = q[i]
        /\ Append(q, r)[n + 1] = r
    BY <2>2, <2>3, SeqAppend
  <2>5. Append(q, r) \in [1..(n + 1) -> S]
    BY Zenon, <2>4, SeqLen
  <2>6. \A i \in 1..(n + 1) : Append(q, r)[i] = IF i = n + 1 THEN r ELSE q[i]
    <3>1. \A i \in 1..(n + 1) : i = n + 1 \/ (i # n + 1 /\ i \in 1..n)
      OBVIOUS
    <3> QED BY <2>4, <3>1
  <2> QED BY Zenon, <2>5, <2>6
<1>2. p = [i \in 1..(n + 1) |-> [data |-> e[grown(s, n, x)[i - 1]], time |-> u[grown(s, n, x)[i - 1]]]]
  BY DEF QueueOf
<1>3. ASSUME NEW i \in 1..(n + 1)
      PROVE  [data |-> e[grown(s, n, x)[i - 1]], time |-> u[grown(s, n, x)[i - 1]]]
             = IF i = n + 1 THEN r ELSE q[i]
  <2>1. i - 1 \in 0..n /\ (i = n + 1 <=> i - 1 = n)
    OBVIOUS
  <2>2. grown(s, n, x)[i - 1] = IF i = n + 1 THEN x ELSE s[i - 1]
    BY <2>1 DEF grown
  <2>3. CASE i = n + 1
    BY <2>2, <2>3
  <2>4. CASE i # n + 1
    <3>1. i \in 1..n /\ i - 1 \in 0..(n - 1)
      BY <2>4
    <3>2. s[i - 1] \in Ptr /\ s[i - 1] # x
      BY <3>1
    <3>3. e[s[i - 1]] = d[s[i - 1]] /\ u[s[i - 1]] = t[s[i - 1]]
      BY <3>2
    <3>4. q[i] = [data |-> d[s[i - 1]], time |-> t[s[i - 1]]]
      <4> HIDE DEF q
      <4> QED BY <1>0, <3>1 DEF IsQueue
    <3> HIDE DEF q, e, u
    <3> QED BY <2>2, <2>4, <3>3, <3>4
  <2> QED BY <2>3, <2>4
<1> HIDE DEF p, q, r, e, u
<1>4. p = Append(q, r)
  BY <1>1, <1>2, <1>3
<1> QED BY Zenon, <1>4 DEF p, q, r, e, u, Grows

(* removeReq takes the request at k, counted from 0, out. *)
Shrinks(s, n, d, t, k) ==
    QueueOf(cut(s, n, k), n - 1, [d EXCEPT ![s[k]] = 0], [t EXCEPT ![s[k]] = 0])
    = [i \in 1..(n - 1) |-> IF i <= k THEN QueueOf(s, n, d, t)[i]
                            ELSE QueueOf(s, n, d, t)[i + 1]]

(* A node unlinked is cut out of the queue. *)
LEMMA QueueCut ==
    ASSUME NEW s, NEW n \in Nat, NEW d, NEW t, NEW k \in 0..(n - 1),
           \A i \in 0..(n - 1) : s[i] \in Ptr,
           \A i, j \in 0..(n - 1) : s[i] = s[j] => i = j,
           DOMAIN d = Ptr, DOMAIN t = Ptr
    PROVE  Shrinks(s, n, d, t, k)
<1> DEFINE q == QueueOf(s, n, d, t)
           e == [d EXCEPT ![s[k]] = 0]
           u == [t EXCEPT ![s[k]] = 0]
           p == QueueOf(cut(s, n, k), n - 1, e, u)
<1>0. IsQueue(q, s, n, d, t)
  BY QueueLen
<1>2. p = [i \in 1..(n - 1) |-> [data |-> e[cut(s, n, k)[i - 1]], time |-> u[cut(s, n, k)[i - 1]]]]
  BY DEF QueueOf
<1>3. ASSUME NEW i \in 1..(n - 1)
      PROVE  [data |-> e[cut(s, n, k)[i - 1]], time |-> u[cut(s, n, k)[i - 1]]]
             = IF i <= k THEN q[i] ELSE q[i + 1]
  <2>1. PICK j \in 1..n : j = IF i <= k THEN i ELSE i + 1
    OBVIOUS
  <2>2. j - 1 \in 0..(n - 1) /\ j - 1 # k /\ i - 1 \in 0..(n - 2)
    BY <2>1
  <2>3. cut(s, n, k)[i - 1] = s[j - 1]
    <3>1. cut(s, n, k)[i - 1] = IF i - 1 < k THEN s[i - 1] ELSE s[(i - 1) + 1]
      BY <2>2 DEF cut
    <3>2. i - 1 < k <=> i <= k
      OBVIOUS
    <3>3. (i <= k => j - 1 = i - 1) /\ (~(i <= k) => j - 1 = (i - 1) + 1)
      BY <2>1
    <3> QED BY <3>1, <3>2, <3>3
  <2>4. s[j - 1] \in Ptr /\ s[j - 1] # s[k]
    BY <2>2
  <2>5. e[s[j - 1]] = d[s[j - 1]] /\ u[s[j - 1]] = t[s[j - 1]]
    BY <2>4
  <2>6. q[j] = [data |-> d[s[j - 1]], time |-> t[s[j - 1]]]
    <3> HIDE DEF q
    <3> QED BY <1>0 DEF IsQueue
  <2> HIDE DEF q, e, u
  <2> QED BY <2>1, <2>3, <2>5, <2>6
<1> HIDE DEF p, q, e, u
<1>4. p = [i \in 1..(n - 1) |-> IF i <= k THEN q[i] ELSE q[i + 1]]
  <2>1. p = [i \in 1..(n - 1) |-> p[i]]
    BY <1>2
  <2>2. ASSUME NEW i \in 1..(n - 1) PROVE p[i] = IF i <= k THEN q[i] ELSE q[i + 1]
    BY <1>2, <1>3
  <2> QED BY <2>1, <2>2
<1> QED BY <1>4 DEF p, q, e, u, Shrinks

(* The search of the list and the search of the queue stop at the same     *)
(* place.                                                                  *)
LEMMA SearchAgrees ==
    ASSUME cur_size \in Nat, Len(Contents) = cur_size, NEW fd
    PROVE  firstWith(fd) = Queue!findFileId(Contents, fd)
<1> DEFINE n == cur_size
           Hit(i) == data[nodeAt(i)] = fd
           First(i) == Hit(i) /\ \A j \in 0..(i - 1) : ~Hit(j)
           G(i) == Contents[i].data = fd /\ \A j \in 1..(i - 1) : Contents[j].data # fd
<1>1. \A i \in 1..n : (Contents[i].data = fd) <=> Hit(i - 1)
  BY DEF Contents
<1>2. \A i \in 1..n : i - 1 \in 0..(n - 1)
  OBVIOUS
<1>3. \A i \in 0..(n - 1) : i + 1 \in 1..n /\ (i + 1) - 1 = i
  OBVIOUS
<1>4. (\E i \in 0..(n - 1) : Hit(i)) <=> (\E i \in 1..n : Contents[i].data = fd)
  <2> HIDE DEF Hit
  <2>1. ASSUME NEW i \in 0..(n - 1), Hit(i) PROVE \E k \in 1..n : Contents[k].data = fd
    <3>1. i + 1 \in 1..n /\ Hit((i + 1) - 1)
      BY <1>3, <2>1
    <3>2. Contents[i + 1].data = fd
      BY <1>1, <3>1
    <3> QED BY <3>1, <3>2
  <2>2. ASSUME NEW i \in 1..n, Contents[i].data = fd PROVE \E k \in 0..(n - 1) : Hit(k)
    BY <1>1, <1>2, <2>2
  <2> QED BY <2>1, <2>2
<1>5. CASE ~ \E i \in 0..(n - 1) : Hit(i)
  BY <1>4, <1>5 DEF firstWith, Queue!findFileId
<1>6. CASE \E i \in 0..(n - 1) : Hit(i)
  <2>1. PICK k : k = firstWith(fd)
    OBVIOUS
  <2>2. k \in 0..(n - 1) /\ First(k)
    BY <1>6, <2>1, SearchStops DEF IsFirst
  <2>3. Queue!findFileId(Contents, fd) = (CHOOSE i \in 1..n : G(i)) - 1
    BY <1>4, <1>6 DEF Queue!findFileId
  <2> HIDE DEF Hit
  <2>4. k + 1 \in 1..n /\ G(k + 1)
    <3>1. k + 1 \in 1..n /\ Contents[k + 1].data = fd
      BY <1>1, <1>3, <2>2
    <3>2. ASSUME NEW j \in 1..((k + 1) - 1) PROVE Contents[j].data # fd
      <4>1. j \in 1..n /\ j - 1 \in 0..(k - 1)
        BY <2>2
      <4> QED BY <1>1, <2>2, <4>1
    <3> QED BY <3>1, <3>2
  <2>5. ASSUME NEW i \in 1..n, G(i) PROVE i = k + 1
    <3>1. CASE i < k + 1
      <4>1. i \in 1..((k + 1) - 1)
        BY <2>2, <3>1
      <4> QED BY <2>4, <2>5, <4>1
    <3>2. CASE i > k + 1
      <4>1. k + 1 \in 1..(i - 1)
        BY <2>2, <3>2
      <4> QED BY <2>4, <2>5, <4>1
    <3> QED BY <2>2, <3>1, <3>2
  <2> HIDE DEF G
  <2>6. (CHOOSE i \in 1..n : G(i)) = k + 1
    BY <2>4, <2>5
  <2>7. (k + 1) - 1 = k
    BY <2>2
  <2> QED BY Zenon, <2>1, <2>3, <2>6, <2>7
<1> QED BY <1>5, <1>6

(* A call that leaves the list alone leaves the queue alone. *)
LEMMA QueueKept ==
    ASSUME UNCHANGED <<fields, head, cur_size>> PROVE UNCHANGED Contents
<1>1. data' = data /\ time' = time /\ next' = next /\ head' = head /\ cur_size' = cur_size
  BY DEF fields
<1> QED BY <1>1 DEF Contents, nodeAt

(* The contents are the queue of the list. *)
LEMMA ContentsLen ==
    ASSUME ContentsRight, NEW s, Lists(s), cur_size \in Nat
    PROVE  Len(Contents) = cur_size /\ IsQueue(Contents, s, cur_size, data, time)
<1>1. Contents = QueueOf(s, cur_size, data, time)
  BY DEF ContentsRight
<1>2. IsQueue(Contents, s, cur_size, data, time)
  BY <1>1, QueueLen
<1> QED BY <1>2 DEF IsQueue

(* The contents without the first. *)
LEMMA ContentsTail ==
    ASSUME ContentsRight, NEW s, Lists(s), cur_size \in Nat, cur_size > 0
    PROVE  Tail(Contents) = [i \in 1..(cur_size - 1) |-> Contents[i + 1]]
<1>1. Len(Contents) = cur_size /\ IsQueue(Contents, s, cur_size, data, time)
  BY ContentsLen
<1>2. PICK S : S = {Contents[i] : i \in 1..cur_size}
  BY Zenon
<1>3. Contents \in Seq(S)
  BY <1>1, <1>2 DEF IsQueue
<1>4. Contents # << >>
  BY <1>1
<1>5. /\ Tail(Contents) \in Seq(S) /\ Len(Tail(Contents)) = cur_size - 1
      /\ \A i \in 1..(cur_size - 1) : Tail(Contents)[i] = Contents[i + 1]
  BY <1>1, <1>3, <1>4, SeqTail
<1>6. Tail(Contents) \in [1..(cur_size - 1) -> S]
  BY Zenon, <1>5, SeqLen
<1> QED BY Zenon, <1>5, <1>6

(* insertReq appends to the abstract queue. *)
LEMMA InsertRefines ==
    ASSUME ListInv, ContentsRight, ContentsRight', NEW fd, NEW t, insertReq(fd, t)
    PROVE  Queue!Insert(fd, t)
<1>1. PICK s : Lists(s)
  BY DEF ListInv
<1>2. cur_size \in Nat /\ DOMAIN data = Ptr /\ DOMAIN time = Ptr
  BY ReqQAssumption DEF ListInv
<1>3. Contents = QueueOf(s, cur_size, data, time) /\ Len(Contents) = cur_size
  <2>1. Contents = QueueOf(s, cur_size, data, time)
    BY <1>1 DEF ContentsRight
  <2>2. IsQueue(Contents, s, cur_size, data, time)
    BY <1>2, <2>1, QueueLen
  <2> QED BY <2>1, <2>2 DEF IsQueue
<1>4. last' = <<"insertReq", fd, 0>>
  BY DEF insertReq
<1>5. CASE isQfull
  <2>1. Contents' = Contents
    BY <1>5, QueueKept DEF insertReq
  <2> QED BY <1>3, <1>4, <1>5, <2>1 DEF Queue!Insert, Queue!insertReq, Queue!isQfull, isQfull
<1>6. CASE ~isQfull
  <2>i. Inserted(s, fd, t)
    BY <1>1, <1>6, InsertStep
  <2>n. PICK n \in Node \ live : \E z :
          /\ z = grown(s, cur_size, n) /\ Lists(z)' /\ cur_size' = cur_size + 1
          /\ data' = [data EXCEPT ![n] = fd] /\ time' = [time EXCEPT ![n] = t]
    BY Zenon, <2>i DEF Inserted
  <2>1. PICK z :
          /\ z = grown(s, cur_size, n) /\ Lists(z)' /\ cur_size' = cur_size + 1
          /\ data' = [data EXCEPT ![n] = fd] /\ time' = [time EXCEPT ![n] = t]
    BY <2>n
  <2>2. Contents' = QueueOf(z, cur_size', data', time')
    BY Zenon, <2>1 DEF ContentsRight
  <2>3. n \in Ptr /\ \A i \in 0..(cur_size - 1) : s[i] \in Ptr /\ s[i] # n
    BY <1>1, NodesAllocated DEF Ptr
  <2>4. Grows(s, cur_size, data, time, n, fd, t)
    BY <1>2, <2>3, QueueGrows
  <2>5. Contents' = Append(Contents, [data |-> fd, time |-> t])
    BY Zenon, <1>3, <2>1, <2>2, <2>4 DEF Grows
  <2>6. Len(Contents) # Limit
    BY <1>3, <1>6 DEF isQfull
  <2> QED BY <1>4, <2>5, <2>6 DEF Queue!Insert, Queue!insertReq, Queue!isQfull
<1> QED BY <1>5, <1>6

(* The node at k is taken out of the list: so is its request. *)
LEMMA RemovedRefines ==
    ASSUME ListInv, ContentsRight, ContentsRight', NEW s, Lists(s),
           NEW k \in 0..(cur_size - 1), Removed(s, k)
    PROVE  /\ Contents' = [i \in 1..(cur_size - 1) |->
                              IF i <= k THEN Contents[i] ELSE Contents[i + 1]]
           /\ Contents[k + 1].data = data[s[k]] /\ Len(Contents) = cur_size
<1>1. cur_size \in Nat /\ DOMAIN data = Ptr /\ DOMAIN time = Ptr
  BY ReqQAssumption DEF ListInv
<1>2. /\ Contents = QueueOf(s, cur_size, data, time)
      /\ IsQueue(Contents, s, cur_size, data, time) /\ Len(Contents) = cur_size
  <2>1. Contents = QueueOf(s, cur_size, data, time)
    BY DEF ContentsRight
  <2>2. IsQueue(Contents, s, cur_size, data, time)
    BY <1>1, <2>1, QueueLen
  <2> QED BY <2>1, <2>2 DEF IsQueue
<1>3. PICK z : /\ z = cut(s, cur_size, k) /\ Lists(z)' /\ cur_size' = cur_size - 1
              /\ data' = [data EXCEPT ![s[k]] = 0] /\ time' = [time EXCEPT ![s[k]] = 0]
  BY DEF Removed
<1>4. Contents' = QueueOf(z, cur_size', data', time')
  BY Zenon, <1>3 DEF ContentsRight
<1>5. /\ \A i \in 0..(cur_size - 1) : s[i] \in Ptr
      /\ \A i, j \in 0..(cur_size - 1) : s[i] = s[j] => i = j
  BY Zenon, NodesAllocated DEF Lists, Chained
<1>6. Shrinks(s, cur_size, data, time, k)
  BY <1>1, <1>5, QueueCut
<1>7. Contents' = [i \in 1..(cur_size - 1) |-> IF i <= k THEN Contents[i] ELSE Contents[i + 1]]
  BY <1>2, <1>3, <1>4, <1>6 DEF Shrinks
<1>8. k + 1 \in 1..cur_size /\ (k + 1) - 1 = k
  BY <1>1
<1>9. Contents[k + 1] = [data |-> data[s[(k + 1) - 1]], time |-> time[s[(k + 1) - 1]]]
  BY <1>2, <1>8 DEF IsQueue
<1> QED BY <1>2, <1>7, <1>8, <1>9

(* removeFirstReq and removeReq on an index of the queue. *)
LEMMA TakeRefines ==
    ASSUME ListInv, WalksRight, ContentsRight, ContentsRight', NEW k, removeReq(k), k \in Int
    PROVE  Queue!Take(k)
<1>1. PICK s : Lists(s)
  BY DEF ListInv
<1>2. cur_size \in Nat
  BY ReqQAssumption DEF ListInv
<1>3. Len(Contents) = cur_size
  BY <1>1, <1>2, ContentsLen
<1>4. CASE isQempty \/ k < 0 \/ k >= cur_size
  <2>1. Contents' = Contents /\ last' = <<"removeReq", k, -1>>
    <3>1. returnMinusOne("removeReq", k)
      BY <1>4 DEF removeReq
    <3> QED BY <3>1, QueueKept DEF returnMinusOne
  <2>2. k \notin 0..(Len(Contents) - 1) /\ (k < 0 \/ k >= Len(Contents))
    BY <1>2, <1>3, <1>4 DEF isQempty
  <2> QED BY <2>1, <2>2 DEF Queue!Take, Queue!removeReq
<1>5. CASE ~(isQempty \/ k < 0 \/ k >= cur_size)
  <2>1. cur_size > 0 /\ k \in 0..(cur_size - 1) /\ (k = 0 \/ k \in 1..(cur_size - 1))
    BY <1>2, <1>5 DEF isQempty
  <2>2. Removed(s, k) /\ last' = <<"removeReq", k, data[s[k]]>>
    <3>1. CASE k = 0
      <4>1. unlinkFirst("removeReq", k)
        BY <1>5, <3>1 DEF removeReq
      <4> QED BY <1>1, <2>1, <3>1, <4>1, FirstStep
    <3>2. CASE k \in 1..(cur_size - 1)
      BY <1>1, <3>2, CutStep
    <3> QED BY <2>1, <3>1, <3>2
  <2>3. /\ Contents' = [i \in 1..(cur_size - 1) |->
                           IF i <= k THEN Contents[i] ELSE Contents[i + 1]]
        /\ Contents[k + 1].data = data[s[k]]
    BY <1>1, <2>1, <2>2, RemovedRefines
  <2>4. k \in 0..(Len(Contents) - 1) /\ ~(k < 0) /\ ~(k >= Len(Contents))
    BY <1>2, <1>3, <2>1
  <2>5. last' = <<"removeReq", k, Contents[k + 1].data>>
    BY <2>2, <2>3
  <2> QED BY <1>3, <2>3, <2>4, <2>5 DEF Queue!Take, Queue!removeReq
<1> QED BY <1>4, <1>5

(* removeFirstReq takes the first of the abstract queue. *)
LEMMA TakeFirstRefines ==
    ASSUME ListInv, ContentsRight, ContentsRight', removeFirstReq
    PROVE  Queue!TakeFirst
<1>1. PICK s : Lists(s)
  BY DEF ListInv
<1>2. cur_size \in Nat
  BY ReqQAssumption DEF ListInv
<1>3. Len(Contents) = cur_size
  BY <1>1, <1>2, ContentsLen
<1>4. CASE isQempty
  <2>1. Contents' = Contents /\ last' = <<"removeFirstReq", 0, -1>>
    BY <1>4, QueueKept DEF removeFirstReq, returnMinusOne
  <2>2. Len(Contents) = 0
    BY <1>3, <1>4 DEF isQempty
  <2> QED BY <2>1, <2>2 DEF Queue!TakeFirst, Queue!removeFirstReq, Queue!isQempty
<1>5. CASE ~isQempty
  <2>1. cur_size > 0 /\ 0 \in 0..(cur_size - 1) /\ 0 + 1 = 1 /\ Len(Contents) # 0
    BY <1>2, <1>3, <1>5 DEF isQempty
  <2>2. Removed(s, 0) /\ last' = <<"removeFirstReq", 0, data[s[0]]>>
    <3>1. unlinkFirst("removeFirstReq", 0)
      BY <1>5 DEF removeFirstReq
    <3> QED BY <1>1, <2>1, <3>1, FirstStep
  <2>3. /\ Contents' = [i \in 1..(cur_size - 1) |->
                           IF i <= 0 THEN Contents[i] ELSE Contents[i + 1]]
        /\ Contents[0 + 1].data = data[s[0]]
    BY <1>1, <2>1, <2>2, RemovedRefines
  <2>4. Contents' = Tail(Contents)
    <3>1. \A i \in 1..(cur_size - 1) : ~(i <= 0)
      BY <1>2
    <3>2. Contents' = [i \in 1..(cur_size - 1) |-> Contents[i + 1]]
      BY <2>3, <3>1
    <3>3. Tail(Contents) = [i \in 1..(cur_size - 1) |-> Contents[i + 1]]
      BY <1>1, <1>2, <2>1, ContentsTail
    <3> QED BY <3>2, <3>3
  <2>5. Head(Contents) = Contents[1]
    OBVIOUS
  <2>6. last' = <<"removeFirstReq", 0, Head(Contents).data>>
    BY <2>1, <2>2, <2>3, <2>5
  <2> QED BY <2>1, <2>4, <2>6 DEF Queue!TakeFirst, Queue!removeFirstReq, Queue!isQempty
<1> QED BY <1>4, <1>5

(* The searches answer as the abstract queue does. *)
LEMMA SearchRefines ==
    ASSUME ListInv, ContentsRight, NEW fd
    PROVE  /\ findFileId(fd) => Queue!Find(fd)
           /\ getReqTime(fd) => Queue!TimeOf(fd)
<1>1. PICK s : Lists(s)
  BY DEF ListInv
<1>2. cur_size \in Nat
  BY ReqQAssumption DEF ListInv
<1>3. Len(Contents) = cur_size
  BY <1>1, <1>2, ContentsLen
<1>4. firstWith(fd) = Queue!findFileId(Contents, fd)
  BY <1>2, <1>3, SearchAgrees
<1>5. ASSUME findFileId(fd) PROVE Queue!Find(fd)
  <2>1. Contents' = Contents /\ last' = <<"findFileId", fd, firstWith(fd)>>
    BY <1>5, QueueKept DEF findFileId
  <2> QED BY <1>4, <2>1 DEF Queue!Find
<1>6. ASSUME getReqTime(fd) PROVE Queue!TimeOf(fd)
  <2>1. Contents' = Contents
    BY <1>6, QueueKept DEF getReqTime
  <2>2. PICK k : k = firstWith(fd)
    OBVIOUS
  <2>3. last' = <<"getReqTime", fd, IF k = -1 THEN 0 ELSE time[nodeAt(k)]>>
    BY <1>6, <2>2 DEF getReqTime
  <2>4. k # -1 => time[nodeAt(k)] = Contents[k + 1].time
    <3>1. k # -1 => k \in 0..(cur_size - 1)
      BY <1>2, <2>2, SearchStops DEF IsFirst
    <3>2. k # -1 => k + 1 \in 1..cur_size /\ (k + 1) - 1 = k
      BY <1>2, <3>1
    <3>3. \A i \in 1..cur_size : Contents[i].time = time[nodeAt(i - 1)]
      BY DEF Contents
    <3> QED BY <3>2, <3>3
  <2>5. Queue!getReqTime(Contents, fd) = IF k = -1 THEN 0 ELSE Contents[k + 1].time
    BY <1>4, <2>2 DEF Queue!getReqTime
  <2> QED BY <2>1, <2>3, <2>4, <2>5 DEF Queue!TimeOf
<1> QED BY <1>5, <1>6

(* getFirstReqTime answers as the abstract queue does. *)
LEMMA FirstTimeRefines ==
    ASSUME ListInv, ContentsRight, getFirstReqTime
    PROVE  Queue!FirstTime
<1>1. PICK s : Lists(s)
  BY DEF ListInv
<1>2. cur_size \in Nat
  BY ReqQAssumption DEF ListInv
<1>3. Len(Contents) = cur_size /\ IsQueue(Contents, s, cur_size, data, time)
  BY <1>1, <1>2, ContentsLen
<1>4. Contents' = Contents
  BY QueueKept DEF getFirstReqTime
<1>5. last' = <<"getFirstReqTime", 0, IF isQempty \/ head = Null THEN 0 ELSE time[head]>>
  BY DEF getFirstReqTime
<1>6. CASE cur_size = 0
  BY <1>3, <1>4, <1>5, <1>6
  DEF isQempty, Queue!FirstTime, Queue!getFirstReqTime, Queue!isQempty
<1>7. CASE cur_size # 0
  <2>1. cur_size > 0 /\ 1 \in 1..cur_size /\ 1 - 1 = 0 /\ 0 \in 0..(cur_size - 1)
    BY <1>2, <1>7
  <2>2. head = s[0] /\ head # Null
    BY <1>1, <2>1, ReqQAssumption DEF Lists, Chained
  <2>3. Contents[1].time = time[s[1 - 1]]
    BY <1>3, <2>1 DEF IsQueue
  <2>4. Head(Contents) = Contents[1]
    OBVIOUS
  <2>5. last' = <<"getFirstReqTime", 0, Head(Contents).time>>
    BY <1>5, <1>7, <2>1, <2>2, <2>3, <2>4 DEF isQempty
  <2> QED BY <1>3, <1>4, <1>7, <2>5 DEF Queue!FirstTime, Queue!getFirstReqTime, Queue!isQempty
<1> QED BY <1>6, <1>7

(* Every call is one of the abstract queue, or leaves it alone. *)
LEMMA CallRefines ==
    ListInv /\ WalksRight /\ ContentsRight /\ ContentsRight' /\ [Next]_vars
    => [Queue!Call]_<<Contents, last>>
<1> SUFFICES ASSUME ListInv, WalksRight, ContentsRight, ContentsRight', [Next]_vars
             PROVE  Queue!Call \/ (Contents' = Contents /\ last' = last)
  OBVIOUS
<1>1. ASSUME NEW fd \in Fds, NEW t \in Times, insertReq(fd, t) PROVE Queue!Call
  BY <1>1, InsertRefines DEF Queue!Call
<1>2. CASE removeFirstReq
  BY <1>2, TakeFirstRefines DEF Queue!Call
<1>3. ASSUME NEW k \in -1..Limit, removeReq(k) PROVE Queue!Call
  <2>1. k \in Int
    BY ReqQAssumption
  <2> QED BY <1>3, <2>1, TakeRefines DEF Queue!Call
<1>4. ASSUME NEW fd \in Fds, findFileId(fd) \/ getReqTime(fd) PROVE Queue!Call
  BY <1>4, SearchRefines DEF Queue!Call
<1>5. CASE getFirstReqTime
  BY <1>5, FirstTimeRefines DEF Queue!Call
<1>6. CASE UNCHANGED vars
  <2>1. UNCHANGED <<fields, head, cur_size>> /\ last' = last
    BY <1>6 DEF vars, fields
  <2> QED BY <2>1, QueueKept
<1> QED BY <1>1, <1>2, <1>3, <1>4, <1>5, <1>6 DEF Next

(* The linked list implements the queue: every call on the list changes    *)
(* the queue it stands for, and returns, as ReqQSpec says, for any heap,   *)
(* any max_size and any descriptors and times.                             *)
THEOREM ListRefinesQueue == Spec => ListIsQueue
<1>1. Init => Queue!Created
  <2> SUFFICES ASSUME Init PROVE Contents = << >> /\ last = <<"createReqQueue", Limit, 0>>
    BY DEF Queue!Created
  <2>1. cur_size = 0
    BY DEF Init
  <2>2. Contents = << >>
    BY <2>1 DEF Contents
  <2> QED BY <2>2 DEF Init
<1>2. ListInv /\ WalksRight => ContentsRight
  BY ContentsFollow
<1>3. ListInv /\ WalksRight /\ ContentsRight /\ ContentsRight' /\ [Next]_vars
      => [Queue!Call]_<<Contents, last>>
  BY CallRefines
<1> QED BY <1>1, <1>2, <1>3, ListInvariant, PTL DEF Spec, ListIsQueue, Queue!Promise

=============================================================================
