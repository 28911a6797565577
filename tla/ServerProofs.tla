---------------------------- MODULE ServerProofs ----------------------------
(***************************************************************************)
(* Proofs about Server for every number of threads, every queue size, any  *)
(* set of descriptors and any number of connections.                       *)
(***************************************************************************)
EXTENDS ServerTerms, WellFoundedInduction, TLAPS

(* Every non-empty set of naturals has a least element. *)
LEMMA LeastNatural ==
    ASSUME NEW T, T \subseteq Nat, T # {}
    PROVE  \E x \in T : \A y \in T : x <= y
<1> DEFINE R == OpToRel(<, Nat)
<1>1. PICK x \in T : \A y \in T : ~ (<<y, x>> \in R)
  <2> HIDE DEF R
  <2>1. IsWellFoundedOn(R, Nat)
    BY Zenon, NatLessThanWellFounded DEF R
  <2> QED BY Zenon, <2>1, WFMin
<1>2. ASSUME NEW y \in T PROVE x <= y
  <2>1. ~(y < x)
    BY Zenon, <1>1 DEF OpToRel
  <2> QED BY <2>1
<1> QED BY <1>2

(* Sequences. *)

(* What a sequence holds is in its set. *)
LEMMA SeqItem ==
    ASSUME NEW S, NEW s \in Seq(S), NEW n \in 1..Len(s)
    PROVE  s[n] \in S
OBVIOUS

(* A sequence is a function on 1..Len. *)
LEMMA SeqLen ==
    ASSUME NEW S, NEW s \in Seq(S)
    PROVE  Len(s) \in Nat /\ DOMAIN s = 1..Len(s) /\ s \in [1..Len(s) -> S]
OBVIOUS

(* The empty sequence, and the others. *)
LEMMA SeqEmpty ==
    ASSUME NEW S
    PROVE  << >> \in Seq(S) /\ Len(<< >>) = 0 /\ \A s \in Seq(S) : s # << >> => Len(s) \in Nat \ {0}
OBVIOUS

(* What the sequences are. *)
LEMMA SeqFunctions == \A S : Seq(S) = UNION {[1..n -> S] : n \in Nat}
OBVIOUS

(* Sequences are equal when their items are. *)
LEMMA SeqSame ==
    ASSUME NEW S, NEW s \in Seq(S), NEW t \in Seq(S), Len(s) = Len(t),
           \A i \in 1..Len(s) : s[i] = t[i]
    PROVE  s = t
OBVIOUS

(* What Append returns. *)
LEMMA SeqAppend ==
    ASSUME NEW S, NEW s \in Seq(S), NEW e \in S
    PROVE  /\ Append(s, e) \in Seq(S) /\ Len(Append(s, e)) = Len(s) + 1
           /\ Append(s, e) # << >> /\ Append(s, e)[Len(s) + 1] = e
           /\ \A i \in 1..Len(s) : Append(s, e)[i] = s[i]
OBVIOUS

(* What Head and Tail return. *)
LEMMA SeqTail ==
    ASSUME NEW S, NEW s \in Seq(S), s # << >>
    PROVE  /\ Head(s) \in S /\ Tail(s) \in Seq(S) /\ Len(Tail(s)) = Len(s) - 1
           /\ \A i \in 1..Len(Tail(s)) : Tail(s)[i] = s[i + 1]
OBVIOUS

(* What concatenation returns. *)
LEMMA SeqConcat ==
    ASSUME NEW S, NEW s \in Seq(S), NEW t \in Seq(S)
    PROVE  /\ s \o t \in Seq(S) /\ Len(s \o t) = Len(s) + Len(t)
           /\ \A i \in 1..(Len(s) + Len(t)) :
                 (s \o t)[i] = IF i <= Len(s) THEN s[i] ELSE t[i - Len(s)]
OBVIOUS

(* What SubSeq returns. *)
LEMMA SeqPart ==
    ASSUME NEW S, NEW s, NEW m \in Int, NEW n \in Int, \A i \in m..n : s[i] \in S
    PROVE  /\ SubSeq(s, m, n) \in Seq(S)
           /\ Len(SubSeq(s, m, n)) = IF m <= n THEN n - m + 1 ELSE 0
           /\ \A i \in 1..(n - m + 1) : SubSeq(s, m, n)[i] = s[m + i - 1]
OBVIOUS

-----------------------------------------------------------------------------
(* Connections in hand, as functions and sets. *)

(* A queue without its item k keeps the others, in their order. *)
LEMMA WithoutPicks ==
    ASSUME NEW n \in Nat, NEW k \in 1..n, NEW p, NEW q, Without(p, q, n, k)
    PROVE  Picks(p, q, n, k)
<1> DEFINE at(i) == IF i < k THEN i ELSE i + 1
<1>1. \A i \in 1..(n - 1) : at(i) \in 1..n /\ at(i) # k
  OBVIOUS
<1>2. \A i, l \in 1..(n - 1) : i # l => at(i) # at(l)
  OBVIOUS
<1>3. \A i \in 1..(n - 1) : p[i] = q[at(i)]
  BY DEF Without
<1>4. ASSUME NEW m \in 1..n, m # k PROVE \E i \in 1..(n - 1) : at(i) = m
  <2>1. CASE m < k
    <3>1. m \in 1..(n - 1) /\ at(m) = m
      BY <2>1
    <3> QED BY <3>1
  <2>2. CASE m > k
    <3>1. m - 1 \in 1..(n - 1) /\ at(m - 1) = m
      BY <2>2
    <3> QED BY <3>1
  <2> QED BY <1>4, <2>1, <2>2
<1> HIDE DEF at
<1>5. \A i \in 1..(n - 1) : \E m \in 1..n : m # k /\ p[i] = q[m]
  BY <1>1, <1>3
<1>6. ASSUME NEW i \in 1..(n - 1), NEW l \in 1..(n - 1), i # l
      PROVE  \E m, o \in 1..n : m # o /\ p[i] = q[m] /\ p[l] = q[o]
  <2>1. at(i) \in 1..n /\ at(l) \in 1..n /\ at(i) # at(l)
    BY <1>1, <1>2, <1>6
  <2>2. p[i] = q[at(i)] /\ p[l] = q[at(l)]
    BY <1>3
  <2> QED BY <2>1, <2>2
<1>7. ASSUME NEW m \in 1..n, m # k PROVE \E i \in 1..(n - 1) : p[i] = q[m]
  <2>1. PICK i \in 1..(n - 1) : at(i) = m
    BY <1>4, <1>7
  <2> QED BY <1>3, <2>1
<1> QED BY <1>5, <1>6, <1>7 DEF Picks

-----------------------------------------------------------------------------

(* Numbers in hand stay different when a new one arrives. *)
LEMMA ApartArrive ==
    ASSUME NEW n \in Nat, NEW a \in Nat, NEW h, NEW g, NEW q, NEW S, NEW j,
           Apart(FALSE, h, q, n, S, j, a), g.time = a + 1
    PROVE  Apart(TRUE, g, q, n, S, j, a + 1)
<1>1. \A c \in 1..a : c \in 1..(a + 1) /\ c # a + 1
  OBVIOUS
<1>2. QueueApart(q, n, a + 1)
  BY <1>1 DEF Apart, QueueApart
<1>3. JobsApart(S, j, a + 1)
  BY <1>1 DEF Apart, JobsApart
<1>4. HeldApart(g, q, n, S, j, a + 1)
  <2>1. a + 1 \in 1..(a + 1)
    OBVIOUS
  <2> QED BY <1>1, <2>1 DEF Apart, QueueApart, JobsApart, HeldApart
<1> QED BY <1>2, <1>3, <1>4 DEF Apart

(* So they do when the master queues what it holds. *)
LEMMA ApartAdmit ==
    ASSUME NEW n \in Nat, NEW a \in Nat, NEW h, NEW g, NEW q, NEW p, NEW S, NEW j,
           Apart(TRUE, h, q, n, S, j, a),
           p[n + 1] = h, \A i \in 1..n : p[i] = q[i]
    PROVE  Apart(FALSE, g, p, n + 1, S, j, a)
<1>0. \A i \in 1..(n + 1) : (i \in 1..n /\ i # n + 1) \/ i = n + 1
  OBVIOUS
<1>1. HeldApart(h, q, n, S, j, a) /\ QueueApart(q, n, a) /\ CrossApart(q, n, S, j)
  BY DEF Apart
<1>2. \A i \in 1..(n + 1) : p[i].time \in 1..a
  BY <1>0, <1>1 DEF HeldApart, QueueApart
<1>3. ASSUME NEW i \in 1..(n + 1), NEW k \in 1..(n + 1), p[i].time = p[k].time
      PROVE  i = k
  <2>1. CASE i = n + 1 /\ k = n + 1
    BY <2>1
  <2>2. CASE i = n + 1 /\ k \in 1..n
    <3>1. q[k].time = h.time
      BY <1>3, <2>2
    <3> QED BY <1>1, <2>2, <3>1 DEF HeldApart
  <2>3. CASE i \in 1..n /\ k = n + 1
    <3>1. q[i].time = h.time
      BY <1>3, <2>3
    <3> QED BY <1>1, <2>3, <3>1 DEF HeldApart
  <2>4. CASE i \in 1..n /\ k \in 1..n
    <3>1. q[i].time = q[k].time
      BY <1>3, <2>4
    <3> QED BY <1>1, <2>4, <3>1 DEF QueueApart
  <2> QED BY <1>0, <2>1, <2>2, <2>3, <2>4
<1>4. CrossApart(p, n + 1, S, j)
  <2> SUFFICES ASSUME NEW i \in 1..(n + 1), NEW w \in S PROVE p[i].time # j[w].time
    BY DEF CrossApart
  <2>1. CASE i \in 1..n
    BY <1>1, <2>1 DEF CrossApart
  <2>2. CASE i = n + 1
    BY <1>1, <2>2 DEF HeldApart
  <2> QED BY <1>0, <2>1, <2>2
<1>5. QueueApart(p, n + 1, a)
  BY <1>2, <1>3 DEF QueueApart
<1> QED BY <1>4, <1>5 DEF Apart

(* So they do when one is taken out, which is then in the queue no more. *)
LEMMA ApartDrop ==
    ASSUME NEW n \in Nat, NEW a \in Nat, NEW H, NEW h, NEW q, NEW p, NEW S, NEW j,
           NEW k \in 1..n, Apart(H, h, q, n, S, j, a), Picks(p, q, n, k)
    PROVE  /\ Apart(H, h, p, n - 1, S, j, a)
           /\ \A i \in 1..(n - 1) : p[i].time # q[k].time
<1>1. /\ \A i \in 1..(n - 1) : \E m \in 1..n : m # k /\ p[i] = q[m]
      /\ \A i, l \in 1..(n - 1) :
            i # l => \E m, o \in 1..n : m # o /\ p[i] = q[m] /\ p[l] = q[o]
  BY DEF Picks
<1>2. /\ \A i \in 1..n : q[i].time \in 1..a
      /\ \A i, l \in 1..n : q[i].time = q[l].time => i = l
      /\ \A i \in 1..n, w \in S : q[i].time # j[w].time
  BY DEF Apart, QueueApart, CrossApart
<1>3. ASSUME NEW i \in 1..(n - 1)
      PROVE  /\ p[i].time \in 1..a /\ p[i].time # q[k].time
             /\ \A w \in S : p[i].time # j[w].time
  <2>1. PICK m \in 1..n : m # k /\ p[i] = q[m]
    BY <1>1
  <2> QED BY <1>2, <2>1
<1>4. ASSUME NEW i \in 1..(n - 1), NEW l \in 1..(n - 1), p[i].time = p[l].time
      PROVE  i = l
  <2> SUFFICES ASSUME i # l PROVE FALSE
    OBVIOUS
  <2>1. PICK m, o \in 1..n : m # o /\ p[i] = q[m] /\ p[l] = q[o]
    BY <1>1
  <2> QED BY <1>2, <1>4, <2>1
<1>5. QueueApart(p, n - 1, a)
  BY <1>3, <1>4 DEF QueueApart
<1>6. CrossApart(p, n - 1, S, j)
  BY <1>3 DEF CrossApart
<1>7. H => HeldApart(h, p, n - 1, S, j, a)
  <2> SUFFICES ASSUME H PROVE HeldApart(h, p, n - 1, S, j, a)
    OBVIOUS
  <2>1. /\ h.time \in 1..a /\ \A i \in 1..n : q[i].time # h.time
        /\ \A w \in S : j[w].time # h.time
    BY DEF Apart, HeldApart
  <2>2. ASSUME NEW i \in 1..(n - 1) PROVE p[i].time # h.time
    <3>1. PICK m \in 1..n : p[i] = q[m]
      BY <1>1
    <3> QED BY <2>1, <3>1
  <2> QED BY <2>1, <2>2 DEF HeldApart
<1>8. JobsApart(S, j, a)
  BY DEF Apart
<1> QED BY <1>3, <1>5, <1>6, <1>7, <1>8 DEF Apart

(* A worker w takes a connection r that was apart from all others. *)
LEMMA ApartTake ==
    ASSUME NEW n \in Nat, NEW a \in Nat, NEW H, NEW h, NEW q, NEW S, NEW j, NEW i, NEW w, NEW r,
           Apart(H, h, q, n, S, j, a), Gains(i, j, S, w, r), Fresh(r, H, h, q, n, S, j, a)
    PROVE  Apart(H, h, q, n, S \cup {w}, i, a)
<1> USE DEF Gains, Fresh
<1>1. JobsApart(S \cup {w}, i, a)
  <2>1. \A v \in S : j[v].time \in 1..a /\ \A u \in S : j[v].time = j[u].time => v = u
    BY DEF Apart, JobsApart
  <2>2. \A v \in S \cup {w} : i[v].time \in 1..a
    BY <2>1
  <2>3. ASSUME NEW u \in S \cup {w}, NEW v \in S \cup {w}, i[u].time = i[v].time PROVE u = v
    <3>1. CASE u \in S /\ v \in S
      BY <2>1, <2>3, <3>1
    <3>2. CASE u = w \/ v = w
      BY <2>3, <3>2
    <3> QED BY <3>1, <3>2
  <2> QED BY <2>2, <2>3 DEF JobsApart
<1>2. CrossApart(q, n, S \cup {w}, i)
  <2>1. \A k \in 1..n, v \in S : q[k].time # j[v].time
    BY DEF Apart, CrossApart
  <2> QED BY <2>1 DEF CrossApart
<1>3. H => HeldApart(h, q, n, S \cup {w}, i, a)
  BY DEF Apart, HeldApart
<1> QED BY <1>1, <1>2, <1>3 DEF Apart

(* Fewer workers, the others with the jobs they had. *)
LEMMA ApartFewer ==
    ASSUME NEW n, NEW a, NEW H, NEW h, NEW q, NEW S, NEW R, NEW j, NEW i,
           Apart(H, h, q, n, S, j, a), R \subseteq S, \A v \in R : i[v] = j[v]
    PROVE  Apart(H, h, q, n, R, i, a)
<1>1. JobsApart(R, i, a)
  BY DEF Apart, JobsApart
<1>2. CrossApart(q, n, R, i)
  BY DEF Apart, CrossApart
<1>3. H => HeldApart(h, q, n, R, i, a)
  BY DEF Apart, HeldApart
<1> QED BY <1>1, <1>2, <1>3 DEF Apart

-----------------------------------------------------------------------------

(* What a request is made of. *)
LEMMA RequestFields ==
    \A r \in Request : r.data \in Fds /\ r.time \in Conns /\ r.time # NoConn
BY ServerAssumption DEF Request, Conns, NoConn

(* Closing the descriptor of r leaves those of other connections alone. *)
LEMMA CloseOther ==
    ASSUME NEW T, DOMAIN T = Fds, NEW r \in Request, NEW x \in Request,
           Backed(r, T), Backed(x, T), x.time # r.time
    PROVE  Backed(x, [T EXCEPT ![r.data] = NoConn])
<1>1. x.data \in Fds /\ x.data # r.data
  BY RequestFields DEF Backed
<1> QED BY <1>1 DEF Backed

(* Descriptors keep their owners when one is opened. *)
LEMMA OwnedArrive ==
    ASSUME NEW n \in Nat, NEW h, NEW g, NEW q, NEW U, NEW j, NEW T, NEW c, NEW fd \in Fds,
           Owned(FALSE, h, q, n, U, j, T), Typed(FALSE, h, q, n, U, j), DOMAIN T = Fds,
           T[fd] = NoConn, g.data = fd, g.time = c
    PROVE  Owned(TRUE, g, q, n, U, j, [T EXCEPT ![fd] = c])
<1>1. ASSUME NEW x \in Request, Backed(x, T) PROVE Backed(x, [T EXCEPT ![fd] = c])
  <2>1. x.data \in Fds /\ x.data # fd
    BY <1>1, RequestFields DEF Backed
  <2> QED BY <1>1, <2>1 DEF Backed
<1>2. AllBacked(TRUE, g, q, n, U, j, [T EXCEPT ![fd] = c])
  <2>1. Backed(g, [T EXCEPT ![fd] = c])
    BY DEF Backed
  <2>2. \A i \in 1..n : Backed(q[i], [T EXCEPT ![fd] = c])
    BY Zenon, <1>1 DEF Owned, AllBacked, Typed
  <2>3. \A w \in U : Backed(j[w], [T EXCEPT ![fd] = c])
    BY Zenon, <1>1 DEF Owned, AllBacked, Typed
  <2> QED BY Zenon, <2>1, <2>2, <2>3 DEF AllBacked
<1>3. ASSUME NEW f \in Fds, [T EXCEPT ![fd] = c][f] # NoConn
      PROVE  HasOwner(f, TRUE, g, q, n, U, j)
  <2>1. CASE f = fd
    BY <2>1 DEF HasOwner
  <2>2. CASE f # fd
    <3>1. HasOwner(f, FALSE, h, q, n, U, j)
      BY Zenon, <1>3, <2>2 DEF Owned, AllOwned
    <3> QED BY <3>1 DEF HasOwner
  <2> QED BY Zenon, <2>1, <2>2
<1> QED BY Zenon, <1>2, <1>3 DEF Owned, AllOwned

(* So they do when the master queues what it holds. *)
LEMMA OwnedAdmit ==
    ASSUME NEW n \in Nat, NEW h, NEW g, NEW q, NEW p, NEW U, NEW j, NEW T,
           Owned(TRUE, h, q, n, U, j, T), p[n + 1] = h, \A i \in 1..n : p[i] = q[i]
    PROVE  Owned(FALSE, g, p, n + 1, U, j, T)
<1>0. \A i \in 1..(n + 1) : i \in 1..n \/ i = n + 1
  OBVIOUS
<1>1. n + 1 \in 1..(n + 1) /\ \A i \in 1..n : i \in 1..(n + 1)
  OBVIOUS
<1>2. \A i \in 1..(n + 1) : Backed(p[i], T)
  BY <1>0 DEF Owned, AllBacked
<1>3. ASSUME NEW f \in Fds, T[f] # NoConn PROVE HasOwner(f, FALSE, g, p, n + 1, U, j)
  <2>1. HasOwner(f, TRUE, h, q, n, U, j)
    BY Zenon, <1>3 DEF Owned, AllOwned
  <2>2. CASE h.data = f
    BY <1>1, <2>2 DEF HasOwner
  <2>3. CASE \E i \in 1..n : q[i].data = f
    BY <1>1, <2>3 DEF HasOwner
  <2>4. CASE \E w \in U : j[w].data = f
    BY <2>4 DEF HasOwner
  <2> QED BY <2>1, <2>2, <2>3, <2>4 DEF HasOwner
<1> QED BY Zenon, <1>2, <1>3 DEF Owned, AllBacked, AllOwned

(* So they do when it closes what it holds. *)
LEMMA OwnedRefuse ==
    ASSUME NEW n \in Nat, NEW a, NEW h, NEW g, NEW q, NEW S, NEW U, NEW j, NEW T,
           Owned(TRUE, h, q, n, U, j, T), Typed(TRUE, h, q, n, U, j), DOMAIN T = Fds,
           Apart(TRUE, h, q, n, S, j, a), U \subseteq S
    PROVE  Owned(FALSE, g, q, n, U, j, [T EXCEPT ![h.data] = NoConn])
<1> DEFINE V == [T EXCEPT ![h.data] = NoConn]
<1>1. h \in Request /\ Backed(h, T)
  BY DEF Owned, AllBacked, Typed
<1>2. \A i \in 1..n : q[i] \in Request /\ Backed(q[i], T) /\ q[i].time # h.time
  BY DEF Owned, AllBacked, Typed, Apart, HeldApart
<1>3. \A w \in U : j[w] \in Request /\ Backed(j[w], T) /\ j[w].time # h.time
  BY DEF Owned, AllBacked, Typed, Apart, HeldApart
<1>4. AllBacked(FALSE, g, q, n, U, j, V)
  BY Zenon, <1>1, <1>2, <1>3, CloseOther DEF AllBacked
<1>5. ASSUME NEW f \in Fds, V[f] # NoConn PROVE HasOwner(f, FALSE, g, q, n, U, j)
  <2>1. f # h.data /\ T[f] # NoConn
    BY <1>5
  <2>2. HasOwner(f, TRUE, h, q, n, U, j)
    BY Zenon, <2>1 DEF Owned, AllOwned
  <2> QED BY <2>1, <2>2 DEF HasOwner
<1> QED BY Zenon, <1>4, <1>5 DEF Owned, AllOwned

(* So they do when one is dropped from the queue and closed. *)
LEMMA OwnedDrop ==
    ASSUME NEW n \in Nat, NEW a, NEW H, NEW h, NEW q, NEW p, NEW S, NEW U, NEW j, NEW T,
           NEW k \in 1..n, Picks(p, q, n, k),
           Owned(H, h, q, n, U, j, T), Typed(H, h, q, n, U, j), DOMAIN T = Fds,
           Apart(H, h, q, n, S, j, a), U \subseteq S
    PROVE  Owned(H, h, p, n - 1, U, j, [T EXCEPT ![q[k].data] = NoConn])
<1> DEFINE V == [T EXCEPT ![q[k].data] = NoConn]
<1>1. q[k] \in Request /\ Backed(q[k], T)
  BY DEF Owned, AllBacked, Typed
<1>2. ASSUME NEW i \in 1..(n - 1) PROVE Backed(p[i], V)
  <2>1. PICK m \in 1..n : m # k /\ p[i] = q[m]
    BY DEF Picks
  <2>2. q[m] \in Request /\ Backed(q[m], T)
    BY DEF Owned, AllBacked, Typed
  <2>3. q[m].time # q[k].time
    BY <2>1 DEF Apart, QueueApart
  <2> QED BY Zenon, <1>1, <2>1, <2>2, <2>3, CloseOther
<1>3. ASSUME NEW w \in U PROVE Backed(j[w], V)
  <2>1. j[w] \in Request /\ Backed(j[w], T)
    BY DEF Owned, AllBacked, Typed
  <2>2. j[w].time # q[k].time
    BY DEF Apart, CrossApart
  <2> QED BY Zenon, <1>1, <2>1, <2>2, CloseOther
<1>4. ASSUME H PROVE Backed(h, V)
  <2>1. h \in Request /\ Backed(h, T)
    BY <1>4 DEF Owned, AllBacked, Typed
  <2>2. h.time # q[k].time
    BY <1>4 DEF Apart, HeldApart
  <2> QED BY Zenon, <1>1, <2>1, <2>2, CloseOther
<1>5. ASSUME NEW f \in Fds, V[f] # NoConn PROVE HasOwner(f, H, h, p, n - 1, U, j)
  <2>1. f # q[k].data /\ T[f] # NoConn
    BY <1>5
  <2>2. HasOwner(f, H, h, q, n, U, j)
    BY <2>1 DEF Owned, AllOwned
  <2>3. ASSUME NEW m \in 1..n, q[m].data = f PROVE \E i \in 1..(n - 1) : p[i].data = f
    <3>1. m # k
      BY <2>1, <2>3
    <3>2. PICK i \in 1..(n - 1) : p[i] = q[m]
      BY <3>1 DEF Picks
    <3> QED BY <2>3, <3>2
  <2> QED BY <2>2, <2>3 DEF HasOwner
<1> HIDE DEF V
<1>6. Owned(H, h, p, n - 1, U, j, V)
  BY <1>2, <1>3, <1>4, <1>5 DEF Owned, AllBacked, AllOwned
<1> QED BY <1>6 DEF V

(* So they do when a worker takes the first of the queue. *)
LEMMA OwnedTake ==
    ASSUME NEW n \in Nat, NEW H, NEW h, NEW q, NEW p, NEW U, NEW j, NEW i, NEW T, NEW w,
           1 \in 1..n, Picks(p, q, n, 1), Owned(H, h, q, n, U, j, T),
           w \notin U, i[w] = q[1], \A v \in U : i[v] = j[v]
    PROVE  Owned(H, h, p, n - 1, U \cup {w}, i, T)
<1>1. \A k \in 1..(n - 1) : Backed(p[k], T)
  <2> SUFFICES ASSUME NEW k \in 1..(n - 1) PROVE Backed(p[k], T)
    OBVIOUS
  <2>1. PICK m \in 1..n : p[k] = q[m]
    BY DEF Picks
  <2> QED BY <2>1 DEF Owned, AllBacked
<1>2. \A v \in U \cup {w} : Backed(i[v], T)
  BY DEF Owned, AllBacked
<1>3. H => Backed(h, T)
  BY DEF Owned, AllBacked
<1>4. ASSUME NEW f \in Fds, T[f] # NoConn PROVE HasOwner(f, H, h, p, n - 1, U \cup {w}, i)
  <2>1. HasOwner(f, H, h, q, n, U, j)
    BY <1>4 DEF Owned, AllOwned
  <2>2. CASE H /\ h.data = f
    BY <2>2 DEF HasOwner
  <2>3. CASE q[1].data = f
    BY <2>3 DEF HasOwner
  <2>4. CASE \E m \in 1..n : m # 1 /\ q[m].data = f
    <3>1. PICK m \in 1..n : m # 1 /\ q[m].data = f
      BY <2>4
    <3>2. PICK k \in 1..(n - 1) : p[k] = q[m]
      BY <3>1 DEF Picks
    <3> QED BY <3>1, <3>2 DEF HasOwner
  <2>5. CASE \E v \in U : j[v].data = f
    BY <2>5 DEF HasOwner
  <2> QED BY <2>1, <2>2, <2>3, <2>4, <2>5 DEF HasOwner
<1> QED BY Zenon, <1>1, <1>2, <1>3, <1>4 DEF Owned, AllBacked, AllOwned

(* So they do when a worker closes the one it serves. *)
LEMMA OwnedClose ==
    ASSUME NEW n \in Nat, NEW a, NEW H, NEW h, NEW q, NEW S, NEW U, NEW j, NEW T, NEW w \in U,
           Owned(H, h, q, n, U, j, T), Typed(H, h, q, n, U, j), DOMAIN T = Fds,
           Apart(H, h, q, n, S, j, a), U \subseteq S
    PROVE  Owned(H, h, q, n, U \ {w}, j, [T EXCEPT ![j[w].data] = NoConn])
<1> DEFINE V == [T EXCEPT ![j[w].data] = NoConn]
<1>1. j[w] \in Request /\ Backed(j[w], T)
  BY DEF Owned, AllBacked, Typed
<1>2. ASSUME NEW i \in 1..n PROVE Backed(q[i], V)
  <2>1. q[i] \in Request /\ Backed(q[i], T)
    BY DEF Owned, AllBacked, Typed
  <2>2. q[i].time # j[w].time
    BY DEF Apart, CrossApart
  <2> QED BY Zenon, <1>1, <2>1, <2>2, CloseOther
<1>3. ASSUME NEW v \in U \ {w} PROVE Backed(j[v], V)
  <2>1. j[v] \in Request /\ Backed(j[v], T)
    BY DEF Owned, AllBacked, Typed
  <2>2. j[v].time # j[w].time
    BY DEF Apart, JobsApart
  <2> QED BY Zenon, <1>1, <2>1, <2>2, CloseOther
<1>4. ASSUME H PROVE Backed(h, V)
  <2>1. h \in Request /\ Backed(h, T)
    BY <1>4 DEF Owned, AllBacked, Typed
  <2>2. h.time # j[w].time
    BY <1>4 DEF Apart, HeldApart
  <2> QED BY Zenon, <1>1, <2>1, <2>2, CloseOther
<1>5. ASSUME NEW f \in Fds, V[f] # NoConn PROVE HasOwner(f, H, h, q, n, U \ {w}, j)
  <2>1. f # j[w].data /\ T[f] # NoConn
    BY <1>5
  <2>2. HasOwner(f, H, h, q, n, U, j)
    BY <2>1 DEF Owned, AllOwned
  <2> QED BY <2>1, <2>2 DEF HasOwner
<1> HIDE DEF V
<1>6. Owned(H, h, q, n, U \ {w}, j, V)
  BY <1>2, <1>3, <1>4, <1>5 DEF Owned, AllBacked, AllOwned
<1> QED BY <1>6 DEF V

(* Only what is in hand matters to it. *)
LEMMA OwnedSame ==
    ASSUME NEW n, NEW H, NEW h, NEW q, NEW U, NEW j, NEW i, NEW T,
           Owned(H, h, q, n, U, j, T), \A v \in U : i[v] = j[v]
    PROVE  Owned(H, h, q, n, U, i, T)
<1>1. AllBacked(H, h, q, n, U, i, T)
  BY DEF Owned, AllBacked
<1>2. ASSUME NEW f \in Fds, T[f] # NoConn PROVE HasOwner(f, H, h, q, n, U, i)
  <2>1. HasOwner(f, H, h, q, n, U, j)
    BY <1>2 DEF Owned, AllOwned
  <2> QED BY <2>1 DEF HasOwner
<1> QED BY <1>1, <1>2 DEF Owned, AllOwned

-----------------------------------------------------------------------------
(* The number of elements of a set. *)

(* Only the empty set has no element. *)
LEMMA CountNone == HasSize({}, 0) /\ \A S, n : HasSize(S, n) => (S = {} <=> n = 0)
<1>1. ASSUME NEW S, NEW n, HasSize(S, n) PROVE S = {} <=> n = 0
  <2>1. PICK f : Numbers(f, S, n)
    BY <1>1 DEF HasSize
  <2>2. n \in Nat
    BY <1>1 DEF HasSize
  <2>3. n # 0 => 1 \in 1..n
    BY <2>2
  <2> QED BY <2>1, <2>3 DEF Numbers
<1>2. HasSize({}, 0)
  <2>1. Numbers([i \in 1..0 |-> i], {}, 0)
    BY DEF Numbers
  <2> QED BY <2>1 DEF HasSize
<1> QED BY <1>1, <1>2

(* A set with one more element. *)
LEMMA CountAdd ==
    ASSUME NEW S, NEW n, HasSize(S, n), NEW x, x \notin S
    PROVE  HasSize(S \cup {x}, n + 1)
<1>1. PICK f : Numbers(f, S, n)
  BY DEF HasSize
<1>2. n \in Nat
  BY DEF HasSize
<1> DEFINE g == [i \in 1..(n + 1) |-> IF i = n + 1 THEN x ELSE f[i]]
<1>3. \A i \in 1..(n + 1) : i = n + 1 \/ (i \in 1..n /\ i # n + 1)
  BY <1>2
<1>4. n + 1 \in 1..(n + 1) /\ \A i \in 1..n : i \in 1..(n + 1) /\ i # n + 1
  BY <1>2
<1>5. g[n + 1] = x /\ \A i \in 1..n : g[i] = f[i]
  BY <1>4
<1>6. g \in [1..(n + 1) -> S \cup {x}]
  BY <1>1, <1>3 DEF Numbers
<1> HIDE DEF g
<1>7. \A i, j \in 1..(n + 1) : g[i] = g[j] => i = j
  BY <1>1, <1>3, <1>5 DEF Numbers
<1>8. \A y \in S \cup {x} : \E i \in 1..(n + 1) : g[i] = y
  BY <1>1, <1>4, <1>5 DEF Numbers
<1>9. Numbers(g, S \cup {x}, n + 1)
  BY <1>6, <1>7, <1>8 DEF Numbers
<1> QED BY <1>2, <1>9 DEF HasSize

(* A set with one element less. *)
LEMMA CountRemove ==
    ASSUME NEW S, NEW n, HasSize(S, n), NEW x \in S
    PROVE  HasSize(S \ {x}, n - 1)
<1>1. PICK f : Numbers(f, S, n)
  BY DEF HasSize
<1>2. PICK k \in 1..n : f[k] = x
  BY <1>1 DEF Numbers
<1>3. n \in Nat /\ n - 1 \in Nat
  BY <1>2 DEF HasSize
<1> DEFINE g == [i \in 1..(n - 1) |-> IF i = k THEN f[n] ELSE f[i]]
<1>4. n \in 1..n /\ \A i \in 1..(n - 1) : i \in 1..n /\ i # n
  BY <1>2, <1>3
<1>5. \A i \in 1..n : i = n \/ i \in 1..(n - 1)
  BY <1>3
<1>6. \A i, j \in 1..n : f[i] = f[j] => i = j
  BY <1>1 DEF Numbers
<1>7. \A i \in 1..(n - 1) : g[i] \in S /\ g[i] # x
  BY <1>1, <1>2, <1>4, <1>6 DEF Numbers
<1>8. \A i, j \in 1..(n - 1) : g[i] = g[j] => i = j
  BY <1>4, <1>6
<1>9. ASSUME NEW y \in S, y # x PROVE \E i \in 1..(n - 1) : g[i] = y
  <2>1. PICK i \in 1..n : f[i] = y
    BY <1>1 DEF Numbers
  <2>2. CASE i = n
    <3>1. k \in 1..(n - 1)
      BY <1>2, <1>5, <1>9, <2>1, <2>2
    <3> QED BY <2>1, <2>2, <3>1
  <2>3. CASE i # n
    <3>1. i \in 1..(n - 1) /\ i # k
      BY <1>2, <1>5, <1>9, <2>1, <2>3
    <3> QED BY <2>1, <3>1
  <2> QED BY <2>2, <2>3
<1>10. g \in [1..(n - 1) -> S \ {x}]
  BY <1>7
<1> HIDE DEF g
<1>11. Numbers(g, S \ {x}, n - 1)
  BY <1>8, <1>9, <1>10 DEF Numbers
<1> QED BY <1>3, <1>11 DEF HasSize

(* A set has one number of elements, and a part of it has no more. *)
LEMMA CountParts ==
    \A n \in Nat : \A S, T, m : HasSize(S, n) /\ T \subseteq S =>
        /\ \E k \in 0..n : HasSize(T, k)
        /\ HasSize(T, m) => m \in 0..n /\ (T = S => m = n)
<1> DEFINE P(n) == \A S, T, m : HasSize(S, n) /\ T \subseteq S =>
                      /\ \E k \in 0..n : HasSize(T, k)
                      /\ HasSize(T, m) => m \in 0..n /\ (T = S => m = n)
           Bad == {n \in Nat : ~P(n)}
<1>1. CASE Bad = {}
  BY <1>1
<1>2. CASE Bad # {}
  <2>1. Bad \subseteq Nat /\ \A n \in Bad : ~P(n)
    OBVIOUS
  <2>2. \A n \in Nat : n \notin Bad => P(n)
    OBVIOUS
  <2>3. PICK n \in Bad : \A k \in Bad : n <= k
    <3> HIDE DEF Bad
    <3> QED BY Zenon, <1>2, <2>1, LeastNatural
  <2>4. PICK S, T, m : /\ HasSize(S, n) /\ T \subseteq S
                       /\ ~(/\ \E k \in 0..n : HasSize(T, k)
                            /\ HasSize(T, m) => m \in 0..n /\ (T = S => m = n))
    BY <2>1, <2>3
  <2>5. n \in Nat /\ (n = 0 \/ n - 1 \in Nat)
    BY <2>1, <2>3
  <2>6. \A k \in Nat : k \in 0..0 => k = 0
    OBVIOUS
  <2>7. T # {}
    <3> SUFFICES ASSUME T = {} PROVE FALSE
      OBVIOUS
    <3>1. HasSize(T, 0) /\ 0 \in 0..n
      BY <2>5, CountNone
    <3>2. HasSize(T, m) => m = 0
      BY CountNone
    <3>3. T = S => n = 0
      BY <2>4, CountNone
    <3> QED BY <2>4, <3>1, <3>2, <3>3
  <2>8. PICK x \in T : TRUE
    BY <2>7
  <2>9. HasSize(S \ {x}, n - 1)
    BY <2>4, <2>8, CountRemove
  <2>10. n - 1 \in Nat /\ ~(n <= n - 1)
    BY <2>5, <2>9 DEF HasSize
  <2>11. P(n - 1)
    BY <2>2, <2>3, <2>10
  <2> HIDE DEF Bad
  <2>12. T \ {x} \subseteq S \ {x}
    BY <2>4
  <2>13. PICK k \in 0..(n - 1) : HasSize(T \ {x}, k)
    BY <2>9, <2>11, <2>12
  <2>14. HasSize(T, k + 1)
    <3>1. HasSize((T \ {x}) \cup {x}, k + 1)
      BY <2>13, CountAdd
    <3>2. (T \ {x}) \cup {x} = T
      BY <2>8
    <3> QED BY <3>1, <3>2
  <2>15. HasSize(T, m) => m \in 0..n /\ (T = S => m = n)
    <3> SUFFICES ASSUME HasSize(T, m) PROVE m \in 0..n /\ (T = S => m = n)
      OBVIOUS
    <3>1. HasSize(T \ {x}, m - 1)
      BY <2>8, CountRemove
    <3>2. m - 1 \in 0..(n - 1) /\ (T \ {x} = S \ {x} => m - 1 = n - 1)
      <4> DEFINE A == S \ {x}
                 B == T \ {x}
                 p == m - 1
      <4>1. HasSize(A, n - 1) /\ B \subseteq A /\ HasSize(B, p)
        BY <2>9, <2>12, <3>1
      <4> HIDE DEF A, B, p
      <4>2. p \in 0..(n - 1) /\ (B = A => p = n - 1)
        BY <2>11, <4>1
      <4> QED BY <4>2 DEF A, B, p
    <3>3. m \in Nat
      BY DEF HasSize
    <3> QED BY <2>5, <3>2, <3>3
  <2>16. k + 1 \in 0..n
    BY <2>5, <2>10
  <2> QED BY <2>4, <2>14, <2>15, <2>16
<1> QED BY <1>1, <1>2

(* Sets that are paired off have one number of elements. *)
LEMMA CountMapped ==
    ASSUME NEW S, NEW n, HasSize(S, n), NEW T, NEW g \in [S -> T],
           \A x, y \in S : g[x] = g[y] => x = y, \A z \in T : \E x \in S : g[x] = z
    PROVE  HasSize(T, n)
<1>1. PICK f : Numbers(f, S, n)
  BY DEF HasSize
<1> DEFINE h == [i \in 1..n |-> g[f[i]]]
<1>2. Numbers(h, T, n)
  BY <1>1 DEF Numbers
<1> QED BY <1>2 DEF HasSize

(* The number of elements of an interval. *)
LEMMA CountInterval ==
    ASSUME NEW a \in Int, NEW n \in Nat
    PROVE  HasSize(a..(a + n - 1), n)
<1> DEFINE f == [i \in 1..n |-> a + i - 1]
<1>1. ASSUME NEW x \in a..(a + n - 1) PROVE \E i \in 1..n : f[i] = x
  <2>1. x - a + 1 \in 1..n /\ a + (x - a + 1) - 1 = x
    OBVIOUS
  <2> QED BY <2>1
<1>2. f \in [1..n -> a..(a + n - 1)] /\ \A i, j \in 1..n : f[i] = f[j] => i = j
  OBVIOUS
<1>3. Numbers(f, a..(a + n - 1), n)
  BY <1>1, <1>2 DEF Numbers
<1> QED BY <1>3 DEF HasSize

(* Cardinality is the number of elements. *)
LEMMA CountCardinality ==
    ASSUME NEW S, NEW n, HasSize(S, n)
    PROVE  Cardinality(S) = n
<1> DEFINE rest(T) == T \ {CHOOSE x : x \in T}
           Rule(g) == g = [T \in SUBSET S |-> IF T = {} THEN 0 ELSE 1 + g[rest(T)]]
           num(T) == CHOOSE m \in Nat : HasSize(T, m)
           size == [T \in SUBSET S |-> num(T)]
           CS == CHOOSE g : Rule(g)
<1>0. n \in Nat
  BY DEF HasSize
<1>1. ASSUME NEW T \in SUBSET S PROVE size[T] \in Nat /\ HasSize(T, size[T])
  <2>1. \E m \in Nat : HasSize(T, m)
    BY <1>0, CountParts
  <2>2. size[T] = num(T)
    OBVIOUS
  <2> HIDE DEF size
  <2> QED BY <2>1, <2>2
<1>2. ASSUME NEW T, NEW k, NEW m, HasSize(T, k), HasSize(T, m) PROVE k = m
  <2>1. k \in Nat
    BY <1>2 DEF HasSize
  <2> QED BY <1>2, <2>1, CountParts
<1>3. ASSUME NEW T \in SUBSET S, T # {} PROVE rest(T) \in SUBSET S /\ (CHOOSE x : x \in T) \in T
  BY <1>3
<1>4. ASSUME NEW T \in SUBSET S PROVE size[T] = IF T = {} THEN 0 ELSE 1 + size[rest(T)]
  <2>1. CASE T = {}
    BY <1>1, <2>1, CountNone
  <2>2. CASE T # {}
    <3>1. rest(T) \in SUBSET S /\ (CHOOSE x : x \in T) \in T
      BY <1>3, <2>2
    <3>2. HasSize(rest(T), size[T] - 1)
      BY Zenon, <1>1, <3>1, CountRemove
    <3>3. size[rest(T)] \in Nat /\ HasSize(rest(T), size[rest(T)])
      BY Zenon, <1>1, <3>1
    <3> HIDE DEF rest, size
    <3>4. size[T] - 1 = size[rest(T)]
      BY <1>2, <3>2, <3>3
    <3>5. size[T] \in Nat
      BY <1>1
    <3> QED BY <2>2, <3>3, <3>4, <3>5
  <2> QED BY <2>1, <2>2
<1>5. Rule(size)
  <2>1. size = [T \in SUBSET S |-> size[T]]
    OBVIOUS
  <2> HIDE DEF size, rest
  <2>2. [T \in SUBSET S |-> size[T]] = [T \in SUBSET S |-> IF T = {} THEN 0 ELSE 1 + size[rest(T)]]
    BY <1>4
  <2> QED BY Zenon, <2>1, <2>2
<1>6. Rule(CS)
  <2> HIDE DEF Rule, size
  <2> QED BY <1>5
<1>7. Cardinality(S) = CS[S]
  BY DEF Cardinality
<1> HIDE DEF CS
<1>8. \A T \in SUBSET S : CS[T] = IF T = {} THEN 0 ELSE 1 + CS[rest(T)]
  <2> HIDE DEF rest
  <2> QED BY <1>6
<1> DEFINE Bad == {m \in Nat : \E T \in SUBSET S : HasSize(T, m) /\ CS[T] # m}
<1>9. Bad = {}
  <2> SUFFICES ASSUME Bad # {} PROVE FALSE
    OBVIOUS
  <2>1. PICK m \in Bad : \A k \in Bad : m <= k
    <3>1. Bad \subseteq Nat
      OBVIOUS
    <3> HIDE DEF Bad
    <3> QED BY Zenon, <3>1, LeastNatural
  <2>2. PICK T \in SUBSET S : HasSize(T, m) /\ CS[T] # m
    BY <2>1
  <2>3. T # {}
    BY <1>8, <2>2, CountNone
  <2>4. rest(T) \in SUBSET S /\ (CHOOSE x : x \in T) \in T
    BY <1>3, <2>3
  <2>5. HasSize(rest(T), m - 1)
    BY Zenon, <2>2, <2>4, CountRemove
  <2>6. m \in Nat /\ m - 1 \in Nat /\ ~(m <= m - 1)
    BY <2>1, <2>5 DEF HasSize
  <2>7. CS[rest(T)] = m - 1
    BY <2>1, <2>4, <2>5, <2>6
  <2>8. CS[T] = 1 + CS[rest(T)]
    BY Zenon, <1>8, <2>3
  <2> HIDE DEF rest
  <2> QED BY <2>2, <2>6, <2>7, <2>8
<1>10. S \in SUBSET S
  OBVIOUS
<1>11. CS[S] = n
  BY <1>0, <1>9, <1>10
<1> QED BY <1>7, <1>11

(* A finite set has Cardinality many elements. *)
LEMMA SizeOf ==
    ASSUME NEW S, Finite(S)
    PROVE  Cardinality(S) \in Nat /\ HasSize(S, Cardinality(S))
<1>1. PICK n : HasSize(S, n)
  BY DEF Finite
<1>2. Cardinality(S) = n
  BY <1>1, CountCardinality
<1> QED BY <1>1, <1>2 DEF HasSize

(* The size of the empty set. *)
LEMMA SizeNone == Finite({}) /\ Cardinality({}) = 0
<1>1. HasSize({}, 0)
  BY CountNone
<1> QED BY <1>1, CountCardinality DEF Finite

(* The size of an interval. *)
LEMMA SizeInterval ==
    ASSUME NEW a \in Int, NEW n \in Nat
    PROVE  Finite(a..(a + n - 1)) /\ Cardinality(a..(a + n - 1)) = n
BY CountInterval, CountCardinality DEF Finite

(* The size of a set with one more element. *)
LEMMA SizeAdd ==
    ASSUME NEW S, Finite(S), NEW x, x \notin S
    PROVE  Finite(S \cup {x}) /\ Cardinality(S \cup {x}) = Cardinality(S) + 1
<1>1. HasSize(S \cup {x}, Cardinality(S) + 1)
  BY SizeOf, CountAdd
<1> QED BY <1>1, CountCardinality DEF Finite

(* The size of a set with one element less. *)
LEMMA SizeRemove ==
    ASSUME NEW S, Finite(S), NEW x \in S
    PROVE  Finite(S \ {x}) /\ Cardinality(S \ {x}) = Cardinality(S) - 1
<1>1. HasSize(S \ {x}, Cardinality(S) - 1)
  BY SizeOf, CountRemove
<1> QED BY <1>1, CountCardinality DEF Finite

(* A part of a finite set is finite, and no larger. *)
LEMMA SizePart ==
    ASSUME NEW S, Finite(S), NEW T, T \subseteq S
    PROVE  Finite(T) /\ Cardinality(T) <= Cardinality(S)
<1> DEFINE n == Cardinality(S)
<1>1. n \in Nat /\ HasSize(S, n)
  BY SizeOf
<1> HIDE DEF n
<1>2. PICK k \in 0..n : HasSize(T, k)
  BY <1>1, CountParts
<1>3. Cardinality(T) = k /\ k <= n
  BY <1>1, <1>2, CountCardinality
<1> QED BY <1>2, <1>3 DEF Finite, n

(* Sets that are paired off are of one size. *)
LEMMA SizePaired ==
    ASSUME NEW S, Finite(S), NEW T, NEW g \in [S -> T],
           \A x, y \in S : g[x] = g[y] => x = y, \A z \in T : \E x \in S : g[x] = z
    PROVE  Finite(T) /\ Cardinality(T) = Cardinality(S)
<1>1. HasSize(T, Cardinality(S))
  <2> DEFINE n == Cardinality(S)
  <2>1. HasSize(S, n)
    BY SizeOf
  <2> HIDE DEF n
  <2>2. HasSize(T, n)
    BY <2>1, CountMapped
  <2> QED BY <2>2 DEF n
<1> QED BY <1>1, CountCardinality DEF Finite
-----------------------------------------------------------------------------
(* The queue operators of ReqSeq, for queues of any length.                *)

(* insertReq (reqQ.c:135) yields a queue one longer, or the same queue     *)
(* when it is full.                                                        *)
LEMMA InsertReqFacts ==
    ASSUME NEW S, NEW q \in Seq(S), NEW r \in S, NEW limit
    PROVE  /\ insertReq(q, limit, r) \in Seq(S)
           /\ Len(q) # limit => /\ insertReq(q, limit, r) = Append(q, r)
                                /\ Len(insertReq(q, limit, r)) = Len(q) + 1
           /\ Len(q) = limit => insertReq(q, limit, r) = q
BY SeqAppend DEF insertReq, isQfull

(* removeFirstReq (reqQ.c:161) takes the head off. *)
LEMMA RemoveFirstFacts ==
    ASSUME NEW S, NEW q \in Seq(S), ~isQempty(q)
    PROVE  /\ q # << >>
           /\ Head(q) \in S /\ Head(q) = q[1]
           /\ removeFirstReq(q) \in Seq(S)
           /\ Len(removeFirstReq(q)) = Len(q) - 1
           /\ \A i \in 1..(Len(q) - 1) : removeFirstReq(q)[i] = q[i + 1]
<1>1. q # << >> /\ Len(q) >= 1
  BY DEF isQempty
<1>2. removeFirstReq(q) = Tail(q)
  BY DEF removeFirstReq
<1> QED BY <1>1, <1>2, SeqTail

(* removeReq (reqQ.c:189) takes out exactly the request at its index, and  *)
(* nothing when the index is not in the queue.                             *)
LEMMA RemoveReqFacts ==
    ASSUME NEW S, NEW q \in Seq(S), NEW index \in Int
    PROVE  /\ removeReq(q, index) \in Seq(S)
           /\ index \in 0..(Len(q) - 1) =>
                /\ Len(removeReq(q, index)) = Len(q) - 1
                /\ \A i \in 1..(Len(q) - 1) :
                      removeReq(q, index)[i] = IF i <= index THEN q[i] ELSE q[i + 1]
           /\ index \notin 0..(Len(q) - 1) => removeReq(q, index) = q
<1>1. CASE index \in 0..(Len(q) - 1)
  <2>1. removeReq(q, index)
          = [i \in 1..(Len(q) - 1) |-> IF i <= index THEN q[i] ELSE q[i + 1]]
    BY <1>1 DEF removeReq
  <2>2. \A i \in 1..(Len(q) - 1) : (IF i <= index THEN q[i] ELSE q[i + 1]) \in S
    BY <1>1
  <2>3. Len(q) - 1 \in Nat
    BY <1>1
  <2> QED BY <1>1, <2>1, <2>2, <2>3
<1>2. CASE index \notin 0..(Len(q) - 1)
  BY <1>2 DEF removeReq
<1> QED BY <1>1, <1>2

(* removeReq shortens the queue by one exactly when the index is in it. *)
LEMMA RemoveReqLen ==
    ASSUME NEW S, NEW q \in Seq(S), NEW index \in Int
    PROVE  Len(removeReq(q, index))
              = IF index \in 0..(Len(q) - 1) THEN Len(q) - 1 ELSE Len(q)
BY Zenon, RemoveReqFacts

(* findFileId (reqQ.c:248) finds the first request with the descriptor,    *)
(* and answers -1 exactly when there is none.                              *)
LEMMA FindFileIdFacts ==
    ASSUME NEW S, NEW q \in Seq(S), NEW fd
    PROVE  /\ findFileId(q, fd) \in -1..(Len(q) - 1)
           /\ (\E i \in 1..Len(q) : q[i].data = fd) =>
                 /\ findFileId(q, fd) \in 0..(Len(q) - 1)
                 /\ q[findFileId(q, fd) + 1].data = fd
<1>1. CASE \E i \in 1..Len(q) : q[i].data = fd
  <2> DEFINE T == {i \in 1..Len(q) : q[i].data = fd}
             P(i) == q[i].data = fd /\ \A j \in 1..(i - 1) : q[j].data # fd
             k == CHOOSE i \in 1..Len(q) : P(i)
  <2>1. PICK m \in T : \A j \in T : m <= j
    <3>1. T \subseteq Nat /\ T # {}
      BY <1>1
    <3> HIDE DEF T
    <3> QED BY Zenon, <3>1, LeastNatural
  <2>2. m \in 1..Len(q) /\ P(m)
    BY <2>1
  <2>3. k \in 1..Len(q) /\ P(k)
    <3> HIDE DEF P
    <3> QED BY <2>2
  <2>4. findFileId(q, fd) = k - 1
    BY <1>1 DEF findFileId
  <2> HIDE DEF k
  <2> QED BY <2>3, <2>4
<1>2. CASE ~ \E i \in 1..Len(q) : q[i].data = fd
  BY <1>2 DEF findFileId
<1> QED BY <1>1, <1>2

-----------------------------------------------------------------------------
(* busy_threads and the workers in service. *)

(* A worker that is not in service appends its descriptor. *)
LEMMA MatchAppend ==
    ASSUME NEW S, NEW q \in Seq(S), NEW e \in S, NEW W, NEW j, NEW k,
           NEW w, w \notin W, Match(W, j, q), SameJobs(W, k, j), k[w].data = e.data
    PROVE  Match(W \cup {w}, k, Append(q, e))
<1> DEFINE n == Len(q)
           r == Append(q, e)
<1>1. PICK g : IsMatch(g, W, j, q)
  BY DEF Match
<1> DEFINE h == [v \in W \cup {w} |-> IF v = w THEN n + 1 ELSE g[v]]
<1>2. /\ n \in Nat /\ Len(r) = n + 1
      /\ \A i \in 1..n : r[i] = q[i]
      /\ r[n + 1] = e
  BY SeqAppend, SeqLen
<1>3. \A v \in W : g[v] \in 1..n /\ h[v] = g[v] /\ v # w
  BY <1>1 DEF IsMatch
<1>4. h[w] = n + 1
  OBVIOUS
<1> HIDE DEF n, r
<1>5. h \in [W \cup {w} -> 1..(n + 1)]
  BY <1>2, <1>3
<1>6. ASSUME NEW u \in W \cup {w}, NEW v \in W \cup {w}, h[u] = h[v] PROVE u = v
  <2> HIDE DEF h
  <2>1. \A x \in W : h[x] \in 1..n /\ h[x] # n + 1
    BY SMTT(30), <1>2, <1>3
  <2>2. CASE u \in W /\ v \in W
    BY <1>1, <1>3, <1>6, <2>2 DEF IsMatch
  <2> QED BY <1>4, <1>6, <2>1, <2>2
<1>7. ASSUME NEW i \in 1..(n + 1) PROVE \E v \in W \cup {w} : h[v] = i
  <2> HIDE DEF h
  <2>1. CASE i = n + 1
    BY <1>4, <2>1
  <2>2. CASE i \in 1..n
    BY <1>1, <1>3, <2>2 DEF IsMatch, n
  <2> QED BY <1>2, <2>1, <2>2
<1>8. ASSUME NEW v \in W \cup {w} PROVE r[h[v]].data = k[v].data
  <2> HIDE DEF h
  <2>1. CASE v = w
    BY <1>2, <1>4, <2>1
  <2>2. CASE v \in W
    BY <1>1, <1>2, <1>3, <2>2 DEF IsMatch, SameJobs
  <2> QED BY <2>1, <2>2
<1>9. IsMatch(h, W \cup {w}, k, r)
  <2> HIDE DEF h
  <2> QED BY <1>2, <1>5, <1>6, <1>7, <1>8 DEF IsMatch
<1> HIDE DEF h
<1> QED BY <1>9 DEF Match, r

(* A worker in service removes any entry with its descriptor: if that is   *)
(* not the one it is matched with, the entry's owner gets that one.        *)
LEMMA MatchRemove ==
    ASSUME NEW S, NEW q \in Seq(S), NEW W, NEW j, NEW k, NEW w \in W,
           NEW index \in 0..(Len(q) - 1), q[index + 1].data = j[w].data,
           Match(W, j, q), SameJobs(W \ {w}, k, j)
    PROVE  Match(W \ {w}, k, removeReq(q, index))
<1> DEFINE n == Len(q)
           r == removeReq(q, index)
           p == index + 1
<1>1. PICK g : IsMatch(g, W, j, q)
  BY DEF Match
<1> DEFINE b == [v \in W \ {w} |-> IF g[v] = p THEN g[w] ELSE g[v]]
           h == [v \in W \ {w} |-> IF b[v] < p THEN b[v] ELSE b[v] - 1]
<1>2. /\ n \in Nat /\ p \in 1..n /\ Len(r) = n - 1
      /\ \A i \in 1..(n - 1) : r[i] = IF i < p THEN q[i] ELSE q[i + 1]
  <2>1. n \in Nat /\ index \in Int
    BY SeqLen
  <2>2. p \in 1..n /\ Len(r) = n - 1
    BY <2>1, RemoveReqLen
  <2>3. \A i \in 1..(n - 1) : r[i] = IF i <= index THEN q[i] ELSE q[i + 1]
    BY <2>1, RemoveReqFacts
  <2> QED BY <2>1, <2>2, <2>3
<1>3. /\ \A v \in W : g[v] \in 1..n
      /\ \A u, v \in W : g[u] = g[v] => u = v
      /\ \A i \in 1..n : \E v \in W : g[v] = i
      /\ \A v \in W : q[g[v]].data = j[v].data
  BY <1>1 DEF IsMatch
<1> HIDE DEF n, r
<1>4. \A v \in W \ {w} : /\ b[v] \in 1..n /\ b[v] # p
                          /\ q[b[v]].data = j[v].data
  BY <1>2, <1>3
<1>5. \A u, v \in W \ {w} : b[u] = b[v] => u = v
  BY SMTT(30), <1>3
<1>6. \A i \in 1..n : i # p => \E v \in W \ {w} : b[v] = i
  <2> SUFFICES ASSUME NEW i \in 1..n, i # p PROVE \E v \in W \ {w} : b[v] = i
    OBVIOUS
  <2>1. PICK v \in W : g[v] = i
    BY <1>3
  <2>2. PICK u \in W : g[u] = p
    BY <1>2, <1>3
  <2>3. CASE v = w
    BY <2>1, <2>2, <2>3
  <2>4. CASE v # w
    BY <2>1, <2>4
  <2> QED BY <2>3, <2>4
<1>7. \A v \in W \ {w} : h[v] = IF b[v] < p THEN b[v] ELSE b[v] - 1
  OBVIOUS
<1>8. h \in [W \ {w} -> 1..(n - 1)]
  <2>1. \A v \in W \ {w} : h[v] \in 1..(n - 1)
    <3> HIDE DEF h, b, p
    <3>1. n \in Nat /\ p \in 1..n
      BY <1>2
    <3>2. \A x \in 1..n : x # p => (IF x < p THEN x ELSE x - 1) \in 1..(n - 1)
      BY <3>1
    <3> QED BY <1>4, <1>7, <3>2
  <2> QED BY <2>1
<1> HIDE DEF h, b, p
<1>9. ASSUME NEW u \in W \ {w}, NEW v \in W \ {w}, h[u] = h[v] PROVE u = v
  <2>1. \A x, y, z \in Int : /\ x # z /\ y # z
                             /\ (IF x < z THEN x ELSE x - 1) = (IF y < z THEN y ELSE y - 1)
                             => x = y
    OBVIOUS
  <2>2. b[u] \in Int /\ b[v] \in Int /\ p \in Int /\ b[u] # p /\ b[v] # p
    <3>1. n \in Nat /\ p \in 1..n
      BY <1>2
    <3>2. b[u] \in 1..n /\ b[u] # p /\ b[v] \in 1..n /\ b[v] # p
      BY <1>4
    <3> QED BY <3>1, <3>2
  <2>3. (IF b[u] < p THEN b[u] ELSE b[u] - 1) = (IF b[v] < p THEN b[v] ELSE b[v] - 1)
    <3>1. /\ h[u] = IF b[u] < p THEN b[u] ELSE b[u] - 1
          /\ h[v] = IF b[v] < p THEN b[v] ELSE b[v] - 1
      BY <1>7
    <3> QED BY Zenon, <1>9, <3>1
  <2>4. b[u] = b[v]
    BY <2>1, <2>2, <2>3
  <2> QED BY <1>5, <2>4
<1>10. ASSUME NEW i \in 1..(n - 1) PROVE \E v \in W \ {w} : h[v] = i
  <2>1. CASE i < p
    <3>1. PICK v \in W \ {w} : b[v] = i
      BY <1>2, <1>6, <2>1
    <3> QED BY <1>7, <2>1, <3>1
  <2>2. CASE ~(i < p)
    <3>1. n \in Nat /\ p \in 1..n
      BY <1>2
    <3>2. i + 1 \in 1..n /\ i + 1 # p
      BY <3>1, <2>2
    <3>3. PICK v \in W \ {w} : b[v] = i + 1
      BY <1>6, <3>2
    <3>4. ~(b[v] < p)
      BY <3>1, <2>2, <3>3
    <3>5. h[v] = b[v] - 1
      BY <1>7, <3>4
    <3> QED BY <3>3, <3>5
  <2> QED BY <2>1, <2>2
<1>11. ASSUME NEW v \in W \ {w} PROVE r[h[v]].data = k[v].data
  <2>1. h[v] \in 1..(n - 1)
    BY <1>8
  <2>2. r[h[v]] = q[b[v]]
    <3>1. n \in Nat /\ p \in 1..n /\ b[v] \in 1..n /\ b[v] # p
      BY <1>2, <1>4
    <3>2. h[v] = IF b[v] < p THEN b[v] ELSE b[v] - 1
      BY <1>7
    <3>3. r[h[v]] = IF h[v] < p THEN q[h[v]] ELSE q[h[v] + 1]
      BY <1>2, <2>1
    <3>4. CASE b[v] < p
      <4>1. h[v] = b[v] /\ h[v] < p
        BY <3>2, <3>4
      <4> QED BY <3>3, <4>1
    <3>5. CASE ~(b[v] < p)
      <4>1. ~(h[v] < p) /\ h[v] + 1 = b[v]
        BY <3>1, <3>2, <3>5
      <4> QED BY <3>3, <4>1
    <3> QED BY <3>4, <3>5
  <2> QED BY <1>4, <2>2 DEF SameJobs
<1>12. IsMatch(h, W \ {w}, k, r)
  BY <1>2, <1>8, <1>9, <1>10, <1>11 DEF IsMatch
<1> QED BY <1>12 DEF Match, r

-----------------------------------------------------------------------------

(* The server. *)

USE ServerAssumption

(* The threads are numbered, and differ from main and from nobody. *)
LEMMA WorkersAreNumbers ==
    /\ Workers \subseteq Nat
    /\ Main \notin Workers /\ Nobody \notin Workers /\ Main # Nobody
BY DEF Workers, Main, Nobody

(* Every step of main and of the workers keeps the types. *)
LEMMA TypeStep == TypeOK /\ [Next]_vars => TypeOK'
<1> SUFFICES ASSUME TypeOK, [Next]_vars PROVE TypeOK'
  OBVIOUS
<1> USE DEF TypeOK, InService, mainVars, workerVars
<1>1. CASE Accept
  <2>1. PICK fd \in Fds :
               /\ fdtab' = [fdtab EXCEPT ![fd] = arrived + 1]
               /\ hold' = [data |-> fd, time |-> arrived + 1]
    BY Zenon, <1>1 DEF Accept
  <2>2. arrived' \in 0..MaxConns /\ arrived + 1 \in Conns
    BY <1>1 DEF Accept, Conns
  <2>3. hold' \in Request
    BY <2>1, <2>2 DEF Request
  <2>4. fdtab' \in [Fds -> Conns \cup {NoConn}]
    BY <2>1, <2>2
  <2>5. mpc' = "lock" /\ UNCHANGED <<policy, pending, busy, mutex, delete, workerVars>>
    BY <1>1 DEF Accept
  <2> QED BY <2>2, <2>3, <2>4, <2>5
<1>2. CASE MainLock
  BY <1>2 DEF MainLock, lock
<1>3. CASE MainRelock
  BY <1>3 DEF MainRelock, lock
<1>4. CASE Admit
  <2>1. hold \in Request
    BY <1>4 DEF Admit, Admitting
  <2>2. pending' \in Seq(Request)
    BY <1>4, <2>1, InsertReqFacts DEF Admit
  <2>3. /\ wpc' \in [Workers -> {"lock", "wait", "woken", "test", "handle",
                                "close", "closed", "remove"}]
        /\ \A w \in Workers : InService(w)' => InService(w)
    BY Zenon, <1>4 DEF Admit, signal_no_waiting_reqs
  <2>4. /\ mutex' = Nobody /\ mpc' = "accept" /\ hold' = NoRequest /\ delete' = 0
        /\ UNCHANGED <<policy, busy, arrived, fdtab, reqid, job, cnt, reply>>
    BY <1>4 DEF Admit, unlock
  <2>5. \A w \in Workers : InService(w)' => job'[w] \in Request
    BY <2>3, <2>4
  <2> QED BY <2>2, <2>3, <2>4, <2>5
<1>5. CASE WaitForRoom
  BY <1>5 DEF WaitForRoom, unlock
<1>6. CASE Refuse
  BY Zenon, <1>6 DEF Refuse, Refusing, close, unlock, Request
<1>7. CASE DropHead
  <2>1. pending' \in Seq(Request) /\ Head(pending) \in Request
    BY <1>7, RemoveFirstFacts DEF DropHead
  <2>2. fdtab' \in [Fds -> Conns \cup {NoConn}]
    BY <1>7, <2>1 DEF DropHead, close, Request
  <2>3. /\ mpc' = "insert" /\ mpc = "check"
        /\ UNCHANGED <<policy, busy, mutex, hold, delete, arrived, workerVars>>
    BY <1>7 DEF DropHead
  <2> QED BY <2>1, <2>2, <2>3
<1>8. CASE RandomStart
  <2>1. delete' \in Nat
    <3>1. Len(pending) \in Nat /\ delete' = (Len(pending) + 1) \div 2
      BY <1>8, SeqLen DEF RandomStart, Half, getQsize
    <3>2. \A n \in Nat : (n + 1) \div 2 \in Nat
      OBVIOUS
    <3> QED BY <3>1, <3>2
  <2>2. /\ mpc' = "random" /\ mpc = "check"
        /\ UNCHANGED <<policy, pending, busy, mutex, hold, arrived, fdtab, workerVars>>
    BY <1>8 DEF RandomStart
  <2> QED BY <2>1, <2>2
<1>9. CASE RandomDrop
  <2>1. PICK index \in 0..(getQsize(pending) - 1) :
               /\ close(pending[index + 1].data)
               /\ pending' = removeReq(pending, index)
    BY <1>9 DEF RandomDrop
  <2>2. pending' \in Seq(Request)
    BY <2>1, RemoveReqFacts DEF getQsize
  <2>3. pending[index + 1] \in Request
    BY <2>1 DEF getQsize
  <2>4. fdtab' \in [Fds -> Conns \cup {NoConn}]
    BY <2>1, <2>3 DEF close, Request
  <2>5. delete' \in Nat
    BY <1>9 DEF RandomDrop
  <2> QED BY <1>9, <2>2, <2>4, <2>5 DEF RandomDrop
<1>10. CASE MainSpurious
  BY <1>10 DEF MainSpurious
<1>11. ASSUME NEW w \in Workers, WorkerSpurious(w) PROVE TypeOK'
  BY <1>11 DEF WorkerSpurious
<1>12. ASSUME NEW w \in Workers, WorkerLock(w) PROVE TypeOK'
  BY <1>12 DEF WorkerLock, lock
<1>13. ASSUME NEW w \in Workers, WaitForRequest(w) PROVE TypeOK'
  BY <1>13 DEF WaitForRequest, unlock
<1>14. ASSUME NEW w \in Workers, TakeRequest(w) PROVE TypeOK'
  <2>1. pending' \in Seq(Request) /\ Head(pending) \in Request
    BY <1>14, RemoveFirstFacts DEF TakeRequest
  <2>2. busy' \in Seq([data : Fds, time : {NoConn}])
    <3>1. [data |-> Head(pending).data, time |-> NoConn]
             \in [data : Fds, time : {NoConn}]
      BY <2>1 DEF Request
    <3> QED BY Zenon, <1>14, <3>1, InsertReqFacts DEF TakeRequest
  <2> QED BY <1>14, <2>1, <2>2 DEF TakeRequest, unlock
<1>15. ASSUME NEW w \in Workers, NEW kind \in Kinds, requestHandle(w, kind)
       PROVE  TypeOK'
  <2> DEFINE t == reqid[w]
             c == [all  |-> cnt[t].all + 1,
                   stat |-> cnt[t].stat + (IF kind = "static" THEN 1 ELSE 0),
                   dyn  |-> cnt[t].dyn + (IF kind = "dynamic" THEN 1 ELSE 0)]
  <2>1. t \in Workers /\ c \in [all : Nat, stat : Nat, dyn : Nat]
    <3>1. t \in Workers /\ cnt[t] \in [all : Nat, stat : Nat, dyn : Nat]
      OBVIOUS
    <3> HIDE DEF TypeOK, t
    <3>2. cnt[t].all \in Nat /\ cnt[t].stat \in Nat /\ cnt[t].dyn \in Nat
      BY <3>1
    <3>3. \A n \in Nat : n + 1 \in Nat /\ n + (IF kind = "static" THEN 1 ELSE 0) \in Nat
                         /\ n + (IF kind = "dynamic" THEN 1 ELSE 0) \in Nat
      OBVIOUS
    <3> QED BY <3>1, <3>2, <3>3
  <2>2. cnt' \in [Workers -> [all : Nat, stat : Nat, dyn : Nat]]
    BY <1>15, <2>1 DEF requestHandle
  <2>3. job[w].time \in Conns
    BY <1>15 DEF requestHandle, Request
  <2>4. reply' \in [Conns -> [thread : Workers \cup {Nobody},
                             all : Nat, stat : Nat, dyn : Nat]]
    BY <1>15, <2>1, <2>3 DEF requestHandle
  <2> HIDE DEF t, c
  <2> QED BY Zenon, <1>15, <2>2, <2>4 DEF requestHandle
<1>16. ASSUME NEW w \in Workers, CloseConnection(w) PROVE TypeOK'
  BY Zenon, <1>16 DEF CloseConnection, close, Request
<1>17. ASSUME NEW w \in Workers, WorkerLockAgain(w) PROVE TypeOK'
  BY <1>17 DEF WorkerLockAgain, lock
<1>18. ASSUME NEW w \in Workers, FinishRequest(w) PROVE TypeOK'
  <2>1. findFileId(busy, job[w].data) \in Int
    BY FindFileIdFacts
  <2>2. busy' \in Seq([data : Fds, time : {NoConn}])
    BY <1>18, <2>1, RemoveReqFacts DEF FinishRequest
  <2> QED
    BY <1>18, <2>2
       DEF FinishRequest, unlock, reqidShadowed, signal_no_empty_threads
<1>19. CASE UNCHANGED vars
  BY <1>19 DEF vars
<1> QED
  BY Zenon, <1>1, <1>2, <1>3, <1>4, <1>5, <1>6, <1>7, <1>8, <1>9, <1>10, <1>11,
     <1>12, <1>13, <1>14, <1>15, <1>16, <1>17, <1>18, <1>19
     DEF Next, MainStep, WorkerStep

(* The queues, program counters, descriptor table and counters of the      *)
(* server always have their types, in particular a thread past Accept or   *)
(* past line 232 always has a request to work on.                          *)
THEOREM TypeCorrect == Spec => []TypeOK
<1>1. Init => TypeOK
  <2> SUFFICES ASSUME Init PROVE TypeOK
    OBVIOUS
  <2> USE DEF Init, TypeOK, ThreadNumber
  <2>1. pending \in Seq(Request) /\ busy \in Seq(BusyRequest)
    BY SeqEmpty
  <2> QED
    BY <2>1, WorkersAreNumbers
       DEF InService, Workers, Nobody, NoRequest, NoReply, NoConn, BusyRequest
<1> QED BY <1>1, TypeStep, PTL DEF Spec

-----------------------------------------------------------------------------

(* Every step keeps m with the thread between its lock and its unlock. *)
LEMMA MutexStep == TypeOK /\ MutexHeld /\ [Next]_vars => MutexHeld'
<1> SUFFICES ASSUME TypeOK, MutexHeld, [Next]_vars PROVE MutexHeld'
  OBVIOUS
<1> USE WorkersAreNumbers
    DEF MutexHeld, TypeOK, mainVars, workerVars, lock, unlock
<1>1. CASE Accept
  BY <1>1 DEF Accept
<1>2. CASE MainLock
  BY <1>2 DEF MainLock
<1>3. CASE MainRelock
  BY <1>3 DEF MainRelock
<1>4. CASE Admit
  <2>1. /\ mpc \in {"check", "recheck", "insert", "random"} /\ mpc' = "accept"
        /\ mutex' = Nobody
    BY <1>4 DEF Admit, Admitting
  <2>2. \A w \in Workers : wpc'[w] \in {"test", "remove"} => wpc[w] \in {"test", "remove"}
    BY <1>4 DEF Admit, signal_no_waiting_reqs
  <2>3. mutex = Main
    BY <2>1
  <2>4. \A w \in Workers : wpc[w] \notin {"test", "remove"}
    BY <2>3
  <2> QED BY <2>1, <2>2, <2>4
<1>5. CASE WaitForRoom
  BY <1>5 DEF WaitForRoom
<1>6. CASE Refuse
  BY <1>6 DEF Refuse, Refusing
<1>7. CASE DropHead
  BY <1>7 DEF DropHead
<1>8. CASE RandomStart
  BY <1>8 DEF RandomStart
<1>9. CASE RandomDrop
  BY <1>9 DEF RandomDrop
<1>10. CASE MainSpurious
  BY <1>10 DEF MainSpurious
<1>11. ASSUME NEW w \in Workers, WorkerSpurious(w) PROVE MutexHeld'
  BY <1>11 DEF WorkerSpurious
<1>12. ASSUME NEW w \in Workers, WorkerLock(w) PROVE MutexHeld'
  BY <1>12 DEF WorkerLock
<1>13. ASSUME NEW w \in Workers, WaitForRequest(w) PROVE MutexHeld'
  BY <1>13 DEF WaitForRequest
<1>14. ASSUME NEW w \in Workers, TakeRequest(w) PROVE MutexHeld'
  BY <1>14 DEF TakeRequest
<1>15. ASSUME NEW w \in Workers, NEW kind \in Kinds, requestHandle(w, kind)
       PROVE  MutexHeld'
  BY <1>15 DEF requestHandle
<1>16. ASSUME NEW w \in Workers, CloseConnection(w) PROVE MutexHeld'
  BY <1>16 DEF CloseConnection
<1>17. ASSUME NEW w \in Workers, WorkerLockAgain(w) PROVE MutexHeld'
  BY <1>17 DEF WorkerLockAgain
<1>18. ASSUME NEW w \in Workers, FinishRequest(w) PROVE MutexHeld'
  BY <1>18 DEF FinishRequest, signal_no_empty_threads
<1>19. CASE UNCHANGED vars
  BY <1>19 DEF vars
<1> QED
  BY <1>1, <1>2, <1>3, <1>4, <1>5, <1>6, <1>7, <1>8, <1>9, <1>10, <1>11,
     <1>12, <1>13, <1>14, <1>15, <1>16, <1>17, <1>18, <1>19
     DEF Next, MainStep, WorkerStep

(* The mutex m is held exactly by the thread between a lock, or a return   *)
(* from pthread_cond_wait, and the following unlock or wait: the two       *)
(* queues are never changed by two threads at once.                        *)
THEOREM MutualExclusion == Spec => []MutexHeld
<1>1. Init => MutexHeld
  BY WorkersAreNumbers DEF Init, MutexHeld
<1> QED BY <1>1, MutexStep, TypeCorrect, PTL DEF Spec

-----------------------------------------------------------------------------

(* Every step keeps the capacity and the room before insertReq. *)
LEMMA CapacityStep ==
    TypeOK /\ MutexHeld /\ CapacityInv /\ [Next]_vars => CapacityInv'
<1> SUFFICES ASSUME TypeOK, MutexHeld, CapacityInv, [Next]_vars
             PROVE  CapacityInv'
  OBVIOUS
<1> USE DEF CapacityInv, QueueBound, RoomBeforeInsert, Full, getQsize
<1>t. pending \in Seq(Request) /\ busy \in Seq(BusyRequest) /\ delete \in Nat
  BY DEF TypeOK, BusyRequest
<1>l. Len(pending) \in Nat /\ Len(busy) \in Nat
  BY <1>t, SeqLen
<1>1. CASE UNCHANGED <<pending, busy>> /\ mpc' \notin {"insert", "random"}
  BY <1>1
<1>2. CASE Admit
  <2>1. hold \in Request /\ ~Full
    BY <1>2, <1>l, <1>t DEF Admit, Admitting, TypeOK, isQempty
  <2>2. Len(pending') <= Len(pending) + 1
    BY <1>2, <1>t, <1>l, <2>1, InsertReqFacts DEF Admit
  <2>3. Len(pending') \in Nat
    <3>1. pending' \in Seq(Request)
      BY <1>2, <1>t, <2>1, InsertReqFacts DEF Admit
    <3> QED BY <3>1, SeqLen
  <2> QED BY <1>2, <1>l, <2>1, <2>2, <2>3 DEF Admit
<1>3. CASE DropHead
  <2>1. Len(pending') = Len(pending) - 1
    BY <1>3, <1>t, RemoveFirstFacts DEF DropHead
  <2> QED BY <1>3, <1>l, <2>1 DEF DropHead
<1>4. CASE RandomStart
  BY <1>4, <1>l DEF RandomStart, Half, isQempty
<1>5. CASE RandomDrop
  <2>1. PICK index \in 0..(Len(pending) - 1) : pending' = removeReq(pending, index)
    BY <1>5 DEF RandomDrop
  <2>2. Len(pending') = Len(pending) - 1
    BY <1>t, <1>l, <2>1, RemoveReqLen
  <2> QED BY <1>5, <1>l, <1>t, <2>2 DEF RandomDrop
<1>6. ASSUME NEW w \in Workers, TakeRequest(w) PROVE CapacityInv'
  <2>1. Head(pending) \in Request /\ Len(pending') = Len(pending) - 1
    <3>1. ~isQempty(pending) /\ pending' = removeFirstReq(pending)
      BY <1>6 DEF TakeRequest
    <3> QED BY <3>1, <1>t, RemoveFirstFacts
  <2>2. [data |-> Head(pending).data, time |-> NoConn] \in BusyRequest
    BY <2>1 DEF Request, BusyRequest
  <2>3. Len(busy') <= Len(busy) + 1
    BY <1>6, <1>t, <1>l, <2>2, InsertReqFacts DEF TakeRequest
  <2>4. Len(busy') \in Nat
    <3>1. busy' \in Seq(BusyRequest)
      BY <1>6, <1>t, <2>2, InsertReqFacts DEF TakeRequest
    <3> QED BY <3>1, SeqLen
  <2>5. mpc' \notin {"insert", "random"}
    BY <1>6, WorkersAreNumbers DEF TakeRequest, mainVars, MutexHeld
  <2> QED BY <1>l, <2>1, <2>3, <2>4, <2>5
<1>7. ASSUME NEW w \in Workers, FinishRequest(w) PROVE CapacityInv'
  <2>1. findFileId(busy, job[w].data) \in Int
    BY <1>t, FindFileIdFacts
  <2>2. Len(busy') <= Len(busy) /\ Len(busy') \in Nat
    <3>1. busy' = removeReq(busy, findFileId(busy, job[w].data))
      BY <1>7 DEF FinishRequest
    <3> QED BY <3>1, <2>1, <1>t, <1>l, RemoveReqLen
  <2>3. mpc' \notin {"insert", "random"}
    BY <1>7, WorkersAreNumbers
       DEF FinishRequest, signal_no_empty_threads, MutexHeld
  <2>4. pending' = pending
    BY <1>7 DEF FinishRequest
  <2> QED BY <1>l, <2>2, <2>3, <2>4
<1>8. CASE UNCHANGED <<pending, busy, mpc, delete>>
  BY <1>8
<1> QED
  BY Zenon, <1>1, <1>2, <1>3, <1>4, <1>5, <1>6, <1>7, <1>8
     DEF Next, MainStep, WorkerStep, Accept, MainLock, MainRelock, WaitForRoom,
         Refuse, MainSpurious, WorkerSpurious, WorkerLock, WaitForRequest,
         requestHandle, CloseConnection, WorkerLockAgain, mainVars, vars

(* At any moment the requests pending and in service together do not       *)
(* exceed the queue size given on the command line, whatever the policy,   *)
(* the number of threads and the interleaving.                             *)
THEOREM Capacity == Spec => []QueueBound
<1>1. Init => CapacityInv
  BY SeqEmpty DEF Init, CapacityInv, QueueBound, RoomBeforeInsert, getQsize
<1>2. CapacityInv => QueueBound
  BY DEF CapacityInv
<1> QED
  BY <1>1, <1>2, CapacityStep, TypeCorrect, MutualExclusion, PTL DEF Spec

-----------------------------------------------------------------------------

(* There are as many entries as matched workers. *)
LEMMA MatchSize ==
    ASSUME NEW S, NEW q \in Seq(S), NEW W, Finite(W), NEW j, Match(W, j, q)
    PROVE  Cardinality(W) = Len(q)
<1>1. PICK g : IsMatch(g, W, j, q)
  BY DEF Match
<1>3. Cardinality(1..Len(q)) = Cardinality(W)
  BY Zenon, <1>1, SizePaired DEF IsMatch
<1>4. Len(q) \in Nat
  BY SeqLen
<1>5. Cardinality(1..Len(q)) = Len(q)
  <2>1. 1..Len(q) = 1..(1 + Len(q) - 1)
    BY <1>4
  <2>2. 1 \in Int /\ Len(q) \in Nat
    BY <1>4
  <2>3. Cardinality(1..(1 + Len(q) - 1)) = Len(q)
    BY Zenon, <2>2, SizeInterval
  <2> QED BY <2>1, <2>3
<1> QED BY <1>3, <1>4, <1>5

(* The pool, and the workers in service, are finite. *)
LEMMA ServFinite ==
    /\ Finite(Workers) /\ Cardinality(Workers) = MaxThreads
    /\ Finite(Serv) /\ Serv \subseteq Workers
<1>1. Finite(Workers) /\ Cardinality(Workers) = MaxThreads
  <2>1. MaxThreads \in Nat /\ 0..(MaxThreads - 1) = 0..(0 + MaxThreads - 1)
    OBVIOUS
  <2>2. Finite(0..(MaxThreads - 1)) /\ Cardinality(0..(MaxThreads - 1)) = MaxThreads
    BY <2>1, SizeInterval
  <2> QED BY <2>2 DEF Workers
<1>2. Serv \in SUBSET Workers
  BY DEF Serv
<1> QED BY <1>1, <1>2, SizePart

(* A worker that is not in service finds room in busy_threads. *)
LEMMA BusyRoom ==
    ASSUME TypeOK, BusyMatched, NEW w \in Workers, ~InService(w)
    PROVE  Len(busy) < MaxThreads
<1>1. busy \in Seq(BusyRequest)
  BY DEF TypeOK, BusyRequest
<1>2. Len(busy) = Cardinality(Serv)
  BY <1>1, ServFinite, MatchSize DEF BusyMatched
<1>3. Cardinality(Serv \cup {w}) = Cardinality(Serv) + 1
  BY Zenon, ServFinite, SizeAdd DEF Serv
<1>4. Serv \cup {w} \in SUBSET Workers
  BY DEF Serv
<1>5. Cardinality(Serv \cup {w}) <= MaxThreads
  BY <1>4, ServFinite, SizePart
<1>6. Cardinality(Serv) \in Nat
  BY ServFinite, SizeOf
<1> QED BY <1>2, <1>3, <1>5, <1>6

(* A worker that takes a request (server.c:232-240) is matched with it. *)
LEMMA TakeMatched ==
    ASSUME TypeOK, BusyMatched, NEW w \in Workers, TakeRequest(w)
    PROVE  BusyMatched' /\ Len(busy') = Len(busy) + 1
<1> DEFINE e == [data |-> Head(pending).data, time |-> NoConn]
<1>1. busy \in Seq(BusyRequest) /\ pending \in Seq(Request)
  BY DEF TypeOK, BusyRequest
<1>2. Head(pending) \in Request /\ e \in BusyRequest
  <2>1. ~isQempty(pending)
    BY DEF TakeRequest
  <2>2. Head(pending) \in Request
    BY <1>1, <2>1, RemoveFirstFacts
  <2> QED BY <2>2 DEF Request, BusyRequest
<1>3. w \notin Serv /\ ~InService(w)
  BY DEF TakeRequest, Serv, InService
<1>4. busy' = Append(busy, e) /\ Len(busy') = Len(busy) + 1
  <2>1. Len(busy) # MaxThreads
    BY <1>1, <1>3, BusyRoom, SeqLen
  <2>2. busy' = insertReq(busy, MaxThreads, e)
    BY DEF TakeRequest
  <2> HIDE DEF e
  <2>3. busy' = Append(busy, e)
    BY <2>1, <2>2 DEF insertReq, isQfull
  <2> QED BY <1>1, <1>2, <2>3, SeqAppend
<1>5. Serv' = Serv \cup {w}
  BY DEF TakeRequest, Serv, InService, TypeOK
<1>6. SameJobs(Serv, job', job)
  BY <1>3 DEF TakeRequest, Serv, TypeOK, SameJobs
<1>7. job'[w].data = e.data
  BY DEF TakeRequest, TypeOK
<1> HIDE DEF e
<1>8. Match(Serv \cup {w}, job', Append(busy, e))
  BY <1>1, <1>2, <1>3, <1>6, <1>7, MatchAppend DEF BusyMatched
<1> QED BY <1>4, <1>5, <1>8 DEF BusyMatched

(* Every step keeps busy_threads matched with the workers in service. *)
LEMMA MatchedStep == TypeOK /\ BusyMatched /\ [Next]_vars => BusyMatched'
<1> SUFFICES ASSUME TypeOK, BusyMatched, [Next]_vars PROVE BusyMatched'
  OBVIOUS
<1>1. ASSUME NEW w \in Workers, TakeRequest(w) PROVE BusyMatched'
  BY <1>1, TakeMatched
(* Lines 250-257: the entry found by descriptor goes with the worker. *)
<1>2. ASSUME NEW w \in Workers, FinishRequest(w) PROVE BusyMatched'
  <2> DEFINE index == findFileId(busy, job[w].data)
  <2>1. busy \in Seq(BusyRequest)
    BY DEF TypeOK, BusyRequest
  <2>2. w \in Serv
    BY <1>2 DEF FinishRequest, Serv, InService
  <2>3. \E i \in 1..Len(busy) : busy[i].data = job[w].data
    <3>1. PICK g : IsMatch(g, Serv, job, busy)
      BY DEF BusyMatched, Match
    <3> QED BY <2>2, <3>1 DEF IsMatch
  <2>4. index \in 0..(Len(busy) - 1) /\ busy[index + 1].data = job[w].data
    BY <2>1, <2>3, FindFileIdFacts
  <2>5. busy' = removeReq(busy, index)
    BY <1>2 DEF FinishRequest
  <2>6. Serv' = Serv \ {w}
    BY <1>2 DEF FinishRequest, Serv, InService, TypeOK
  <2>7. SameJobs(Serv \ {w}, job', job)
    BY <1>2 DEF FinishRequest, Serv, TypeOK, SameJobs
  <2> HIDE DEF index
  <2>8. Match(Serv \ {w}, job', removeReq(busy, index))
    BY <2>1, <2>2, <2>4, <2>7, MatchRemove DEF BusyMatched
  <2> QED BY <2>5, <2>6, <2>8 DEF BusyMatched
<1>3. CASE UNCHANGED <<busy, job>> /\ Serv' = Serv
  BY <1>3 DEF BusyMatched
<1> USE DEF Serv, InService, TypeOK
<1>4. CASE Admit
  <2>1. Serv' = Serv
    BY <1>4 DEF Admit, signal_no_waiting_reqs
  <2> QED BY <1>3, <1>4, <2>1 DEF Admit
<1>5. ASSUME NEW w \in Workers, NEW kind \in Kinds, requestHandle(w, kind)
      PROVE  BusyMatched'
  BY <1>3, <1>5 DEF requestHandle
<1>6. ASSUME NEW w \in Workers,
             \/ WorkerSpurious(w) \/ WorkerLock(w) \/ WaitForRequest(w)
             \/ CloseConnection(w) \/ WorkerLockAgain(w)
      PROVE  BusyMatched'
  BY <1>3, <1>6 DEF WorkerSpurious, WorkerLock, WaitForRequest,
                    CloseConnection, WorkerLockAgain
<1>7. CASE UNCHANGED <<busy, job, wpc>>
  BY <1>3, <1>7
<1> QED
  BY <1>1, <1>2, <1>4, <1>5, <1>6, <1>7
     DEF Next, MainStep, WorkerStep, Accept, MainLock, MainRelock, WaitForRoom,
         Refuse, DropHead, RandomStart, RandomDrop, MainSpurious, workerVars,
         vars

(* busy_threads is always matched with the workers in service. *)
LEMMA MatchedInvariant == Spec => []BusyMatched
<1>1. Init => BusyMatched
  <2> SUFFICES ASSUME Init PROVE BusyMatched
    OBVIOUS
  <2>1. Serv = {} /\ Len(busy) = 0
    BY DEF Init, Serv, InService
  <2>2. IsMatch(<< >>, Serv, job, busy)
    BY <2>1 DEF IsMatch
  <2> QED BY <2>2 DEF BusyMatched, Match
<1> QED BY <1>1, MatchedStep, TypeCorrect, PTL DEF Spec

(* busy_threads is, with multiplicity, the descriptors of the workers in   *)
(* service, for any number of threads and however often Accept reuses a    *)
(* descriptor number that was closed outside the mutex (line 249).         *)
THEOREM BusyIsTheWorkers == Spec => []BusyMatchesWorkers
<1>1. TypeOK /\ BusyMatched => BusyMatchesWorkers
  <2> SUFFICES ASSUME TypeOK, BusyMatched, NEW fd \in Fds
               PROVE  Cardinality({i \in 1..Len(busy) : busy[i].data = fd})
                        = Cardinality({w \in Workers : InService(w)
                                                       /\ job[w].data = fd})
    BY DEF BusyMatchesWorkers
  <2> DEFINE A == {w \in Workers : InService(w) /\ job[w].data = fd}
             B == {i \in 1..Len(busy) : busy[i].data = fd}
  <2>1. PICK g : IsMatch(g, Serv, job, busy)
    BY DEF BusyMatched, Match
  <2> DEFINE h == [w \in A |-> g[w]]
  <2>2. \A w \in A : w \in Serv
    BY DEF Serv
  <2>3. h \in [A -> B] /\ \A u, v \in A : h[u] = h[v] => u = v
    BY <2>1, <2>2 DEF IsMatch
  <2>4. \A i \in B : \E w \in A : h[w] = i
    <3> SUFFICES ASSUME NEW i \in B PROVE \E w \in A : h[w] = i
      OBVIOUS
    <3>1. PICK w \in Serv : g[w] = i
      BY <2>1 DEF IsMatch
    <3>2. w \in A
      BY <2>1, <3>1 DEF IsMatch, Serv
    <3> QED BY <3>1, <3>2
  <2>5. Finite(A)
    <3>1. A \in SUBSET Workers
      OBVIOUS
    <3> QED BY <3>1, ServFinite, SizePart
  <2> HIDE DEF A, B, h
  <2>7. Cardinality(B) = Cardinality(A)
    BY Zenon, <2>3, <2>4, <2>5, SizePaired
  <2> QED BY <2>7 DEF A, B
<1> QED BY <1>1, MatchedInvariant, TypeCorrect, PTL

-----------------------------------------------------------------------------

(* Every step that makes room wakes main. *)
LEMMA SleepStep ==
    TypeOK /\ MutexHeld /\ BusyMatched /\ MainSleepsOnlyWhenFull /\ [Next]_vars
        => MainSleepsOnlyWhenFull'
<1> SUFFICES ASSUME TypeOK, MutexHeld, BusyMatched, MainSleepsOnlyWhenFull,
                    [Next]_vars, mpc' = "wait"
             PROVE  Full'
  BY DEF MainSleepsOnlyWhenFull
<1> USE DEF Full, getQsize
<1>1. CASE mpc = "wait" /\ UNCHANGED <<pending, busy>>
  BY <1>1 DEF MainSleepsOnlyWhenFull
<1>2. CASE WaitForRoom
  BY <1>2 DEF WaitForRoom
<1>3. ASSUME NEW w \in Workers, TakeRequest(w) PROVE Full'
  <2>1. mpc = "wait" /\ Full
    BY <1>3 DEF TakeRequest, mainVars, MainSleepsOnlyWhenFull
  <2>2. Len(busy') = Len(busy) + 1
    BY <1>3, TakeMatched
  <2>3. Len(pending') = Len(pending) - 1
    <3>1. pending \in Seq(Request)
      BY DEF TypeOK
    <3>2. ~isQempty(pending) /\ pending' = removeFirstReq(pending)
      BY <1>3 DEF TakeRequest
    <3> QED BY <3>1, <3>2, RemoveFirstFacts
  <2>4. Len(pending) \in Nat /\ Len(busy) \in Nat
    BY SeqLen DEF TypeOK
  <2> QED BY <2>1, <2>2, <2>3, <2>4
<1>4. ASSUME NEW w \in Workers, FinishRequest(w) PROVE Full'
  BY <1>4 DEF FinishRequest, signal_no_empty_threads
<1> QED
  BY Zenon, <1>1, <1>2, <1>3, <1>4
     DEF Next, MainStep, WorkerStep, Accept, MainLock, MainRelock, Admit,
         Refuse, DropHead, RandomStart, RandomDrop, MainSpurious,
         WorkerSpurious, WorkerLock, WaitForRequest, requestHandle,
         CloseConnection, WorkerLockAgain, mainVars, vars

(* Main is asleep on no_empty_threads only while the server is full: no    *)
(* interleaving makes room without the signal of line 256 reaching it.     *)
THEOREM MainNotStranded == Spec => []MainSleepsOnlyWhenFull
<1>1. Init => MainSleepsOnlyWhenFull
  BY DEF Init, MainSleepsOnlyWhenFull
<1> QED
  BY <1>1, SleepStep, TypeCorrect, MutualExclusion, MatchedInvariant, PTL
     DEF Spec

-----------------------------------------------------------------------------

(* The workers on their way to the queue are finitely many. *)
LEMMA AwakeFinite ==
    /\ Finite(Awake) /\ Cardinality(Awake) \in Nat
    /\ Finite(Awake') /\ Cardinality(Awake') \in Nat
<1>1. Awake \in SUBSET Workers /\ Awake' \in SUBSET Workers
  BY DEF Awake
<1>2. ASSUME NEW A \in SUBSET Workers
      PROVE  Finite(A) /\ Cardinality(A) \in Nat
  BY <1>2, ServFinite, SizePart, SizeOf
<1> QED BY <1>1, <1>2

(* NoLostWakeup survives a step that adds no pending request and sends no  *)
(* worker away.                                                            *)
LEMMA WakeupMonotone ==
    ASSUME TypeOK, TypeOK', NoLostWakeup, Awake \subseteq Awake',
           Len(pending') <= Len(pending),
           \A w \in Workers : wpc'[w] = "wait" => wpc[w] = "wait"
    PROVE  NoLostWakeup'
<1>1. Cardinality(Awake) <= Cardinality(Awake')
  BY AwakeFinite, SizePart
<1>2. Cardinality(Awake') \in Nat /\ Cardinality(Awake) \in Nat
  BY AwakeFinite
<1>3. Len(pending) \in Nat /\ Len(pending') \in Nat
  BY SeqLen DEF TypeOK
<1>4. (\E w \in Workers : wpc'[w] = "wait") => Len(pending) <= Cardinality(Awake)
  BY DEF NoLostWakeup, Awake, getQsize
<1>5. (\E w \in Workers : wpc'[w] = "wait") => Len(pending') <= Cardinality(Awake')
  BY <1>1, <1>2, <1>3, <1>4
<1> QED BY <1>5 DEF NoLostWakeup, Awake, getQsize

(* Every step keeps enough workers on their way to the queue. *)
LEMMA WakeupStep == TypeOK /\ TypeOK' /\ NoLostWakeup /\ [Next]_vars => NoLostWakeup'
<1> SUFFICES ASSUME TypeOK, TypeOK', NoLostWakeup, [Next]_vars
             PROVE  NoLostWakeup'
  OBVIOUS
<1>t. /\ pending \in Seq(Request) /\ Len(pending) \in Nat
      /\ wpc \in [Workers -> {"lock", "wait", "woken", "test", "handle",
                               "close", "closed", "remove"}]
      /\ Len(pending') \in Nat
  BY SeqLen DEF TypeOK
<1>n. NoLostWakeup' <=> ((\E w \in Workers : wpc'[w] = "wait")
                            => Len(pending') <= Cardinality(Awake'))
  BY DEF NoLostWakeup, Awake, getQsize
<1>1. CASE Admit
  <2>1. CASE \E w \in Workers : wpc[w] = "wait"
    <3>1. PICK w \in Workers : wpc[w] = "wait" /\ wpc' = [wpc EXCEPT ![w] = "woken"]
      BY <1>1, <2>1 DEF Admit, signal_no_waiting_reqs
    <3>2. Awake' = Awake \cup {w} /\ w \notin Awake
      BY <1>t, <3>1 DEF Awake
    <3>3. Cardinality(Awake') = Cardinality(Awake) + 1
      BY <3>2, AwakeFinite, SizeAdd
    <3>4. Len(pending') <= Len(pending) + 1
      <4>1. hold \in Request /\ pending' = insertReq(pending, MaxTasks, hold)
        BY <1>1 DEF Admit, Admitting, TypeOK
      <4>2. pending' = pending \/ pending' = Append(pending, hold)
        BY <4>1 DEF insertReq
      <4> QED BY <1>t, <4>1, <4>2, SeqAppend
    <3>5. Len(pending) <= Cardinality(Awake)
      BY <2>1 DEF NoLostWakeup, Awake, getQsize
    <3>6. Cardinality(Awake) \in Nat
      BY AwakeFinite
    <3> QED BY <1>n, <1>t, <3>3, <3>4, <3>5, <3>6
  <2>2. CASE ~ \E w \in Workers : wpc[w] = "wait"
    BY <1>1, <1>n, <2>2 DEF Admit, signal_no_waiting_reqs
  <2> QED BY <2>1, <2>2
<1>2. CASE UNCHANGED wpc /\ Len(pending') <= Len(pending)
  BY <1>2, WakeupMonotone DEF Awake
<1>3. CASE DropHead
  <2>1. ~isQempty(pending) /\ pending' = removeFirstReq(pending)
    BY <1>3 DEF DropHead
  <2>2. Len(pending') = Len(pending) - 1
    BY <1>t, <2>1, RemoveFirstFacts
  <2> QED BY <1>2, <1>3, <1>t, <2>2 DEF DropHead, workerVars
<1>4. CASE RandomDrop
  <2>1. PICK index \in 0..(Len(pending) - 1) : pending' = removeReq(pending, index)
    BY <1>4 DEF RandomDrop, getQsize
  <2>2. Len(pending') = Len(pending) - 1
    BY <1>t, <2>1, RemoveReqLen
  <2> QED BY <1>2, <1>4, <1>t, <2>2 DEF RandomDrop, workerVars
<1>5. ASSUME NEW w \in Workers, WaitForRequest(w) PROVE NoLostWakeup'
  <2>1. Len(pending') = 0
    BY <1>5 DEF WaitForRequest, isQempty
  <2>2. Cardinality(Awake') \in Nat
    BY AwakeFinite
  <2> QED BY <1>n, <2>1, <2>2
<1>6. ASSUME NEW w \in Workers, TakeRequest(w) PROVE NoLostWakeup'
  <2>1. ~isQempty(pending) /\ pending' = removeFirstReq(pending)
    BY <1>6 DEF TakeRequest
  <2>2. Len(pending') = Len(pending) - 1
    BY <1>t, <2>1, RemoveFirstFacts
  <2>3. w \in Awake /\ Awake' = Awake \ {w}
    BY <1>6, <1>t DEF TakeRequest, Awake
  <2>4. Cardinality(Awake') = Cardinality(Awake) - 1
    BY <2>3, AwakeFinite, SizeRemove
  <2>5. (\E v \in Workers : wpc'[v] = "wait") => Len(pending) <= Cardinality(Awake)
    BY <1>6, <1>t DEF TakeRequest, NoLostWakeup, Awake, getQsize
  <2>6. Cardinality(Awake) \in Nat
    BY AwakeFinite
  <2> QED BY <1>n, <1>t, <2>2, <2>4, <2>5, <2>6
<1>7. ASSUME UNCHANGED pending, NEW w \in Workers, NEW s, s # "wait",
             wpc' = [wpc EXCEPT ![w] = s],
             w \in Awake => s \in {"lock", "woken", "test"}
      PROVE  NoLostWakeup'
  BY <1>7, <1>t, WakeupMonotone DEF Awake
<1>8. ASSUME NEW w \in Workers, WorkerLock(w) PROVE NoLostWakeup'
  BY Zenon, <1>7, <1>8 DEF WorkerLock
<1>9. ASSUME NEW w \in Workers, WorkerSpurious(w) PROVE NoLostWakeup'
  BY Zenon, <1>7, <1>9 DEF WorkerSpurious
<1>10. ASSUME NEW w \in Workers, NEW kind \in Kinds, requestHandle(w, kind)
       PROVE  NoLostWakeup'
  BY Zenon, <1>7, <1>10 DEF requestHandle, Awake
<1>11. ASSUME NEW w \in Workers,
              CloseConnection(w) \/ WorkerLockAgain(w) \/ FinishRequest(w)
       PROVE  NoLostWakeup'
  BY <1>7, <1>11 DEF CloseConnection, WorkerLockAgain, FinishRequest, Awake
<1>12. CASE UNCHANGED <<pending, wpc>>
  BY <1>2, <1>12, <1>t
<1> QED
  BY <1>1, <1>3, <1>4, <1>5, <1>6, <1>8, <1>9, <1>10, <1>11, <1>12
     DEF Next, MainStep, WorkerStep, Accept, MainLock, MainRelock,
         WaitForRoom, Refuse, RandomStart, MainSpurious, workerVars, vars

(* A worker asleep on no_waiting_reqs is never needed: enough others are   *)
(* on their way to take every pending request.                             *)
THEOREM WorkersNotStranded == Spec => []NoLostWakeup
<1>1. Init => NoLostWakeup
  BY DEF Init, NoLostWakeup
<1> QED BY <1>1, WakeupStep, TypeCorrect, PTL DEF Spec

-----------------------------------------------------------------------------
(* What the steps do to the connections. *)

(* A worker in a request has not closed it, one that has not closed it     *)
(* serves.                                                                 *)
LEMMA SetsNested == Handling \subseteq Unclosed /\ Unclosed \subseteq Serv /\ Serv \subseteq Workers
BY DEF Handling, Unclosed, Serv, InService

(* The sets of workers are functions of wpc. *)
LEMMA SetsSame ==
    ASSUME wpc' = wpc PROVE Handling' = Handling /\ Unclosed' = Unclosed /\ Serv' = Serv
BY DEF Handling, Unclosed, Serv, InService

(* What a worker's move does to the sets of workers. *)
LEMMA MoveWorker ==
    ASSUME TypeOK, NEW w \in Workers, NEW s, Moves(w, s)
    PROVE  /\ Handling' = IF s = "handle" THEN Handling \cup {w} ELSE Handling \ {w}
           /\ Unclosed' = IF s \in {"handle", "close"} THEN Unclosed \cup {w} ELSE Unclosed \ {w}
           /\ Serv' = IF s \in {"handle", "close", "closed", "remove"}
                      THEN Serv \cup {w} ELSE Serv \ {w}
<1>1. wpc'[w] = s /\ \A v \in Workers : v # w => wpc'[v] = wpc[v]
  BY DEF TypeOK, Moves
<1>2. Handling' = IF s = "handle" THEN Handling \cup {w} ELSE Handling \ {w}
  BY <1>1 DEF Handling
<1>3. Unclosed' = IF s \in {"handle", "close"} THEN Unclosed \cup {w} ELSE Unclosed \ {w}
  BY <1>1 DEF Unclosed
<1>4. Serv' = IF s \in {"handle", "close", "closed", "remove"}
              THEN Serv \cup {w} ELSE Serv \ {w}
  BY <1>1 DEF Serv, InService
<1> QED BY <1>2, <1>3, <1>4

(* Only "random" gets to the loop of its drops, and the policy stays. *)
LEMMA RandomStep == RandomInv /\ [Next]_vars => RandomInv' /\ policy' = policy
<1> SUFFICES ASSUME RandomInv, [Next]_vars PROVE RandomInv' /\ policy' = policy
  OBVIOUS
<1>1. CASE Accept \/ MainStep \/ MainSpurious \/ UNCHANGED vars
  BY <1>1 DEF RandomInv, Accept, MainStep, MainSpurious, MainLock, MainRelock, Admit,
              WaitForRoom, Refuse, DropHead, RandomStart, RandomDrop, vars
<1>2. ASSUME NEW w \in Workers, WorkerStep(w) \/ WorkerSpurious(w)
      PROVE  policy' = policy /\ (mpc' = "random" => mpc = "random")
  BY Zenon, <1>2 DEF WorkerStep, WorkerSpurious, WorkerLock, WaitForRequest, TakeRequest,
              requestHandle, CloseConnection, WorkerLockAgain, FinishRequest,
              signal_no_empty_threads, mainVars
<1> QED BY <1>1, <1>2 DEF Next, RandomInv

(* Steps of main, and of the kernel, on connections. *)
LEMMA MainEffects ==
    ASSUME TypeOK, CapacityInv, RandomInv, Accept \/ MainStep \/ MainSpurious
    PROVE  ConnStep
<1>t. pending \in Seq(Request) /\ Len(pending) \in Nat
  BY SeqLen DEF TypeOK
<1>1. CASE Accept
  <2>1. SameWorkers /\ pending' = pending /\ reply' = reply
    BY <1>1, SetsSame DEF Accept, workerVars, SameWorkers
  <2>2. PICK fd \in Fds :
          /\ fdtab[fd] = NoConn /\ fdtab' = [fdtab EXCEPT ![fd] = arrived + 1]
          /\ hold' = [data |-> fd, time |-> arrived + 1]
    BY Zenon, <1>1 DEF Accept
  <2>3. ~Holding /\ Holding' /\ arrived < MaxConns /\ arrived' = arrived + 1
    BY <1>1 DEF Accept, Holding
  <2>4. Opens(fd)
    BY <2>1, <2>2, <2>3 DEF Opens
  <2> QED BY <2>4 DEF ConnStep
<1>2. CASE Admit
  <2>1. /\ Holding /\ ~Holding' /\ hold' = NoRequest /\ arrived' = arrived
        /\ fdtab' = fdtab /\ reply' = reply /\ job' = job
    BY <1>2 DEF Admit, Admitting, Holding
  <2>2. ~Full
    <3>1. CASE mpc = "random" /\ (delete = 0 \/ isQempty(pending))
      <4>1. delete \in Nat /\ delete <= Len(pending) /\ (delete = 0 => ~Full)
        BY <3>1 DEF CapacityInv, RoomBeforeInsert, TypeOK, getQsize
      <4> QED BY <3>1, <4>1 DEF isQempty
    <3>2. CASE mpc = "insert"
      BY <3>2 DEF CapacityInv, RoomBeforeInsert
    <3> QED BY <1>2, <3>1, <3>2 DEF Admit, Admitting
  <2>3. Len(pending) # MaxTasks
    <3>1. busy \in Seq(BusyRequest) /\ Len(busy) \in Nat
      BY SeqLen DEF TypeOK, BusyRequest
    <3> QED BY <1>t, <2>2, <3>1 DEF Full, getQsize
  <2>4. pending' = Append(pending, hold)
    BY <1>2, <2>3 DEF Admit, insertReq, isQfull
  <2>5. Handling' = Handling /\ Unclosed' = Unclosed /\ Serv' = Serv
    <3>1. CASE wpc' = wpc
      BY <3>1, SetsSame
    <3>2. ASSUME NEW w \in Workers, wpc[w] = "wait", wpc' = [wpc EXCEPT ![w] = "woken"]
          PROVE  Handling' = Handling /\ Unclosed' = Unclosed /\ Serv' = Serv
      <4>0. Moves(w, "woken")
        BY <3>2 DEF Moves
      <4>1. w \notin Handling /\ w \notin Unclosed /\ w \notin Serv
        BY <3>2 DEF Handling, Unclosed, Serv, InService
      <4>2. Handling' = Handling \ {w} /\ Unclosed' = Unclosed \ {w} /\ Serv' = Serv \ {w}
        BY <4>0, MoveWorker
      <4> QED BY <4>1, <4>2
    <3>3. \/ wpc' = wpc
          \/ \E w \in Workers : wpc[w] = "wait" /\ wpc' = [wpc EXCEPT ![w] = "woken"]
      BY <1>2 DEF Admit, signal_no_waiting_reqs
    <3> QED BY <3>1, <3>2, <3>3
  <2>6. Admits
    BY <2>1, <2>2, <2>4, <2>5 DEF Admits, SameWorkers
  <2> QED BY <2>6 DEF ConnStep
<1>3. CASE Refuse
  <2>1. /\ Holding /\ ~Holding' /\ hold' = NoRequest /\ close(hold.data)
        /\ arrived' = arrived /\ pending' = pending /\ reply' = reply
    BY <1>3 DEF Refuse, Refusing, Holding, workerVars
  <2>2. SameWorkers
    BY <1>3, SetsSame DEF Refuse, workerVars, SameWorkers
  <2>3. MayRefuse
    BY <1>3 DEF Refuse, Refusing, MayRefuse, isQempty
  <2>4. Refuses
    BY <2>1, <2>2, <2>3 DEF Refuses
  <2> QED BY <2>4 DEF ConnStep
<1>4. CASE DropHead
  <2>1. /\ Holding /\ Holding' /\ hold' = hold /\ arrived' = arrived /\ reply' = reply
        /\ ~isQempty(pending) /\ pending' = removeFirstReq(pending)
        /\ close(Head(pending).data)
    BY <1>4 DEF DropHead, Holding, workerVars
  <2>2. SameWorkers
    BY <1>4, SetsSame DEF DropHead, workerVars, SameWorkers
  <2>3. MayDrop(1)
    BY <1>4 DEF DropHead, MayDrop
  <2>4. /\ Head(pending) = pending[1] /\ pending' \in Seq(Request)
        /\ Len(pending') = Len(pending) - 1
        /\ \A i \in 1..(Len(pending) - 1) : pending'[i] = pending[i + 1]
    BY <1>t, <2>1, RemoveFirstFacts
  <2>5. Without(pending', pending, Len(pending), 1)
    BY <1>t, <2>4 DEF Without
  <2>6. 1 \in 1..Len(pending)
    BY <1>t, <2>1 DEF isQempty
  <2>7. Drops(1)
    BY <2>1, <2>2, <2>3, <2>4, <2>5 DEF Drops
  <2> QED BY <2>6, <2>7 DEF ConnStep
<1>5. CASE RandomDrop
  <2>1. Holding /\ Holding' /\ hold' = hold /\ arrived' = arrived /\ reply' = reply
    BY <1>5 DEF RandomDrop, Holding, workerVars
  <2>2. SameWorkers
    BY <1>5, SetsSame DEF RandomDrop, workerVars, SameWorkers
  <2>3. PICK index \in 0..(Len(pending) - 1) :
          close(pending[index + 1].data) /\ pending' = removeReq(pending, index)
    BY <1>5 DEF RandomDrop, getQsize
  <2>4. index \in Int /\ index + 1 \in 1..Len(pending)
    BY <1>t
  <2>5. /\ pending' \in Seq(Request) /\ Len(pending') = Len(pending) - 1
        /\ \A i \in 1..(Len(pending) - 1) :
              pending'[i] = IF i <= index THEN pending[i] ELSE pending[i + 1]
    BY Zenon, <1>t, <2>3, <2>4, RemoveReqFacts
  <2>6. Without(pending', pending, Len(pending), index + 1)
    <3>1. \A i \in 1..(Len(pending) - 1) : (i <= index) = (i < index + 1)
      BY <2>4
    <3> QED BY <2>5, <3>1 DEF Without
  <2>7. MayDrop(index + 1)
    <3>1. policy = "random"
      BY <1>5 DEF RandomDrop, RandomInv
    <3> QED BY <3>1 DEF MayDrop
  <2>8. Drops(index + 1)
    BY <2>1, <2>2, <2>3, <2>5, <2>6, <2>7 DEF Drops
  <2> QED BY <2>4, <2>8 DEF ConnStep
<1>6. CASE MainLock \/ MainRelock \/ WaitForRoom \/ RandomStart \/ MainSpurious
  <2>1. /\ Holding' = Holding /\ hold' = hold /\ pending' = pending
        /\ arrived' = arrived /\ fdtab' = fdtab /\ reply' = reply
    BY <1>6 DEF MainLock, MainRelock, WaitForRoom, RandomStart, MainSpurious, Holding,
                workerVars
  <2>2. wpc' = wpc /\ job' = job
    BY <1>6 DEF MainLock, MainRelock, WaitForRoom, RandomStart, MainSpurious, workerVars
  <2>3. SameWorkers
    BY <2>2, SetsSame DEF SameWorkers
  <2> QED BY <2>1, <2>3 DEF Keeps, ConnStep
<1> QED BY <1>1, <1>2, <1>3, <1>4, <1>5, <1>6 DEF MainStep

(* Steps of the workers on connections. *)
LEMMA WorkerEffects ==
    ASSUME TypeOK, NEW w \in Workers, WorkerStep(w) \/ WorkerSpurious(w)
    PROVE  ConnStep
<1>t. pending \in Seq(Request) /\ Len(pending) \in Nat /\ DOMAIN job = Workers
  BY SeqLen DEF TypeOK
<1>m. wpc[w] \in {"lock", "wait", "woken", "test"} =>
         w \notin Handling /\ w \notin Unclosed /\ w \notin Serv
  BY DEF Handling, Unclosed, Serv, InService
<1>1. ASSUME WorkerSpurious(w) \/ WorkerLock(w) \/ WaitForRequest(w)
      PROVE  ConnStep
  <2>1. /\ Holding' = Holding /\ hold' = hold /\ pending' = pending /\ job' = job
        /\ arrived' = arrived /\ fdtab' = fdtab /\ reply' = reply
    BY <1>1 DEF WorkerSpurious, WorkerLock, WaitForRequest, mainVars, Holding
  <2>2. wpc[w] \in {"lock", "wait", "woken", "test"}
    BY <1>1 DEF WorkerSpurious, WorkerLock, WaitForRequest
  <2>3. Moves(w, "woken") \/ Moves(w, "test") \/ Moves(w, "wait")
    BY <1>1 DEF WorkerSpurious, WorkerLock, WaitForRequest, Moves
  <2>4. Handling' = Handling \ {w} /\ Unclosed' = Unclosed \ {w} /\ Serv' = Serv \ {w}
    BY <2>3, MoveWorker
  <2>5. SameWorkers
    BY <1>m, <2>1, <2>2, <2>4 DEF SameWorkers
  <2> QED BY <2>1, <2>5 DEF Keeps, ConnStep
<1>2. CASE TakeRequest(w)
  <2>1. /\ Holding' = Holding /\ hold' = hold /\ ~isQempty(pending)
        /\ pending' = removeFirstReq(pending) /\ job' = [job EXCEPT ![w] = Head(pending)]
        /\ arrived' = arrived /\ fdtab' = fdtab /\ reply' = reply
    BY <1>2 DEF TakeRequest, mainVars, Holding
  <2>2. w \notin Serv /\ Moves(w, "handle")
    BY <1>2, <1>m DEF TakeRequest, Moves
  <2>3. /\ Handling' = Handling \cup {w} /\ Unclosed' = Unclosed \cup {w}
        /\ Serv' = Serv \cup {w}
    BY <2>2, MoveWorker
  <2>4. /\ Head(pending) = pending[1] /\ Len(pending') = Len(pending) - 1
        /\ \A i \in 1..(Len(pending) - 1) : pending'[i] = pending[i + 1]
    BY <1>t, <2>1, RemoveFirstFacts
  <2>5. Len(pending) # 0 /\ pending' = Tail(pending)
    BY <2>1 DEF isQempty, removeFirstReq
  <2>6. job'[w] = pending[1] /\ \A v \in Serv : job'[v] = job[v]
    <3>1. job'[w] = pending[1] /\ \A v \in Workers : v # w => job'[v] = job[v]
      BY <1>t, <2>1, <2>4
    <3> QED BY <2>2, <3>1, SetsNested
  <2>7. Without(pending', pending, Len(pending), 1)
    BY <1>t, <2>4 DEF Without
  <2>8. Takes(w)
    BY <2>1, <2>2, <2>3, <2>4, <2>5, <2>6, <2>7 DEF Takes
  <2> QED BY <2>8 DEF ConnStep
<1>3. ASSUME NEW kind \in Kinds, requestHandle(w, kind) PROVE ConnStep
  <2>1. /\ Holding' = Holding /\ hold' = hold /\ pending' = pending /\ job' = job
        /\ arrived' = arrived /\ fdtab' = fdtab
    BY <1>3 DEF requestHandle, mainVars, Holding
  <2>2. w \in Handling /\ Moves(w, "close")
    BY <1>3 DEF requestHandle, Handling, Moves
  <2>3. Handling' = Handling \ {w} /\ Unclosed' = Unclosed /\ Serv' = Serv
    <3>1. /\ Handling' = Handling \ {w} /\ Unclosed' = Unclosed \cup {w}
          /\ Serv' = Serv \cup {w}
      BY <2>2, MoveWorker
    <3> QED BY <2>2, <3>1, SetsNested
  <2>4. job[w] \in Request /\ reqid[w] \in Workers /\ DOMAIN reply = Conns
    BY <2>2 DEF Handling, TypeOK, InService
  <2>5. job[w].time \in Conns
    BY <2>4 DEF Request
  <2>6. PICK r : r.thread = reqid[w] /\ reply' = [reply EXCEPT ![job[w].time] = r]
    <3> DEFINE c == [all  |-> cnt[reqid[w]].all + 1,
                     stat |-> cnt[reqid[w]].stat + (IF kind = "static" THEN 1 ELSE 0),
                     dyn  |-> cnt[reqid[w]].dyn + (IF kind = "dynamic" THEN 1 ELSE 0)]
               r == [thread |-> reqid[w], all |-> c.all, stat |-> c.stat, dyn |-> c.dyn]
    <3>1. reply' = [reply EXCEPT ![job[w].time] = r]
      BY <1>3 DEF requestHandle
    <3>2. r.thread = reqid[w]
      OBVIOUS
    <3> QED BY Zenon, <3>1, <3>2
  <2>7. r # NoReply
    BY <2>4, <2>6, WorkersAreNumbers DEF NoReply
  <2>8. /\ reply'[job[w].time] # NoReply
        /\ \A c \in Conns : c # job[w].time => reply'[c] = reply[c]
    BY <2>4, <2>5, <2>6, <2>7
  <2>9. Answers(w)
    BY <2>1, <2>2, <2>3, <2>8 DEF Answers
  <2> QED BY <2>9 DEF ConnStep
<1>4. CASE CloseConnection(w)
  <2>1. /\ Holding' = Holding /\ hold' = hold /\ pending' = pending /\ job' = job
        /\ arrived' = arrived /\ reply' = reply /\ close(job[w].data)
    BY <1>4 DEF CloseConnection, mainVars, Holding
  <2>2. w \in Unclosed /\ w \notin Handling /\ Moves(w, "closed")
    BY <1>4 DEF CloseConnection, Handling, Unclosed, Moves
  <2>3. /\ Handling' = Handling \ {w} /\ Unclosed' = Unclosed \ {w}
        /\ Serv' = Serv \cup {w}
    BY <2>2, MoveWorker
  <2>4. Handling' = Handling /\ Serv' = Serv
    BY <2>2, <2>3, SetsNested
  <2>5. Closes(w)
    BY <2>1, <2>2, <2>3, <2>4 DEF Closes
  <2> QED BY <2>5 DEF ConnStep
<1>5. CASE WorkerLockAgain(w)
  <2>1. /\ Holding' = Holding /\ hold' = hold /\ pending' = pending /\ job' = job
        /\ arrived' = arrived /\ fdtab' = fdtab /\ reply' = reply
    BY <1>5 DEF WorkerLockAgain, mainVars, Holding
  <2>2. w \in Serv /\ w \notin Unclosed /\ w \notin Handling /\ Moves(w, "remove")
    BY <1>5 DEF WorkerLockAgain, Handling, Unclosed, Serv, InService, Moves
  <2>3. /\ Handling' = Handling \ {w} /\ Unclosed' = Unclosed \ {w}
        /\ Serv' = Serv \cup {w}
    BY <2>2, MoveWorker
  <2>4. SameWorkers
    BY <2>1, <2>2, <2>3 DEF SameWorkers
  <2> QED BY <2>1, <2>4 DEF Keeps, ConnStep
<1>6. CASE FinishRequest(w)
  <2>1. /\ hold' = hold /\ pending' = pending /\ job' = [job EXCEPT ![w] = NoRequest]
        /\ arrived' = arrived /\ fdtab' = fdtab /\ reply' = reply
    BY <1>6 DEF FinishRequest
  <2>2. Holding' = Holding
    BY <1>6 DEF FinishRequest, signal_no_empty_threads, Holding
  <2>3. w \in Serv /\ w \notin Unclosed /\ w \notin Handling /\ Moves(w, "lock")
    BY <1>6 DEF FinishRequest, Handling, Unclosed, Serv, InService, Moves
  <2>4. Handling' = Handling \ {w} /\ Unclosed' = Unclosed \ {w} /\ Serv' = Serv \ {w}
    BY <2>3, MoveWorker
  <2>5. \A v \in Serv : v # w => job'[v] = job[v]
    BY <1>t, <2>1, SetsNested
  <2>6. Handling' = Handling /\ Unclosed' = Unclosed
    BY <2>3, <2>4
  <2>7. Finishes(w)
    BY <2>1, <2>2, <2>3, <2>4, <2>5, <2>6 DEF Finishes
  <2> QED BY <2>7 DEF ConnStep
<1> QED BY <1>1, <1>2, <1>3, <1>4, <1>5, <1>6 DEF WorkerStep

(* Every step does one of the things ConnStep lists to the connections. *)
LEMMA EveryStepIsConnStep ==
    TypeOK /\ CapacityInv /\ RandomInv /\ [Next]_vars => ConnStep
<1> SUFFICES ASSUME TypeOK, CapacityInv, RandomInv, [Next]_vars PROVE ConnStep
  OBVIOUS
<1>1. CASE Accept \/ MainStep \/ MainSpurious
  BY <1>1, MainEffects
<1>2. ASSUME NEW w \in Workers, WorkerStep(w) \/ WorkerSpurious(w) PROVE ConnStep
  BY <1>2, WorkerEffects
<1>3. CASE UNCHANGED vars
  <2>1. /\ Holding' = Holding /\ hold' = hold /\ pending' = pending
        /\ arrived' = arrived /\ fdtab' = fdtab /\ reply' = reply
    BY <1>3 DEF vars, Holding
  <2>2. SameWorkers
    BY <1>3, SetsSame DEF vars, SameWorkers
  <2> QED BY <2>1, <2>2 DEF Keeps, ConnStep
<1> QED BY <1>1, <1>2, <1>3 DEF Next
=============================================================================
