---------------------------- MODULE ServerTerms -----------------------------
(***************************************************************************)
(* The terms that the proofs about Server are written in: its queues, jobs *)
(* and descriptors as plain functions and sets, what a step can do to a    *)
(* connection, and the inductive invariants.                               *)
(***************************************************************************)
EXTENDS Server

(* Finite sets. *)

(* f numbers the elements of S from 1 to n. *)
Numbers(f, S, n) ==
    /\ f \in [1..n -> S]
    /\ \A i, j \in 1..n : f[i] = f[j] => i = j
    /\ \A x \in S : \E i \in 1..n : f[i] = x

(* S has n elements. *)
HasSize(S, n) == n \in Nat /\ \E f : Numbers(f, S, n)

(* S is finite. *)
Finite(S) == \E n : HasSize(S, n)

BusyRequest == [data : Fds, time : {NoConn}]

(* The strengthening of QueueBound: while main holds the mutex on its way  *)
(* from a drop to insertReq nobody else changes the queues, so the room it *)
(* has made is still there.                                                *)
CapacityInv == QueueBound /\ RoomBeforeInsert

(* The inductive form of BusyMatchesWorkers: busy_threads is matched, one  *)
(* to one, with the workers in service.  The entry matched with a worker   *)
(* has its descriptor but need not be the one it inserted: after a number  *)
(* has been reused, a worker may remove the other one's entry.             *)
IsMatch(g, W, j, q) ==
    /\ g \in [W -> 1..Len(q)]
    /\ \A u, v \in W : g[u] = g[v] => u = v
    /\ \A i \in 1..Len(q) : \E v \in W : g[v] = i
    /\ \A v \in W : q[g[v]].data = j[v].data

Match(W, j, q) == \E g : IsMatch(g, W, j, q)

Serv == {w \in Workers : InService(w)}

BusyMatched == Match(Serv, job, busy)

SameJobs(W, k, j) == \A v \in W : k[v] = j[v]

(* The workers on their way to the queue of pending requests. *)
Awake == {w \in Workers : wpc[w] \in {"lock", "woken", "test"}}

(* Who works on a connection.                                              *)

Holding == mpc # "accept"

Handling == {w \in Workers : wpc[w] = "handle"}

Unclosed == {w \in Workers : wpc[w] \in {"handle", "close"}}

(* Queues, as functions on 1..n.                                           *)

(* p has the elements of q, of length n, except the one at k. *)
Without(p, q, n, k) ==
    \A i \in 1..(n - 1) : p[i] = q[IF i < k THEN i ELSE i + 1]

Picks(p, q, n, k) ==
    /\ \A i \in 1..(n - 1) : \E m \in 1..n : m # k /\ p[i] = q[m]
    /\ \A i, l \in 1..(n - 1) :
          i # l => \E m, o \in 1..n : m # o /\ p[i] = q[m] /\ p[l] = q[o]
    /\ \A m \in 1..n : m # k => \E i \in 1..(n - 1) : p[i] = q[m]

(* The connections in hand: main's h when H, the n queued ones of q, those *)
(* of the workers S with the jobs j.  Nobody shares one, and they are      *)
(* among the first a that arrived.                                         *)

QueueApart(q, n, a) ==
    /\ \A i \in 1..n : q[i].time \in 1..a
    /\ \A i, k \in 1..n : q[i].time = q[k].time => i = k

JobsApart(S, j, a) ==
    /\ \A w \in S : j[w].time \in 1..a
    /\ \A v, w \in S : j[v].time = j[w].time => v = w

CrossApart(q, n, S, j) == \A i \in 1..n, w \in S : q[i].time # j[w].time

HeldApart(h, q, n, S, j, a) ==
    /\ h.time \in 1..a
    /\ \A i \in 1..n : q[i].time # h.time
    /\ \A w \in S : j[w].time # h.time

Apart(H, h, q, n, S, j, a) ==
    /\ QueueApart(q, n, a) /\ JobsApart(S, j, a) /\ CrossApart(q, n, S, j)
    /\ H => HeldApart(h, q, n, S, j, a)

(* The jobs i are the jobs j of S, and r for w. *)
Gains(i, j, S, w, r) == w \notin S /\ i[w] = r /\ \A v \in S : i[v] = j[v]

Fresh(r, H, h, q, n, S, j, a) ==
    /\ r.time \in 1..a
    /\ \A k \in 1..n : q[k].time # r.time
    /\ \A v \in S : r.time # j[v].time
    /\ H => r.time # h.time

(* The descriptor table T: each number an owner works on is backed by the  *)
(* connection it was accepted with, and every open number has an owner.    *)
(* The owners are main, the queue and the workers U that have not closed   *)
(* their connection.                                                       *)

Backed(r, T) == T[r.data] = r.time

AllBacked(H, h, q, n, U, j, T) ==
    /\ H => Backed(h, T)
    /\ \A i \in 1..n : Backed(q[i], T)
    /\ \A w \in U : Backed(j[w], T)

HasOwner(fd, H, h, q, n, U, j) ==
    \/ H /\ h.data = fd
    \/ \E i \in 1..n : q[i].data = fd
    \/ \E w \in U : j[w].data = fd

AllOwned(H, h, q, n, U, j, T) ==
    \A fd \in Fds : T[fd] # NoConn => HasOwner(fd, H, h, q, n, U, j)

Owned(H, h, q, n, U, j, T) ==
    AllBacked(H, h, q, n, U, j, T) /\ AllOwned(H, h, q, n, U, j, T)

(* The owners' requests are requests. *)
Typed(H, h, q, n, U, j) ==
    /\ H => h \in Request
    /\ \A i \in 1..n : q[i] \in Request
    /\ \A w \in U : j[w] \in Request

(* The nine things a step of the server can do to the connections.         *)

SameWorkers ==
    Handling' = Handling /\ Unclosed' = Unclosed /\ Serv' = Serv /\ job' = job

(* Accept. *)
Opens(fd) ==
    /\ ~Holding /\ Holding' /\ fdtab[fd] = NoConn /\ arrived < MaxConns
    /\ fdtab' = [fdtab EXCEPT ![fd] = arrived + 1]
    /\ hold' = [data |-> fd, time |-> arrived + 1] /\ arrived' = arrived + 1
    /\ pending' = pending /\ reply' = reply /\ SameWorkers

(* insertReq into pending_reqs. *)
Admits ==
    /\ Holding /\ ~Holding' /\ ~Full
    /\ pending' = Append(pending, hold) /\ hold' = NoRequest
    /\ arrived' = arrived /\ fdtab' = fdtab /\ reply' = reply /\ SameWorkers

MayRefuse ==
    \/ policy = "bf"
    \/ policy = "dt" /\ Full
    \/ policy \in {"dh", "random"} /\ Full /\ Len(pending) = 0

(* main closes the connection it has just accepted. *)
Refuses ==
    /\ Holding /\ ~Holding' /\ MayRefuse
    /\ close(hold.data) /\ hold' = NoRequest
    /\ arrived' = arrived /\ pending' = pending /\ reply' = reply /\ SameWorkers

MayDrop(k) ==
    \/ policy = "random"
    \/ policy = "dh" /\ Full /\ k = 1

(* main closes a pending connection. *)
Drops(k) ==
    /\ Holding /\ Holding' /\ MayDrop(k)
    /\ close(pending[k].data)
    /\ pending' \in Seq(Request) /\ Len(pending') = Len(pending) - 1
    /\ Without(pending', pending, Len(pending), k)
    /\ hold' = hold /\ arrived' = arrived /\ reply' = reply /\ SameWorkers

(* A worker takes the oldest pending connection. *)
Takes(w) ==
    /\ w \notin Serv /\ Len(pending) # 0 /\ Holding' = Holding
    /\ Handling' = Handling \cup {w} /\ Unclosed' = Unclosed \cup {w}
    /\ Serv' = Serv \cup {w}
    /\ job'[w] = pending[1] /\ \A v \in Serv : job'[v] = job[v]
    /\ pending' = Tail(pending) /\ Len(pending') = Len(pending) - 1
    /\ Without(pending', pending, Len(pending), 1)
    /\ hold' = hold /\ arrived' = arrived /\ fdtab' = fdtab /\ reply' = reply

(* requestHandle. *)
Answers(w) ==
    /\ w \in Handling /\ Holding' = Holding
    /\ Handling' = Handling \ {w} /\ Unclosed' = Unclosed /\ Serv' = Serv
    /\ reply'[job[w].time] # NoReply
    /\ \A c \in Conns : c # job[w].time => reply'[c] = reply[c]
    /\ pending' = pending /\ hold' = hold /\ job' = job
    /\ arrived' = arrived /\ fdtab' = fdtab

(* A worker closes its connection. *)
Closes(w) ==
    /\ w \in Unclosed /\ Holding' = Holding
    /\ close(job[w].data)
    /\ Handling' = Handling /\ Unclosed' = Unclosed \ {w} /\ Serv' = Serv
    /\ pending' = pending /\ hold' = hold /\ job' = job
    /\ arrived' = arrived /\ reply' = reply

(* A worker gives its place in busy_threads back. *)
Finishes(w) ==
    /\ w \in Serv /\ w \notin Unclosed /\ Holding' = Holding
    /\ Handling' = Handling /\ Unclosed' = Unclosed /\ Serv' = Serv \ {w}
    /\ \A v \in Serv : v # w => job'[v] = job[v]
    /\ pending' = pending /\ hold' = hold
    /\ arrived' = arrived /\ fdtab' = fdtab /\ reply' = reply

Keeps ==
    /\ Holding' = Holding /\ hold' = hold /\ pending' = pending
    /\ arrived' = arrived /\ fdtab' = fdtab /\ reply' = reply /\ SameWorkers

ConnStep ==
    \/ \E fd \in Fds : Opens(fd)
    \/ Admits \/ Refuses
    \/ \E k \in 1..Len(pending) : Drops(k)
    \/ \E w \in Workers : Takes(w) \/ Answers(w) \/ Closes(w) \/ Finishes(w)
    \/ Keeps

Moves(w, s) == wpc' = [wpc EXCEPT ![w] = s]

(* Only "random" gets to the loop of lines 163-176. *)
RandomInv == mpc = "random" => policy = "random"

(* The inductive invariant. *)

(* No two parties work on the same connection. *)
ApartInv == Apart(Holding, hold, pending, Len(pending), Serv, job, arrived)

OwnedInv == Owned(Holding, hold, pending, Len(pending), Unclosed, job, fdtab)

(* The replies R: nothing is answered on a connection before requestHandle, *)
(* something after it.                                                      *)
Replies(H, h, q, n, D, S, j, R, a) ==
    /\ H => R[h.time] = NoReply
    /\ \A i \in 1..n : R[q[i].time] = NoReply
    /\ \A w \in D : R[j[w].time] = NoReply
    /\ \A w \in S : w \notin D => R[j[w].time] # NoReply
    /\ \A c \in Conns : c > a => R[c] = NoReply

RepliesInv ==
    Replies(Holding, hold, pending, Len(pending), Handling, Serv, job, reply, arrived)

HoldInv == ~Holding => hold = NoRequest

ConnInv == ApartInv /\ OwnedInv /\ RepliesInv /\ HoldInv

(* All that the theorems need to know of a reachable state. *)
ServerInv == TypeOK /\ CapacityInv /\ RandomInv /\ ConnInv /\ BusyMatched

(* The Stat-thread-* headers.                                              *)

(* What they are computed from: every thread keeps its own number, and     *)
(* counts a request at most once as static or dynamic.                     *)
CountersInv ==
    /\ \A w \in Workers : reqid[w] = w
    /\ \A w \in Workers : cnt[w].stat + cnt[w].dyn <= cnt[w].all

StatsInv == CountersInv /\ StatsPerThread

(* The part of StatsPerThread about the replies R and counters C of w. *)
HeadersOf(w, R, C) ==
    LET mine == {c \in Conns : R[c].thread = w} IN
    /\ {R[c].all : c \in mine} = 1..C[w].all
    /\ Cardinality(mine) = C[w].all
    /\ \A c \in mine : R[c].stat + R[c].dyn <= R[c].all

(* The refinement of AdmissionSpec.                                        *)

(* The connections behind the requests of a queue. *)
TimesOf(q) == [i \in 1..Len(q) |-> q[i].time]

(* Connection c is in somebody's hands. *)
In(c, h, q, n, S, j) ==
    \/ c = h.time
    \/ \E i \in 1..n : c = q[i].time
    \/ \E w \in S : c = j[w].time

(* The connections that have been dealt with, of the first a. *)
Disposed(a, h, q, n, S, j) == {c \in 1..a : ~In(c, h, q, n, S, j)}

(* The same ones as before, and one more. *)
SameDisposed(a, h, q, n, S, j, g, p, m, R, i) ==
    Disposed(a, g, p, m, R, i) = Disposed(a, h, q, n, S, j)

OneDisposed(x, a, h, q, n, S, j, g, p, m, R, i) ==
    Disposed(a, g, p, m, R, i) = Disposed(a, h, q, n, S, j) \cup {x}

Extends(p, q, n, r) == p[n + 1] = r /\ \A i \in 1..n : p[i] = q[i]

DisposedNow == Disposed(arrived, hold, pending, Len(pending), Serv, job)

Served == {c \in DisposedNow : reply[c] # NoReply}

Dropped == {c \in DisposedNow : reply[c] = NoReply}
=============================================================================
