------------------------------- MODULE Server -------------------------------
(***************************************************************************)
(* The multi-threaded web server of OS_HW3_234123/server.c: the main       *)
(* thread accepts connections and applies the overload policy, a fixed     *)
(* pool of workers serves them.  All of them share one mutex, two          *)
(* condition variables, the queue of pending requests and the queue of     *)
(* requests in service.                                                    *)
(*                                                                         *)
(* The program counters mpc (main) and wpc (workers) stand for the points  *)
(* between the calls another thread can see.  A thread in pthread_cond_wait *)
(* is at "wait"; a signal, or a spurious wakeup, moves it to "woken", where *)
(* it competes for the mutex again.                                        *)
(***************************************************************************)
EXTENDS ReqSeq, FiniteSets

CONSTANTS
    MaxThreads, \* max_threads, the size of the pool
    Fds,        \* the descriptor numbers the kernel can hand out
    MaxTasks,   \* max_tasks, the queue size of the command line
    MaxConns,   \* bound: the connections that arrive in a behaviour
    Policies,   \* the overload policies considered
    Kinds       \* the outcomes of requestHandle considered

ASSUME ServerAssumption ==
    /\ MaxThreads \in Nat \ {0} /\ MaxTasks \in Nat \ {0} /\ MaxConns \in Nat
    /\ -1 \notin Fds
    /\ Policies \subseteq {"block", "dt", "dh", "bf", "random"}
    /\ Kinds \subseteq {"static", "dynamic", "error"}

VARIABLES
    policy,   \* the policy of the command line
    pending,  \* pending_reqs
    busy,     \* busy_threads
    mutex,    \* the owner of m
    mpc,      \* where the main thread is
    hold,     \* the connection main has accepted and not yet disposed of
    delete,   \* the removals main still has to make under "random"
    wpc,      \* where each worker is
    reqid,    \* the variable of that name in each worker, its thread number
    job,      \* the request each worker has taken off pending_reqs
    fdtab,    \* the kernel's descriptor table: the connection behind a number
    arrived,  \* the number of connections accepted so far
    cnt,      \* allReqs_cnt, statReqs_cnt and dynReqs_cnt, by thread
    reply     \* the Stat-thread-* headers sent on each connection

mainVars == <<mpc, hold, delete, arrived>>
workerVars == <<wpc, reqid, job, cnt, reply>>
vars == <<policy, pending, busy, mutex, mpc, hold, delete, wpc, reqid, job,
          fdtab, arrived, cnt, reply>>

Workers == 0..(MaxThreads - 1)   \* the threads running handle_reqs
Main == -1                       \* the main thread, as an owner of m
Nobody == -2                     \* the owner of a free m
Conns == 1..MaxConns
NoConn == 0
NoFd == -1
Request == [data : Fds, time : Conns]
NoRequest == [data |-> NoFd, time |-> NoConn]
NoReply == [thread |-> Nobody, all |-> 0, stat |-> 0, dyn |-> 0]

-----------------------------------------------------------------------------
(* Helpers. *)

(* getQsize(pending_reqs) + getQsize(busy_threads) >= max_tasks *)
Full == getQsize(pending) + getQsize(busy) >= MaxTasks

lock(t) == mutex = Nobody /\ mutex' = t

unlock == mutex' = Nobody

(* A close that is forgotten (mutation). *)
closeForgotten(fd) == UNCHANGED fdtab

(* close: the kernel forgets what the number referred to. *)
close(fd) == fdtab' = [fdtab EXCEPT ![fd] = NoConn]

(* pthread_cond_signal(&no_waiting_reqs) that wakes nobody (mutation). *)
signalLost == UNCHANGED wpc

(* pthread_cond_signal(&no_waiting_reqs): wakes one waiting worker, if any. *)
signal_no_waiting_reqs ==
    \/ /\ \E w \in Workers : wpc[w] = "wait"
       /\ \E w \in {v \in Workers : wpc[v] = "wait"} :
             wpc' = [wpc EXCEPT ![w] = "woken"]
    \/ /\ ~ \E w \in Workers : wpc[w] = "wait"
       /\ UNCHANGED wpc

(* pthread_cond_signal(&no_empty_threads) left out (mutation). *)
signalNobody == UNCHANGED mpc

(* pthread_cond_signal(&no_empty_threads): only main waits on it. *)
signal_no_empty_threads == mpc' = IF mpc = "wait" THEN "woken" ELSE mpc

-----------------------------------------------------------------------------
(* Threads numbered from 1 (mutation). *)
ThreadNumberFromOne(w) == w + 1

(* The argument that main passes to the w-th thread. *)
ThreadNumber(w) == w

(* main: queues and counters empty, the pool created, listening. *)
Init ==
    /\ policy \in Policies
    /\ pending = << >> /\ busy = << >>
    /\ mutex = Nobody
    /\ mpc = "accept" /\ hold = NoRequest /\ delete = 0 /\ arrived = 0
    /\ wpc = [w \in Workers |-> "lock"]
    /\ reqid = [w \in Workers |-> ThreadNumber(w)]
    /\ job = [w \in Workers |-> NoRequest]
    /\ fdtab = [f \in Fds |-> NoConn]
    /\ cnt = [w \in Workers |-> [all |-> 0, stat |-> 0, dyn |-> 0]]
    /\ reply = [c \in Conns |-> NoReply]

(* Accept: the kernel picks a number that is not in use.  It may be one    *)
(* that a worker has just closed.                                          *)
Accept ==
    /\ mpc = "accept" /\ arrived < MaxConns
    /\ \E fd \in Fds :
          /\ fdtab[fd] = NoConn
          /\ fdtab' = [fdtab EXCEPT ![fd] = arrived + 1]
          /\ hold' = [data |-> fd, time |-> arrived + 1]
    /\ arrived' = arrived + 1
    /\ mpc' = "lock"
    /\ UNCHANGED <<policy, pending, busy, mutex, delete, workerVars>>

MainLock ==
    /\ mpc = "lock" /\ lock(Main)
    /\ mpc' = "check"
    /\ UNCHANGED <<policy, pending, busy, hold, delete, arrived, fdtab,
                   workerVars>>

(* Return from pthread_cond_wait: the mutex is taken again and the loop    *)
(* around the wait is at its test.                                         *)
MainRelock ==
    /\ mpc = "woken" /\ lock(Main)
    /\ mpc' = "recheck"
    /\ UNCHANGED <<policy, pending, busy, hold, delete, arrived, fdtab,
                   workerVars>>

(* Main reaches insertReq: there is room, or a wait or a drop made room. *)
Admitting ==
    \/ mpc = "check" /\ ~Full
    \/ mpc = "recheck" /\ policy = "block" /\ ~Full
    \/ mpc = "insert"
    \/ mpc = "random" /\ (delete = 0 \/ isQempty(pending))

Admit ==
    /\ Admitting
    /\ pending' = insertReq(pending, MaxTasks, hold)
    /\ signal_no_waiting_reqs
    /\ unlock
    /\ mpc' = "accept" /\ hold' = NoRequest /\ delete' = 0
    /\ UNCHANGED <<policy, busy, arrived, fdtab, reqid, job, cnt, reply>>

(* The loops of "block" and "bf" go to sleep on no_empty_threads. *)
WaitForRoom ==
    /\ mpc \in {"check", "recheck"} /\ Full
    /\ policy = "block" \/ (policy = "bf" /\ ~isQempty(busy))
    /\ unlock
    /\ mpc' = "wait"
    /\ UNCHANGED <<policy, pending, busy, hold, delete, arrived, fdtab,
                   workerVars>>

(* The new connection is closed: "dt" always, "dh" and "random" when only  *)
(* requests in service fill the server, "bf" when its loop ends.           *)
Refusing ==
    \/ /\ mpc = "check" /\ Full
       /\ \/ policy = "dt"
          \/ policy \in {"dh", "random"} /\ isQempty(pending)
          \/ policy = "bf" /\ isQempty(busy)
    \/ /\ mpc = "recheck" /\ policy = "bf"
       /\ ~Full \/ isQempty(busy)

Refuse ==
    /\ Refusing
    /\ close(hold.data)
    /\ unlock
    /\ mpc' = "accept" /\ hold' = NoRequest
    /\ UNCHANGED <<policy, pending, busy, delete, arrived, workerVars>>

(* "dh": the oldest pending request is dropped. *)
DropHead ==
    /\ mpc = "check" /\ Full /\ policy = "dh" /\ ~isQempty(pending)
    /\ close(Head(pending).data)
    /\ pending' = removeFirstReq(pending)
    /\ mpc' = "insert"
    /\ UNCHANGED <<policy, busy, mutex, hold, delete, arrived, workerVars>>

(* Half of the pending requests, rounded down instead of up (mutation). *)
HalfDown(n) == n \div 2

(* ceil(n * 0.5) *)
Half(n) == (n + 1) \div 2

RandomStart ==
    /\ mpc = "check" /\ Full /\ policy = "random" /\ ~isQempty(pending)
    /\ delete' = Half(getQsize(pending))
    /\ mpc' = "random"
    /\ UNCHANGED <<policy, pending, busy, mutex, hold, arrived, fdtab,
                   workerVars>>

(* One iteration: the request at rand() % size is dropped. *)
RandomDrop ==
    /\ mpc = "random" /\ delete > 0 /\ ~isQempty(pending)
    /\ \E index \in 0..(getQsize(pending) - 1) :
          /\ close(pending[index + 1].data)
          /\ pending' = removeReq(pending, index)
    /\ delete' = delete - 1
    /\ UNCHANGED <<policy, busy, mutex, mpc, hold, arrived, workerVars>>

(* pthread_cond_wait may return without a signal. *)
MainSpurious ==
    /\ mpc = "wait" /\ mpc' = "woken"
    /\ UNCHANGED <<policy, pending, busy, mutex, hold, delete, arrived, fdtab,
                   workerVars>>

-----------------------------------------------------------------------------
(* handle_reqs, one worker. *)

WorkerSpurious(w) ==
    /\ wpc[w] = "wait" /\ wpc' = [wpc EXCEPT ![w] = "woken"]
    /\ UNCHANGED <<policy, pending, busy, mutex, mainVars, reqid, job, fdtab,
                   cnt, reply>>

WorkerLock(w) ==
    /\ wpc[w] \in {"lock", "woken"} /\ lock(w)
    /\ wpc' = [wpc EXCEPT ![w] = "test"]
    /\ UNCHANGED <<policy, pending, busy, mainVars, reqid, job, fdtab, cnt,
                   reply>>

WaitForRequest(w) ==
    /\ wpc[w] = "test" /\ isQempty(pending)
    /\ unlock
    /\ wpc' = [wpc EXCEPT ![w] = "wait"]
    /\ UNCHANGED <<policy, pending, busy, mainVars, reqid, job, fdtab, cnt,
                   reply>>

(* The oldest pending request moves to busy_threads.  The time written     *)
(* there is tt1, which nothing reads.                                      *)
TakeRequest(w) ==
    /\ wpc[w] = "test" /\ ~isQempty(pending)
    /\ job' = [job EXCEPT ![w] = Head(pending)]
    /\ pending' = removeFirstReq(pending)
    /\ busy' = insertReq(busy, MaxThreads,
                         [data |-> Head(pending).data, time |-> NoConn])
    /\ unlock
    /\ wpc' = [wpc EXCEPT ![w] = "handle"]
    /\ UNCHANGED <<policy, mainVars, reqid, fdtab, cnt, reply>>

(* requestHandle: every request counts, only valid ones count as static or *)
(* dynamic, and the headers report the counters of the thread.             *)
requestHandle(w, kind) ==
    LET t == reqid[w]
        c == [all  |-> cnt[t].all + 1,
              stat |-> cnt[t].stat + (IF kind = "static" THEN 1 ELSE 0),
              dyn  |-> cnt[t].dyn + (IF kind = "dynamic" THEN 1 ELSE 0)]
    IN  /\ wpc[w] = "handle"
        /\ cnt' = [cnt EXCEPT ![t] = c]
        /\ reply' = [reply EXCEPT ![job[w].time] =
              [thread |-> t, all |-> c.all, stat |-> c.stat, dyn |-> c.dyn]]
        /\ wpc' = [wpc EXCEPT ![w] = "close"]
        /\ UNCHANGED <<policy, pending, busy, mutex, mainVars, reqid, job, fdtab>>

(* close(fd), outside the mutex: the number is free for the next Accept    *)
(* while busy_threads still holds it.                                      *)
CloseConnection(w) ==
    /\ wpc[w] = "close"
    /\ close(job[w].data)
    /\ wpc' = [wpc EXCEPT ![w] = "closed"]
    /\ UNCHANGED <<policy, pending, busy, mutex, mainVars, reqid, job, cnt,
                   reply>>

WorkerLockAgain(w) ==
    /\ wpc[w] = "closed" /\ lock(w)
    /\ wpc' = [wpc EXCEPT ![w] = "remove"]
    /\ UNCHANGED <<policy, pending, busy, mainVars, reqid, job, fdtab, cnt,
                   reply>>

(* The thread number if line 254 assigned to it (mutation). *)
reqidOverwritten(w) == [reqid EXCEPT ![w] = findFileId(busy, job[w].data)]

(* The `reqid' of line 254 is a new variable, local to the loop body: the  *)
(* thread number of line 224 keeps its value.                              *)
reqidShadowed(w) == reqid

(* The first entry of busy_threads with this descriptor goes. *)
FinishRequest(w) ==
    /\ wpc[w] = "remove"
    /\ busy' = removeReq(busy, findFileId(busy, job[w].data))
    /\ reqid' = reqidShadowed(w)
    /\ signal_no_empty_threads
    /\ unlock
    /\ job' = [job EXCEPT ![w] = NoRequest]
    /\ wpc' = [wpc EXCEPT ![w] = "lock"]
    /\ UNCHANGED <<policy, pending, hold, delete, arrived, fdtab, cnt, reply>>

-----------------------------------------------------------------------------
MainStep ==
    \/ MainLock \/ MainRelock \/ Admit \/ WaitForRoom \/ Refuse
    \/ DropHead \/ RandomStart \/ RandomDrop

WorkerStep(w) ==
    \/ WorkerLock(w) \/ WaitForRequest(w) \/ TakeRequest(w)
    \/ \E kind \in Kinds : requestHandle(w, kind)
    \/ CloseConnection(w) \/ WorkerLockAgain(w) \/ FinishRequest(w)

Next ==
    \/ Accept
    \/ MainStep
    \/ MainSpurious
    \/ \E w \in Workers : WorkerStep(w) \/ WorkerSpurious(w)

Spec == Init /\ [][Next]_vars

(* Every thread that can run does run, a request is handled in finite      *)
(* time, and a mutex that is released again and again is not withheld from *)
(* a thread for ever.  Connections and spurious wakeups need not happen.   *)
FairSpec ==
    /\ Spec
    /\ WF_vars(MainStep) /\ SF_vars(MainLock \/ MainRelock)
    /\ \A w \in Workers :
          WF_vars(WorkerStep(w)) /\ SF_vars(WorkerLock(w) \/ WorkerLockAgain(w))

-----------------------------------------------------------------------------
(* Properties. *)

InService(w) == wpc[w] \in {"handle", "close", "closed", "remove"}

(* Type invariant: queues of requests, known control points. *)
TypeOK ==
    /\ policy \in Policies
    /\ pending \in Seq(Request)
    /\ busy \in Seq([data : Fds, time : {NoConn}])
    /\ mutex \in Workers \cup {Main, Nobody}
    /\ mpc \in {"accept", "lock", "check", "recheck", "insert", "random",
                "wait", "woken"}
    /\ hold \in Request \cup {NoRequest}
    /\ mpc # "accept" => hold \in Request
    /\ delete \in Nat
    /\ wpc \in [Workers -> {"lock", "wait", "woken", "test", "handle", "close",
                            "closed", "remove"}]
    /\ reqid \in [Workers -> Workers]
    /\ job \in [Workers -> Request \cup {NoRequest}]
    /\ \A w \in Workers : InService(w) => job[w] \in Request
    /\ fdtab \in [Fds -> Conns \cup {NoConn}]
    /\ arrived \in 0..MaxConns
    /\ cnt \in [Workers -> [all : Nat, stat : Nat, dyn : Nat]]
    /\ reply \in [Conns -> [thread : Workers \cup {Nobody},
                            all : Nat, stat : Nat, dyn : Nat]]

(* Exactly the thread between a lock and an unlock owns m. *)
MutexHeld ==
    /\ mutex = Main <=> mpc \in {"check", "recheck", "insert", "random"}
    /\ \A w \in Workers : mutex = w <=> wpc[w] \in {"test", "remove"}

(* The requests pending and in service never exceed the queue size of the  *)
(* command line, although main's test (line 125), its waits, the drops of  *)
(* every policy and the workers' moves from one queue to the other         *)
(* interleave.                                                             *)
QueueBound == getQsize(pending) + getQsize(busy) <= MaxTasks

(* What makes QueueBound inductive: on the way from a drop to insertReq    *)
(* there is room, and "random" never has more to drop than is pending.     *)
RoomBeforeInsert ==
    /\ mpc = "insert" => ~Full
    /\ mpc = "random" => /\ delete <= getQsize(pending)
                         /\ delete = 0 => ~Full

(* busy_threads is, with multiplicity, the descriptors of the workers      *)
(* between line 238 and line 255, although a descriptor is closed outside  *)
(* the mutex and reused by Accept while its old entry is still queued.     *)
(* So findFileId never misses, insertReq never finds busy_threads full,    *)
(* and no entry is left behind to eat capacity.                            *)
BusyMatchesWorkers ==
    \A fd \in Fds :
        Cardinality({i \in 1..Len(busy) : busy[i].data = fd})
            = Cardinality({w \in Workers : InService(w) /\ job[w].data = fd})

(* The requests somebody will still dispose of: main's, the pending ones   *)
(* and those of workers that have not closed theirs.                       *)
Tracked ==
    {hold : x \in {y \in {1} : mpc # "accept"}}
        \cup {pending[i] : i \in 1..Len(pending)}
        \cup {job[w] : w \in {v \in Workers : wpc[v] \in {"handle", "close"}}}

(* No descriptor leaks and none is crossed: the open connections are       *)
(* exactly the tracked requests, each behind the number it was accepted    *)
(* with.  In particular no thread uses or closes a number that the kernel  *)
(* has meanwhile given to another connection.                              *)
DescriptorsOwned ==
    Tracked = {[data |-> fd, time |-> fdtab[fd]] :
                   fd \in {g \in Fds : fdtab[g] # NoConn}}

(* No wakeup of a worker is lost: while some worker sleeps on              *)
(* no_waiting_reqs (line 229) there are at least as many workers on their  *)
(* way to the queue as there are pending requests.                         *)
NoLostWakeup ==
    (\E w \in Workers : wpc[w] = "wait") =>
        getQsize(pending) <=
            Cardinality({w \in Workers : wpc[w] \in {"lock", "woken", "test"}})

(* Main never sleeps on no_empty_threads (lines 135 and 181) once there is *)
(* room: every step that makes room also signals it.                       *)
MainSleepsOnlyWhenFull == mpc = "wait" => Full

(* The Stat-thread-* headers: the k-th request that a thread handles       *)
(* reports count k and that thread's number, and at most that many static  *)
(* and dynamic requests; counters are never shared by two threads.         *)
StatsPerThread ==
    \A w \in Workers :
        LET mine == {c \in Conns : reply[c].thread = w} IN
        /\ {reply[c].all : c \in mine} = 1..cnt[w].all
        /\ Cardinality(mine) = cnt[w].all
        /\ \A c \in mine : reply[c].stat + reply[c].dyn <= reply[c].all
        /\ \A v \in Workers : wpc[v] = "close" => reply[job[v].time].thread = v

-----------------------------------------------------------------------------
(* The connections in hand, by their numbers. *)

(* The connections occupying a worker, until their slot is given back. *)
Serving == {job[w].time : w \in {v \in Workers : InService(v)}}

Queued == [i \in 1..Len(pending) |-> pending[i].time]

InHand == {hold.time} \cup {pending[i].time : i \in 1..Len(pending)} \cup Serving
=============================================================================
