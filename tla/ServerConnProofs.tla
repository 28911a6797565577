-------------------------- MODULE ServerConnProofs --------------------------
(***************************************************************************)
(* What happens to a connection: who owns it, what is answered on it, and  *)
(* that the server implements AdmissionSpec.                               *)
(*                                                                         *)
(* Every step of the server does one of nine things to the connections     *)
(* (ConnStep); the invariants are kept by each of them.                    *)
(***************************************************************************)
EXTENDS ServerProofs, ServerAdmission

(* What the owners of descriptors are. *)
LEMMA OwnersTyped ==
    ASSUME TypeOK
    PROVE  /\ Typed(Holding, hold, pending, Len(pending), Unclosed, job)
           /\ Len(pending) \in Nat /\ arrived \in Nat /\ DOMAIN fdtab = Fds
           /\ pending \in Seq(Request) /\ \A w \in Serv : job[w] \in Request
<1>1. pending \in Seq(Request) /\ arrived \in Nat /\ DOMAIN fdtab = Fds
  BY ServerAssumption DEF TypeOK
<1>2. Len(pending) \in Nat /\ \A i \in 1..Len(pending) : pending[i] \in Request
  BY <1>1, SeqLen, SeqItem
<1>3. Holding => hold \in Request
  BY DEF TypeOK, Holding
<1>4. \A w \in Serv : job[w] \in Request
  BY DEF TypeOK, Serv
<1> QED BY <1>1, <1>2, <1>3, <1>4, SetsNested DEF Typed

(* The queue after insertReq. *)
LEMMA PendingGrown ==
    ASSUME TypeOK, Admits
    PROVE  /\ Len(pending') = Len(pending) + 1 /\ pending'[Len(pending) + 1] = hold
           /\ \A i \in 1..Len(pending) : pending'[i] = pending[i]
<1>1. hold \in Request /\ pending \in Seq(Request)
  BY DEF Admits, TypeOK, Holding
<1> QED BY <1>1, SeqAppend DEF Admits

(* Every step keeps the numbers in hand different. *)
LEMMA ApartStep ==
    ASSUME TypeOK, ApartInv, ConnStep PROVE ApartInv'
<1>t. Len(pending) \in Nat /\ arrived \in Nat
  BY OwnersTyped
<1>a. Apart(Holding, hold, pending, Len(pending), Serv, job, arrived)
  BY DEF ApartInv
<1>1. ASSUME NEW fd \in Fds, Opens(fd) PROVE ApartInv'
  <2>1. Apart(FALSE, hold, pending, Len(pending), Serv, job, arrived)
    BY <1>a, <1>1 DEF Opens, Apart
  <2>2. hold'.time = arrived + 1
    BY <1>1 DEF Opens
  <2>3. Apart(TRUE, hold', pending, Len(pending), Serv, job, arrived + 1)
    BY Zenon, <1>t, <2>1, <2>2, ApartArrive
  <2> QED BY <1>1, <2>3 DEF Opens, SameWorkers, ApartInv, Apart
<1>2. CASE Admits
  <2>1. Apart(TRUE, hold, pending, Len(pending), Serv, job, arrived)
    BY <1>a, <1>2 DEF Admits, Apart
  <2>2. Apart(FALSE, hold', pending', Len(pending) + 1, Serv, job, arrived)
    BY Zenon, <1>t, <1>2, <2>1, PendingGrown, ApartAdmit
  <2>3. Apart(FALSE, hold', pending', Len(pending'), Serv, job, arrived)
    BY Zenon, <1>2, <2>2, PendingGrown
  <2> QED BY <1>2, <2>3 DEF Admits, SameWorkers, ApartInv, Apart
<1>3. CASE Refuses
  BY <1>a, <1>3 DEF Refuses, SameWorkers, ApartInv, Apart
<1>4. ASSUME NEW k \in 1..Len(pending), Drops(k) PROVE ApartInv'
  <2>1. Picks(pending', pending, Len(pending), k)
    BY <1>t, <1>4, WithoutPicks DEF Drops
  <2>2. Apart(Holding, hold, pending', Len(pending) - 1, Serv, job, arrived)
    BY <1>t, <1>a, <2>1, ApartDrop
  <2>3. Apart(Holding, hold, pending', Len(pending'), Serv, job, arrived)
    BY Zenon, <1>4, <2>2 DEF Drops
  <2> QED BY <1>4, <2>3 DEF Drops, SameWorkers, ApartInv, Apart
<1>5. ASSUME NEW w \in Workers, Takes(w) PROVE ApartInv'
  <2>0. 1 \in 1..Len(pending)
    BY <1>t, <1>5 DEF Takes
  <2>1. Picks(pending', pending, Len(pending), 1)
    BY <1>t, <1>5, <2>0, WithoutPicks DEF Takes
  <2>2. /\ Apart(Holding, hold, pending', Len(pending) - 1, Serv, job, arrived)
        /\ \A i \in 1..(Len(pending) - 1) : pending'[i].time # pending[1].time
    BY <1>t, <1>a, <2>0, <2>1, ApartDrop
  <2>3. /\ pending[1].time \in 1..arrived
        /\ \A v \in Serv : pending[1].time # job[v].time
        /\ Holding => pending[1].time # hold.time
    BY <1>a, <2>0 DEF Apart, QueueApart, CrossApart, HeldApart
  <2>4. w \notin Serv /\ job'[w] = pending[1] /\ \A v \in Serv : job'[v] = job[v]
    BY <1>5 DEF Takes
  <2>5. Len(pending) - 1 \in Nat
    BY <1>t, <2>0
  <2>f. Fresh(pending[1], Holding, hold, pending', Len(pending) - 1, Serv, job, arrived)
    BY <2>2, <2>3 DEF Fresh
  <2>g. Gains(job', job, Serv, w, pending[1])
    BY <2>4 DEF Gains
  <2>6. Apart(Holding, hold, pending', Len(pending) - 1, Serv \cup {w}, job', arrived)
    BY <1>t, <2>2, <2>5, <2>f, <2>g, ApartTake
  <2>7. /\ Len(pending') = Len(pending) - 1 /\ Serv' = Serv \cup {w}
        /\ Holding' = Holding /\ hold' = hold /\ arrived' = arrived
    BY <1>5 DEF Takes
  <2> QED BY <2>6, <2>7 DEF ApartInv
<1>6. ASSUME NEW w \in Workers, Answers(w) \/ Closes(w) PROVE ApartInv'
  BY <1>a, <1>6 DEF Answers, Closes, ApartInv
<1>7. ASSUME NEW w \in Workers, Finishes(w) PROVE ApartInv'
  <2>1. Serv' \subseteq Serv /\ \A v \in Serv' : job'[v] = job[v]
    BY <1>7 DEF Finishes
  <2>2. Apart(Holding, hold, pending, Len(pending), Serv', job', arrived)
    BY <1>t, <1>a, <2>1, ApartFewer
  <2> QED BY <1>7, <2>2 DEF Finishes, ApartInv
<1>8. CASE Keeps
  BY <1>a, <1>8 DEF Keeps, SameWorkers, ApartInv
<1> QED BY <1>1, <1>2, <1>3, <1>4, <1>5, <1>6, <1>7, <1>8 DEF ConnStep

(* Every step keeps the descriptors with their owners. *)
LEMMA OwnedStep ==
    ASSUME TypeOK, ApartInv, OwnedInv, ConnStep PROVE OwnedInv'
<1>t. /\ Len(pending) \in Nat /\ arrived \in Nat /\ DOMAIN fdtab = Fds
      /\ Typed(Holding, hold, pending, Len(pending), Unclosed, job)
      /\ Unclosed \subseteq Serv
  BY OwnersTyped, SetsNested
<1>a. Apart(Holding, hold, pending, Len(pending), Serv, job, arrived)
  BY DEF ApartInv
<1>o. Owned(Holding, hold, pending, Len(pending), Unclosed, job, fdtab)
  BY DEF OwnedInv
<1>1. ASSUME NEW fd \in Fds, Opens(fd) PROVE OwnedInv'
  <2>0. Holding = FALSE
    BY <1>1 DEF Opens, Holding
  <2>1. /\ Owned(FALSE, hold, pending, Len(pending), Unclosed, job, fdtab)
        /\ Typed(FALSE, hold, pending, Len(pending), Unclosed, job)
    BY Zenon, <1>t, <1>o, <2>0
  <2>2. hold'.time = arrived + 1 /\ hold'.data = fd /\ fdtab[fd] = NoConn
    BY <1>1 DEF Opens
  <2>3. Owned(TRUE, hold', pending, Len(pending), Unclosed, job,
              [fdtab EXCEPT ![fd] = arrived + 1])
    BY Zenon, <1>t, <2>1, <2>2, OwnedArrive
  <2>4. Holding' = TRUE
    BY <1>1 DEF Opens, Holding
  <2> QED BY Zenon, <1>1, <2>3, <2>4 DEF Opens, SameWorkers, OwnedInv
<1>2. CASE Admits
  <2>0. Holding = TRUE /\ Holding' = FALSE
    BY <1>2 DEF Admits, Holding
  <2>1. Owned(TRUE, hold, pending, Len(pending), Unclosed, job, fdtab)
    BY Zenon, <1>o, <2>0
  <2>2. Owned(FALSE, hold', pending', Len(pending) + 1, Unclosed, job, fdtab)
    BY Zenon, <1>t, <1>2, <2>1, PendingGrown, OwnedAdmit
  <2>3. Owned(FALSE, hold', pending', Len(pending'), Unclosed, job, fdtab)
    BY Zenon, <1>2, <2>2, PendingGrown
  <2> QED BY Zenon, <1>2, <2>0, <2>3 DEF Admits, SameWorkers, OwnedInv
<1>3. CASE Refuses
  <2>0. Holding = TRUE /\ Holding' = FALSE
    BY <1>3 DEF Refuses, Holding
  <2>1. /\ Owned(TRUE, hold, pending, Len(pending), Unclosed, job, fdtab)
        /\ Typed(TRUE, hold, pending, Len(pending), Unclosed, job)
        /\ Apart(TRUE, hold, pending, Len(pending), Serv, job, arrived)
    BY Zenon, <1>t, <1>a, <1>o, <2>0
  <2>2. Owned(FALSE, hold', pending, Len(pending), Unclosed, job,
              [fdtab EXCEPT ![hold.data] = NoConn])
    BY Zenon, <1>t, <2>1, OwnedRefuse
  <2> QED BY Zenon, <1>3, <2>0, <2>2 DEF Refuses, close, SameWorkers, OwnedInv
<1>4. ASSUME NEW k \in 1..Len(pending), Drops(k) PROVE OwnedInv'
  <2>1. Picks(pending', pending, Len(pending), k)
    BY <1>t, <1>4, WithoutPicks DEF Drops
  <2>2. Owned(Holding, hold, pending', Len(pending) - 1, Unclosed, job,
              [fdtab EXCEPT ![pending[k].data] = NoConn])
    BY Zenon, <1>t, <1>a, <1>o, <2>1, OwnedDrop
  <2>3. Holding' = Holding
    BY <1>4 DEF Drops, Holding
  <2> QED BY Zenon, <1>4, <2>2, <2>3 DEF Drops, close, SameWorkers, OwnedInv
<1>5. ASSUME NEW w \in Workers, Takes(w) PROVE OwnedInv'
  <2>0. 1 \in 1..Len(pending)
    BY <1>t, <1>5 DEF Takes
  <2>1. Picks(pending', pending, Len(pending), 1)
    BY <1>t, <1>5, <2>0, WithoutPicks DEF Takes
  <2>2. w \notin Unclosed /\ job'[w] = pending[1] /\ \A v \in Unclosed : job'[v] = job[v]
    BY <1>t, <1>5 DEF Takes
  <2>3. Owned(Holding, hold, pending', Len(pending) - 1, Unclosed \cup {w}, job', fdtab)
    BY <1>t, <1>o, <2>0, <2>1, <2>2, OwnedTake
  <2> QED BY <1>5, <2>3 DEF Takes, OwnedInv
<1>6. ASSUME NEW w \in Workers, Closes(w) PROVE OwnedInv'
  <2>1. w \in Unclosed
    BY <1>6 DEF Closes
  <2>2. Owned(Holding, hold, pending, Len(pending), Unclosed \ {w}, job,
              [fdtab EXCEPT ![job[w].data] = NoConn])
    BY Zenon, <1>t, <1>a, <1>o, <2>1, OwnedClose
  <2> QED BY <1>6, <2>2 DEF Closes, close, OwnedInv
<1>7. ASSUME NEW w \in Workers, Finishes(w) PROVE OwnedInv'
  <2>1. \A v \in Unclosed : job'[v] = job[v]
    BY <1>t, <1>7 DEF Finishes
  <2>2. Owned(Holding, hold, pending, Len(pending), Unclosed, job', fdtab)
    BY <1>o, <2>1, OwnedSame
  <2> QED BY <1>7, <2>2 DEF Finishes, OwnedInv
<1>8. ASSUME NEW w \in Workers, Answers(w) PROVE OwnedInv'
  BY <1>o, <1>8 DEF Answers, OwnedInv
<1>9. CASE Keeps
  BY <1>o, <1>9 DEF Keeps, SameWorkers, OwnedInv
<1> QED BY <1>1, <1>2, <1>3, <1>4, <1>5, <1>6, <1>7, <1>8, <1>9 DEF ConnStep

(* Every step keeps the replies as they belong to the connections. *)
LEMMA RepliesStep ==
    ASSUME TypeOK, ApartInv, RepliesInv, ConnStep PROVE RepliesInv'
<1>t. /\ Len(pending) \in Nat /\ arrived \in Nat
      /\ Holding => hold \in Request
      /\ \A i \in 1..Len(pending) : pending[i] \in Request
      /\ \A w \in Serv : job[w] \in Request
  BY OwnersTyped DEF Typed
<1>a. Apart(Holding, hold, pending, Len(pending), Serv, job, arrived)
  BY DEF ApartInv
<1>r. /\ Holding => reply[hold.time] = NoReply
      /\ \A i \in 1..Len(pending) : reply[pending[i].time] = NoReply
      /\ \A w \in Handling : reply[job[w].time] = NoReply
      /\ \A w \in Serv : w \notin Handling => reply[job[w].time] # NoReply
      /\ \A c \in Conns : c > arrived => reply[c] = NoReply
  BY DEF RepliesInv, Replies
<1>1. ASSUME NEW fd \in Fds, Opens(fd) PROVE RepliesInv'
  <2>1. hold'.time = arrived + 1 /\ arrived < MaxConns /\ arrived' = arrived + 1
    BY <1>1 DEF Opens
  <2>2. arrived + 1 \in Conns /\ arrived + 1 > arrived
    BY <1>t, <2>1, ServerAssumption DEF Conns
  <2>3. \A c \in Conns : c > arrived + 1 => c > arrived
    BY <1>t DEF Conns
  <2>4. Replies(TRUE, hold', pending, Len(pending), Handling, Serv, job, reply, arrived + 1)
    BY <1>r, <2>1, <2>2, <2>3 DEF Replies
  <2> QED BY <1>1, <2>4 DEF Opens, SameWorkers, RepliesInv, Replies
<1>2. CASE Admits
  <2>1. \A i \in 1..(Len(pending) + 1) : i \in 1..Len(pending) \/ i = Len(pending) + 1
    BY <1>t
  <2>2. Holding /\ ~Holding'
    BY <1>2 DEF Admits
  <2>3. \A i \in 1..Len(pending') : reply[pending'[i].time] = NoReply
    BY <1>2, <1>r, <2>1, <2>2, PendingGrown
  <2> QED BY <1>2, <1>r, <2>2, <2>3 DEF Admits, SameWorkers, RepliesInv, Replies
<1>3. CASE Refuses
  BY <1>3, <1>r DEF Refuses, SameWorkers, RepliesInv, Replies
<1>4. ASSUME NEW k \in 1..Len(pending), Drops(k) PROVE RepliesInv'
  <2>1. Picks(pending', pending, Len(pending), k)
    BY <1>t, <1>4, WithoutPicks DEF Drops
  <2>2. \A i \in 1..Len(pending') : \E m \in 1..Len(pending) : pending'[i] = pending[m]
    BY <1>4, <2>1 DEF Drops, Picks
  <2>3. \A i \in 1..Len(pending') : reply[pending'[i].time] = NoReply
    BY <1>r, <2>2
  <2> QED BY <1>4, <1>r, <2>3 DEF Drops, SameWorkers, RepliesInv, Replies
<1>5. ASSUME NEW w \in Workers, Takes(w) PROVE RepliesInv'
  <2>0. 1 \in 1..Len(pending)
    BY <1>t, <1>5 DEF Takes
  <2>1. Picks(pending', pending, Len(pending), 1)
    BY <1>t, <1>5, <2>0, WithoutPicks DEF Takes
  <2>2. \A i \in 1..Len(pending') : \E m \in 1..Len(pending) : pending'[i] = pending[m]
    BY <1>5, <2>1 DEF Takes, Picks
  <2>3. \A i \in 1..Len(pending') : reply[pending'[i].time] = NoReply
    BY <1>r, <2>2
  <2>4. \A v \in Handling \cup {w} : reply[job'[v].time] = NoReply
    BY <1>r, <1>5, <2>0, SetsNested DEF Takes
  <2>5. \A v \in Serv \cup {w} : v \notin Handling \cup {w} => reply[job'[v].time] # NoReply
    BY <1>r, <1>5 DEF Takes
  <2> QED BY <1>5, <1>r, <2>3, <2>4, <2>5 DEF Takes, RepliesInv, Replies
<1>6. ASSUME NEW w \in Workers, Answers(w) PROVE RepliesInv'
  <2> DEFINE now == job[w].time
  <2>1. w \in Handling /\ w \in Serv
    BY <1>6, SetsNested DEF Answers
  <2>2. reply'[now] # NoReply /\ \A c \in Conns : c # now => reply'[c] = reply[c]
    BY <1>6 DEF Answers
  <2>3. now \in 1..arrived
    BY <1>a, <2>1 DEF Apart, JobsApart
  <2>4. /\ Holding => hold.time # now
        /\ \A i \in 1..Len(pending) : pending[i].time # now
        /\ \A v \in Serv : v # w => job[v].time # now
    BY <1>a, <2>1 DEF Apart, JobsApart, CrossApart, HeldApart
  <2> HIDE DEF now
  <2>5. Holding => reply'[hold.time] = NoReply
    BY <1>t, <1>r, <2>2, <2>4, RequestFields
  <2>6. \A i \in 1..Len(pending) : reply'[pending[i].time] = NoReply
    BY <1>t, <1>r, <2>2, <2>4, RequestFields
  <2>7. \A v \in Handling \ {w} : reply'[job[v].time] = NoReply
    BY <1>t, <1>r, <2>2, <2>4, RequestFields, SetsNested
  <2>8. \A v \in Serv : v \notin Handling \ {w} => reply'[job[v].time] # NoReply
    <3> SUFFICES ASSUME NEW v \in Serv, v \notin Handling \ {w}
                 PROVE  reply'[job[v].time] # NoReply
      OBVIOUS
    <3>1. CASE v = w
      BY <2>2, <3>1 DEF now
    <3>2. CASE v # w
      <4>1. reply[job[v].time] # NoReply /\ job[v].time \in Conns /\ job[v].time # now
        BY <1>t, <1>r, <2>4, <3>2, RequestFields
      <4> QED BY <2>2, <4>1
    <3> QED BY <3>1, <3>2
  <2>9. \A c \in Conns : c > arrived => reply'[c] = NoReply
    <3>1. \A c \in Conns : c > arrived => c # now
      BY <1>t, <2>3 DEF Conns
    <3> QED BY <1>r, <2>2, <3>1
  <2>10. Replies(Holding, hold, pending, Len(pending), Handling \ {w}, Serv, job, reply', arrived)
    BY <2>5, <2>6, <2>7, <2>8, <2>9 DEF Replies
  <2> QED BY <1>6, <2>10 DEF Answers, RepliesInv
<1>7. ASSUME NEW w \in Workers, Closes(w) PROVE RepliesInv'
  BY <1>7, <1>r DEF Closes, RepliesInv, Replies
<1>8. ASSUME NEW w \in Workers, Finishes(w) PROVE RepliesInv'
  <2>1. \A v \in Handling : job'[v] = job[v]
    BY <1>8, SetsNested DEF Finishes
  <2>2. \A v \in Serv \ {w} : job'[v] = job[v]
    BY <1>8 DEF Finishes
  <2>3. Replies(Holding, hold, pending, Len(pending), Handling, Serv \ {w}, job', reply, arrived)
    BY <1>r, <2>1, <2>2 DEF Replies
  <2> QED BY <1>8, <2>3 DEF Finishes, RepliesInv
<1>9. CASE Keeps
  BY <1>9 DEF Keeps, SameWorkers, RepliesInv
<1> QED BY <1>1, <1>2, <1>3, <1>4, <1>5, <1>6, <1>7, <1>8, <1>9 DEF ConnStep

(* A master that holds no connection has no request. *)
LEMMA HoldStep == ASSUME HoldInv, ConnStep PROVE HoldInv'
BY DEF HoldInv, ConnStep, Opens, Admits, Refuses, Drops, Takes, Answers, Closes,
       Finishes, Keeps

(* The server starts with the invariant. *)
LEMMA ConnInit == Init => ConnInv /\ RandomInv /\ CapacityInv
<1> SUFFICES ASSUME Init PROVE ConnInv /\ RandomInv /\ CapacityInv
  OBVIOUS
<1>1. /\ ~Holding /\ Serv = {} /\ Unclosed = {} /\ Handling = {}
      /\ hold = NoRequest /\ Len(pending) = 0 /\ Len(busy) = 0 /\ 1..Len(pending) = {}
  <2>1. ~Holding /\ Serv = {} /\ Unclosed = {} /\ Handling = {} /\ hold = NoRequest
    BY DEF Init, Holding, Serv, Unclosed, Handling, InService
  <2>2. Len(pending) = 0 /\ Len(busy) = 0
    BY SeqEmpty DEF Init
  <2> QED BY <2>1, <2>2
<1>2. ApartInv
  BY <1>1 DEF ApartInv, Apart, QueueApart, JobsApart, CrossApart
<1>3. OwnedInv
  BY <1>1 DEF Init, OwnedInv, Owned, AllBacked, AllOwned
<1>4. RepliesInv
  BY <1>1 DEF Init, RepliesInv, Replies
<1>5. HoldInv /\ RandomInv
  BY <1>1 DEF Init, HoldInv, RandomInv
<1>6. CapacityInv
  BY <1>1, ServerAssumption DEF Init, CapacityInv, QueueBound, RoomBeforeInsert, getQsize
<1> QED BY <1>2, <1>3, <1>4, <1>5, <1>6 DEF ConnInv

(* ServerInv is an invariant of the server. *)
LEMMA ConnInvariant == Spec => []ServerInv
<1>1. TypeOK /\ CapacityInv /\ RandomInv /\ ConnInv /\ [Next]_vars => ConnInv'
  BY EveryStepIsConnStep, ApartStep, OwnedStep, RepliesStep, HoldStep DEF ConnInv
<1>2. TypeOK /\ CapacityInv /\ RandomInv /\ ConnInv /\ BusyMatched => ServerInv
  BY DEF ServerInv
<1> QED
  BY <1>1, <1>2, ConnInit, RandomStep, CapacityStep, TypeCorrect, MutualExclusion,
     MatchedInvariant, PTL DEF Spec

(* So every step of a behaviour is a ConnStep. *)
LEMMA ConnStepOf == ServerInv /\ [Next]_vars => ConnStep
BY EveryStepIsConnStep DEF ServerInv

(* No descriptor leaks and none is crossed, whatever the policy and the    *)
(* interleaving: the open connections are exactly those of main, of the    *)
(* pending requests and of the workers that have not closed theirs.        *)
THEOREM ConnectionsOwned == Spec => []DescriptorsOwned
<1>1. ServerInv => DescriptorsOwned
  <2> SUFFICES ASSUME ServerInv PROVE DescriptorsOwned
    OBVIOUS
  <2> DEFINE Open == {[data |-> fd, time |-> fdtab[fd]] : fd \in {g \in Fds : fdtab[g] # NoConn}}
  <2>t. /\ Typed(Holding, hold, pending, Len(pending), Unclosed, job)
        /\ AllBacked(Holding, hold, pending, Len(pending), Unclosed, job, fdtab)
        /\ AllOwned(Holding, hold, pending, Len(pending), Unclosed, job, fdtab)
    BY OwnersTyped DEF ServerInv, ConnInv, OwnedInv, Owned
  <2>1. \A r \in Request : Backed(r, fdtab) => r \in Open
    <3> SUFFICES ASSUME NEW r \in Request, Backed(r, fdtab) PROVE r \in Open
      OBVIOUS
    <3>1. r.data \in Fds /\ fdtab[r.data] = r.time /\ r.time # NoConn
      BY RequestFields DEF Backed
    <3>2. r = [data |-> r.data, time |-> fdtab[r.data]]
      BY <3>1 DEF Request
    <3> QED BY <3>1, <3>2
  <2>2. /\ Holding => hold \in Request /\ Backed(hold, fdtab)
        /\ \A i \in 1..Len(pending) : pending[i] \in Request /\ Backed(pending[i], fdtab)
        /\ \A w \in Unclosed : job[w] \in Request /\ Backed(job[w], fdtab)
    BY <2>t DEF Typed, AllBacked
  <2>3. \A r : r \in Tracked <=> \/ Holding /\ r = hold
                                 \/ \E i \in 1..Len(pending) : r = pending[i]
                                 \/ \E w \in Unclosed : r = job[w]
    BY DEF Tracked, Holding, Unclosed
  <2>4. ASSUME NEW fd \in Fds, fdtab[fd] # NoConn
        PROVE  [data |-> fd, time |-> fdtab[fd]] \in Tracked
    <3>1. \A r \in Request : r.data = fd /\ Backed(r, fdtab)
                               => r = [data |-> fd, time |-> fdtab[fd]]
      BY DEF Backed, Request
    <3>2. HasOwner(fd, Holding, hold, pending, Len(pending), Unclosed, job)
      BY <2>t, <2>4 DEF AllOwned
    <3>3. CASE Holding /\ hold.data = fd
      BY <2>2, <2>3, <3>1, <3>3
    <3>4. CASE \E i \in 1..Len(pending) : pending[i].data = fd
      BY <2>2, <2>3, <3>1, <3>4
    <3>5. CASE \E w \in Unclosed : job[w].data = fd
      BY <2>2, <2>3, <3>1, <3>5
    <3> QED BY <3>2, <3>3, <3>4, <3>5 DEF HasOwner
  <2>5. Tracked \subseteq Open
    <3> HIDE DEF Open
    <3> QED BY <2>1, <2>2, <2>3
  <2>6. Open \subseteq Tracked
    BY <2>4
  <2> QED BY <2>5, <2>6 DEF DescriptorsOwned
<1> QED BY <1>1, ConnInvariant, PTL

-----------------------------------------------------------------------------

(* request.c:98-104 and server.c:224: the k-th request that a thread       *)
(* handles reports count k and the number of that thread, no request is    *)
(* reported twice, and no two threads share counters, although line 254 of *)
(* server.c declares another variable named reqid.                         *)
THEOREM HeadersExact == Spec => []StatsPerThread
<1>1. TypeOK /\ RepliesInv /\ StatsInv /\ [Next]_vars => StatsInv'
  <2> SUFFICES ASSUME TypeOK, RepliesInv, StatsInv, [Next]_vars
               PROVE  CountersInv' /\ StatsPerThread'
    BY DEF StatsInv
  <2>1. ASSUME UNCHANGED <<reqid, cnt, reply>>,
               \A v \in Workers : wpc'[v] = "close" => wpc[v] = "close" /\ job'[v] = job[v]
        PROVE  CountersInv' /\ StatsPerThread'
    <3>1. CountersInv'
      BY <2>1 DEF StatsInv, CountersInv
    <3>2. StatsPerThread'
      <4>1. \A w \in Workers : HeadersOf(w, reply, cnt)
        BY DEF StatsInv, StatsPerThread, HeadersOf
      <4>2. \A v \in Workers : wpc[v] = "close" => reply[job[v].time].thread = v
        BY Zenon DEF StatsInv, StatsPerThread
      <4>3. \A w \in Workers : HeadersOf(w, reply', cnt')
        BY <2>1, <4>1
      <4>4. \A v \in Workers : wpc'[v] = "close" => reply'[job'[v].time].thread = v
        BY <2>1, <4>2
      <4> QED BY <4>3, <4>4 DEF StatsPerThread, HeadersOf
    <3> QED BY <3>1, <3>2
  <2>2. ASSUME NEW w \in Workers, NEW kind \in Kinds, requestHandle(w, kind)
        PROVE  CountersInv' /\ StatsPerThread'
    <3> DEFINE now == job[w].time
               n == cnt[w].all + 1
               Mine(v) == {c \in Conns : reply[c].thread = v}
    <3>1. /\ reqid[w] = w /\ wpc[w] = "handle" /\ now \in Conns
          /\ reply[now].thread = Nobody
          /\ cnt[w].all \in Nat /\ cnt[w].stat \in Nat /\ cnt[w].dyn \in Nat
          /\ cnt[w].stat + cnt[w].dyn <= cnt[w].all
      <4>1. reqid[w] = w /\ cnt[w].stat + cnt[w].dyn <= cnt[w].all
        BY DEF StatsInv, CountersInv
      <4>2. wpc[w] = "handle" /\ reply[now].thread = Nobody
        BY <2>2 DEF requestHandle, RepliesInv, Replies, Handling, NoReply
      <4>3. job[w] \in Request /\ cnt[w] \in [all : Nat, stat : Nat, dyn : Nat]
        BY <4>2 DEF TypeOK, InService
      <4> QED BY <4>1, <4>2, <4>3 DEF Request
    <3>2. PICK s, d \in Nat :
            /\ s + d <= n
            /\ cnt' = [cnt EXCEPT ![w] = [all |-> n, stat |-> s, dyn |-> d]]
            /\ reply' = [reply EXCEPT ![now] = [thread |-> w, all |-> n, stat |-> s, dyn |-> d]]
      <4> DEFINE s == cnt[w].stat + (IF kind = "static" THEN 1 ELSE 0)
                 d == cnt[w].dyn + (IF kind = "dynamic" THEN 1 ELSE 0)
      <4>1. s \in Nat /\ d \in Nat /\ s + d <= n
        BY <3>1
      <4>2. /\ cnt' = [cnt EXCEPT ![w] = [all |-> n, stat |-> s, dyn |-> d]]
            /\ reply' = [reply EXCEPT ![now] = [thread |-> w, all |-> n, stat |-> s, dyn |-> d]]
        BY <2>2, <3>1 DEF requestHandle
      <4> QED BY Zenon, <4>1, <4>2
    <3>3. /\ UNCHANGED <<reqid, job>> /\ wpc' = [wpc EXCEPT ![w] = "close"]
          /\ DOMAIN wpc = Workers
      BY <2>2 DEF requestHandle, TypeOK
    <3>4. /\ reply'[now] = [thread |-> w, all |-> n, stat |-> s, dyn |-> d]
          /\ \A c \in Conns : c # now => reply'[c] = reply[c]
          /\ cnt'[w] = [all |-> n, stat |-> s, dyn |-> d]
          /\ \A v \in Workers : v # w => cnt'[v] = cnt[v]
      BY <3>1, <3>2 DEF TypeOK
    <3> HIDE DEF now, n
    <3>5. CountersInv'
      BY <3>2, <3>3, <3>4 DEF StatsInv, CountersInv
    <3>6. /\ \A v \in Workers : v # w => {c \in Conns : reply'[c].thread = v} = Mine(v)
          /\ {c \in Conns : reply'[c].thread = w} = Mine(w) \cup {now}
          /\ \A v \in Workers : now \notin Mine(v)
      BY <3>1, <3>4, WorkersAreNumbers
    <3>7. \A v \in Workers : \A c \in Mine(v) : c # now /\ reply'[c] = reply[c]
      BY <3>4, <3>6
    <3>8. \A v \in Workers :
            /\ {reply[c].all : c \in Mine(v)} = 1..cnt[v].all
            /\ Cardinality(Mine(v)) = cnt[v].all
            /\ \A c \in Mine(v) : reply[c].stat + reply[c].dyn <= reply[c].all
      BY DEF StatsInv, StatsPerThread
    <3>9. \A v \in Workers : wpc'[v] = "close" => reply'[job'[v].time].thread = v
      <4> SUFFICES ASSUME NEW v \in Workers, wpc'[v] = "close"
                   PROVE  reply'[job[v].time].thread = v
        BY <3>3
      <4>1. CASE v = w
        BY <3>4, <4>1 DEF now
      <4>2. CASE v # w
        <5>1. wpc[v] = "close"
          BY <3>3, <4>2
        <5>2. reply[job[v].time].thread = v /\ job[v].time \in Conns
          BY Zenon, <5>1 DEF StatsInv, StatsPerThread, TypeOK, InService, Request
        <5> QED BY <3>1, <3>4, <5>2, WorkersAreNumbers
      <4> QED BY <4>1, <4>2
    <3>10. ASSUME NEW v \in Workers
           PROVE  LET mine == {c \in Conns : reply'[c].thread = v} IN
                  /\ {reply'[c].all : c \in mine} = 1..cnt'[v].all
                  /\ Cardinality(mine) = cnt'[v].all
                  /\ \A c \in mine : reply'[c].stat + reply'[c].dyn <= reply'[c].all
      <4>1. CASE v # w
        <5>1. {c \in Conns : reply'[c].thread = v} = Mine(v) /\ cnt'[v] = cnt[v]
          BY <3>4, <3>6, <4>1
        <5>2. {reply'[c].all : c \in Mine(v)} = {reply[c].all : c \in Mine(v)}
          BY <3>7
        <5> QED BY Zenon, <3>7, <3>8, <5>1, <5>2
      <4>2. CASE v = w
        <5>1. {c \in Conns : reply'[c].thread = v} = Mine(w) \cup {now} /\ cnt'[v].all = n
          BY <3>4, <3>6, <4>2
        <5>2. {reply'[c].all : c \in Mine(w) \cup {now}} = {reply[c].all : c \in Mine(w)} \cup {n}
          BY <3>4, <3>7
        <5>3. 1..n = (1..cnt[w].all) \cup {n}
          <6>1. \A k \in Nat : 1..(k + 1) = (1..k) \cup {k + 1}
            OBVIOUS
          <6> QED BY <3>1, <6>1 DEF n
        <5>4. Finite(Mine(w))
          <6>1. Finite(Conns)
            <7>1. MaxConns \in Nat /\ Conns = 1..(1 + MaxConns - 1)
              BY ServerAssumption DEF Conns
            <7> QED BY <7>1, SizeInterval
          <6> QED BY <6>1, SizePart
        <5>5. Cardinality(Mine(w) \cup {now}) = n
          <6>1. now \notin Mine(w) /\ Cardinality(Mine(w)) = cnt[w].all
            BY <3>6, <3>8
          <6> HIDE DEF Mine
          <6>2. Cardinality(Mine(w) \cup {now}) = Cardinality(Mine(w)) + 1
            BY Zenon, <5>4, <6>1, SizeAdd
          <6> QED BY <6>1, <6>2 DEF n
        <5>6. \A c \in Mine(w) \cup {now} : reply'[c].stat + reply'[c].dyn <= reply'[c].all
          <6>1. reply'[now].stat + reply'[now].dyn <= reply'[now].all
            <7>1. reply'[now].stat = s /\ reply'[now].dyn = d /\ reply'[now].all = n
              BY <3>4
            <7> QED BY <3>2, <7>1
          <6>2. \A c \in Mine(w) : reply'[c].stat + reply'[c].dyn <= reply'[c].all
            BY Zenon, <3>7, <3>8
          <6> QED BY <6>1, <6>2
        <5> HIDE DEF Mine
        <5> QED BY Zenon, <3>8, <5>1, <5>2, <5>3, <5>5, <5>6
      <4> QED BY <4>1, <4>2
    <3> QED BY <3>5, <3>9, <3>10 DEF StatsPerThread
  <2>3. CASE Accept \/ MainStep \/ MainSpurious
    <3>1. UNCHANGED <<reqid, cnt, reply, job>>
      BY <2>3 DEF Accept, MainStep, MainSpurious, MainLock, MainRelock, Admit, WaitForRoom,
                  Refuse, DropHead, RandomStart, RandomDrop, workerVars
    <3>2. \A v \in Workers : wpc'[v] = "close" => wpc[v] = "close"
      BY <2>3 DEF Accept, MainStep, MainSpurious, MainLock, MainRelock, Admit, WaitForRoom,
                  Refuse, DropHead, RandomStart, RandomDrop, workerVars,
                  signal_no_waiting_reqs, TypeOK
    <3> QED BY <2>1, <3>1, <3>2
  <2>4. ASSUME NEW w \in Workers,
               \/ WorkerSpurious(w) \/ WorkerLock(w) \/ WaitForRequest(w)
               \/ CloseConnection(w) \/ WorkerLockAgain(w)
        PROVE  CountersInv' /\ StatsPerThread'
    BY <2>1, <2>4 DEF WorkerSpurious, WorkerLock, WaitForRequest, CloseConnection,
                      WorkerLockAgain, TypeOK
  <2>5. ASSUME NEW w \in Workers, TakeRequest(w) \/ FinishRequest(w)
        PROVE  CountersInv' /\ StatsPerThread'
    BY <2>1, <2>5 DEF TakeRequest, FinishRequest, reqidShadowed, TypeOK
  <2>6. CASE UNCHANGED vars
    BY <2>1, <2>6 DEF vars
  <2> QED
    BY <2>2, <2>3, <2>4, <2>5, <2>6 DEF Next, WorkerStep
<1>2. Init => StatsInv
  <2> SUFFICES ASSUME Init PROVE StatsInv
    OBVIOUS
  <2>2. CountersInv
    BY DEF Init, CountersInv, ThreadNumber
  <2>3. \A w \in Workers : {c \in Conns : reply[c].thread = w} = {} /\ cnt[w].all = 0
    BY WorkersAreNumbers DEF Init, NoReply
  <2>4. StatsPerThread
    <3>1. ASSUME NEW w \in Workers PROVE HeadersOf(w, reply, cnt)
      <4>1. {c \in Conns : reply[c].thread = w} = {} /\ 1..cnt[w].all = {} /\ cnt[w].all = 0
        BY <2>3
      <4> QED BY Zenon, <4>1, SizeNone DEF HeadersOf
    <3>2. \A w \in Workers : wpc[w] # "close"
      BY DEF Init
    <3> QED BY Zenon, <3>1, <3>2 DEF StatsPerThread, HeadersOf
  <2> QED BY <2>2, <2>4 DEF StatsInv
<1>3. StatsInv => StatsPerThread
  BY DEF StatsInv
<1>4. ServerInv => TypeOK /\ RepliesInv
  BY DEF ServerInv, ConnInv
<1> QED BY <1>1, <1>2, <1>3, <1>4, ConnInvariant, PTL DEF Spec

-----------------------------------------------------------------------------

(* The numbers of a queue of requests. *)
LEMMA TimesOfSeq ==
    ASSUME NEW q \in Seq(Request)
    PROVE  /\ TimesOf(q) \in Seq(Conns) /\ Len(TimesOf(q)) = Len(q)
           /\ \A i \in 1..Len(q) : TimesOf(q)[i] = q[i].time /\ q[i].time \in Conns
<1>1. Len(q) \in Nat
  BY SeqLen
<1>2. \A i \in 1..Len(q) : q[i].time \in Conns
  BY SeqItem, RequestFields
<1>3. TimesOf(q) \in [1..Len(q) -> Conns]
  BY <1>2 DEF TimesOf
<1>4. TimesOf(q) \in Seq(Conns)
  BY <1>1, <1>3, SeqFunctions
<1>5. Len(TimesOf(q)) = Len(q)
  BY <1>1, <1>3, <1>4, SeqLen
<1> QED BY <1>2, <1>4, <1>5 DEF TimesOf

(* The numbers after an insertion. *)
LEMMA TimesOfAppend ==
    ASSUME NEW q \in Seq(Request), NEW r \in Request
    PROVE  TimesOf(Append(q, r)) = Append(TimesOf(q), r.time)
<1> DEFINE p == Append(q, r)
<1>1. p \in Seq(Request) /\ Len(p) = Len(q) + 1 /\ p[Len(q) + 1] = r
      /\ \A i \in 1..Len(q) : p[i] = q[i]
  BY SeqAppend
<1>2. Len(q) \in Nat /\ r.time \in Conns
  BY SeqLen, RequestFields
<1>3. /\ TimesOf(q) \in Seq(Conns) /\ Len(TimesOf(q)) = Len(q)
      /\ \A i \in 1..Len(q) : TimesOf(q)[i] = q[i].time
  BY TimesOfSeq
<1> HIDE DEF p
<1>4. /\ TimesOf(p) \in Seq(Conns) /\ Len(TimesOf(p)) = Len(p)
      /\ \A i \in 1..Len(p) : TimesOf(p)[i] = p[i].time
  BY <1>1, TimesOfSeq
<1> DEFINE u == Append(TimesOf(q), r.time)
<1>5. /\ u \in Seq(Conns) /\ Len(u) = Len(q) + 1 /\ u[Len(q) + 1] = r.time
      /\ \A i \in 1..Len(q) : u[i] = TimesOf(q)[i]
  BY <1>2, <1>3, SeqAppend
<1> HIDE DEF u
<1>6. \A i \in 1..(Len(q) + 1) : i \in 1..Len(q) \/ i = Len(q) + 1
  BY <1>2
<1>7. \A i \in 1..Len(TimesOf(p)) : TimesOf(p)[i] = u[i]
  BY <1>1, <1>3, <1>4, <1>5, <1>6
<1>8. TimesOf(p) = u
  BY <1>1, <1>4, <1>5, <1>7, SeqSame
<1> QED BY <1>8 DEF p, u

(* The numbers after removeFirstReq. *)
LEMMA TimesOfTail ==
    ASSUME NEW q \in Seq(Request), Len(q) # 0
    PROVE  /\ TimesOf(Tail(q)) = Tail(TimesOf(q)) /\ TimesOf(q) # << >>
           /\ Head(TimesOf(q)) = q[1].time
<1>1. Len(q) \in Nat /\ q # << >> /\ 1 \in 1..Len(q)
  BY SeqLen
<1>2. /\ Tail(q) \in Seq(Request) /\ Len(Tail(q)) = Len(q) - 1
      /\ \A i \in 1..(Len(q) - 1) : Tail(q)[i] = q[i + 1]
  BY <1>1, SeqTail
<1>3. /\ TimesOf(q) \in Seq(Conns) /\ Len(TimesOf(q)) = Len(q)
      /\ \A i \in 1..Len(q) : TimesOf(q)[i] = q[i].time
  BY TimesOfSeq
<1>4. TimesOf(q) # << >>
  BY <1>3
<1>5. /\ Tail(TimesOf(q)) \in Seq(Conns) /\ Len(Tail(TimesOf(q))) = Len(q) - 1
      /\ \A i \in 1..(Len(q) - 1) : Tail(TimesOf(q))[i] = TimesOf(q)[i + 1]
  BY <1>3, <1>4, SeqTail
<1>6. /\ TimesOf(Tail(q)) \in Seq(Conns) /\ Len(TimesOf(Tail(q))) = Len(q) - 1
      /\ \A i \in 1..(Len(q) - 1) : TimesOf(Tail(q))[i] = Tail(q)[i].time
  BY Zenon, <1>2, TimesOfSeq
<1>7. \A i \in 1..(Len(q) - 1) : i + 1 \in 1..Len(q)
  BY <1>1
<1>8. \A i \in 1..(Len(q) - 1) : TimesOf(Tail(q))[i] = Tail(TimesOf(q))[i]
  BY <1>2, <1>3, <1>5, <1>6, <1>7
<1>9. TimesOf(Tail(q)) = Tail(TimesOf(q))
  BY <1>5, <1>6, <1>8, SeqSame
<1>10. Head(TimesOf(q)) = TimesOf(q)[1]
  BY <1>3, <1>4
<1> QED BY <1>1, <1>3, <1>4, <1>9, <1>10

(* The numbers after removeReq. *)
LEMMA TimesOfWithout ==
    ASSUME NEW q \in Seq(Request), NEW p \in Seq(Request), NEW k \in 1..Len(q),
           Len(p) = Len(q) - 1, Without(p, q, Len(q), k)
    PROVE  LET t == TimesOf(q)
           IN  TimesOf(p) = SubSeq(t, 1, k - 1) \o SubSeq(t, k + 1, Len(t))
<1> DEFINE t == TimesOf(q)
           n == Len(q)
           a == SubSeq(t, 1, k - 1)
           b == SubSeq(t, k + 1, n)
<1>1. n \in Nat /\ k \in Int /\ k - 1 \in Int /\ k + 1 \in Int /\ n \in Int
  BY SeqLen
<1>2. /\ t \in Seq(Conns) /\ Len(t) = n
      /\ \A i \in 1..n : t[i] = q[i].time /\ t[i] \in Conns
  BY TimesOfSeq
<1>3. /\ TimesOf(p) \in Seq(Conns) /\ Len(TimesOf(p)) = n - 1
      /\ \A i \in 1..(n - 1) : TimesOf(p)[i] = p[i].time
  BY TimesOfSeq
<1> HIDE DEF t, n
<1>k. k \in 1..n
  BY DEF n
<1>4. /\ a \in Seq(Conns) /\ Len(a) = k - 1
      /\ \A i \in 1..(k - 1) : a[i] = t[i]
  <2>1. \A i \in 1..(k - 1) : t[i] \in Conns
    BY <1>1, <1>2, <1>k
  <2>2. /\ a \in Seq(Conns) /\ Len(a) = IF 1 <= k - 1 THEN k - 1 - 1 + 1 ELSE 0
        /\ \A i \in 1..(k - 1 - 1 + 1) : a[i] = t[1 + i - 1]
    <3>1. 1 \in Int
      OBVIOUS
    <3> QED BY <1>1, <2>1, <3>1, SeqPart
  <2>3. k - 1 - 1 + 1 = k - 1 /\ \A i \in 1..(k - 1) : 1 + i - 1 = i
    BY <1>1
  <2>4. (IF 1 <= k - 1 THEN k - 1 - 1 + 1 ELSE 0) = k - 1
    BY <1>1, <1>k
  <2> HIDE DEF a
  <2> QED BY <2>2, <2>3, <2>4
<1>5. /\ b \in Seq(Conns) /\ Len(b) = n - k
      /\ \A i \in 1..(n - k) : b[i] = t[k + i]
  <2>1. \A i \in (k + 1)..n : t[i] \in Conns
    BY <1>1, <1>2, <1>k
  <2>2. /\ b \in Seq(Conns) /\ Len(b) = IF k + 1 <= n THEN n - (k + 1) + 1 ELSE 0
        /\ \A i \in 1..(n - (k + 1) + 1) : b[i] = t[k + 1 + i - 1]
    BY <1>1, <2>1, SeqPart
  <2>3. n - (k + 1) + 1 = n - k /\ \A i \in 1..(n - k) : k + 1 + i - 1 = k + i
    BY <1>1
  <2>4. (IF k + 1 <= n THEN n - (k + 1) + 1 ELSE 0) = n - k
    BY <1>1, <1>k
  <2> HIDE DEF b
  <2> QED BY <2>2, <2>3, <2>4
<1> HIDE DEF a, b
<1>6. /\ a \o b \in Seq(Conns) /\ Len(a \o b) = n - 1
      /\ \A i \in 1..(n - 1) : (a \o b)[i] = IF i <= k - 1 THEN a[i] ELSE b[i - (k - 1)]
  <2>1. Len(a) + Len(b) = n - 1
    BY <1>1, <1>4, <1>5, <1>k
  <2>2. /\ a \o b \in Seq(Conns) /\ Len(a \o b) = Len(a) + Len(b)
        /\ \A i \in 1..(Len(a) + Len(b)) :
              (a \o b)[i] = IF i <= Len(a) THEN a[i] ELSE b[i - Len(a)]
    BY Zenon, <1>4, <1>5, SeqConcat
  <2> QED BY <1>4, <2>1, <2>2
<1>7. ASSUME NEW i \in 1..(n - 1) PROVE TimesOf(p)[i] = (a \o b)[i]
  <2>1. p[i] = q[IF i < k THEN i ELSE i + 1]
    BY DEF Without, n
  <2>2. CASE i < k
    <3>1. i <= k - 1 /\ i \in 1..(k - 1) /\ i \in 1..n
      BY <1>1, <1>k, <2>2
    <3>2. (a \o b)[i] = t[i]
      BY <1>4, <1>6, <3>1
    <3> QED BY <1>2, <1>3, <2>1, <2>2, <3>1, <3>2
  <2>3. CASE ~(i < k)
    <3>1. /\ ~(i <= k - 1) /\ i - (k - 1) \in 1..(n - k)
          /\ k + (i - (k - 1)) = i + 1 /\ i + 1 \in 1..n
      BY <1>1, <1>k, <2>3
    <3>2. (a \o b)[i] = t[i + 1]
      BY <1>5, <1>6, <3>1
    <3> QED BY Zenon, <1>2, <1>3, <2>1, <2>3, <3>1, <3>2
  <2> QED BY Zenon, <2>2, <2>3
<1>8. TimesOf(p) = a \o b
  BY Zenon, <1>3, <1>6, <1>7, SeqSame
<1> QED BY <1>2, <1>8 DEF a, b, t, n

(* The variables of the abstract specification. *)
LEMMA MappedSets ==
    /\ Served = {c \in 1..arrived : c \notin InHand /\ reply[c] # NoReply}
    /\ Dropped = {c \in 1..arrived : c \notin InHand /\ reply[c] = NoReply}
    /\ Serving = {job[w].time : w \in Serv} /\ Queued = TimesOf(pending)
<1>1. Serving = {job[w].time : w \in Serv}
  BY DEF Serving, Serv
<1>2. \A c : c \in InHand <=> In(c, hold, pending, Len(pending), Serv, job)
  BY <1>1 DEF InHand, In
<1>3. Queued = TimesOf(pending)
  BY DEF Queued, TimesOf
<1> QED BY <1>1, <1>2, <1>3 DEF Served, Dropped, DisposedNow, Disposed

(* The same, after the step. *)
LEMMA MappedSetsNext ==
    /\ Served' = {c \in 1..arrived' : c \notin InHand' /\ reply'[c] # NoReply}
    /\ Dropped' = {c \in 1..arrived' : c \notin InHand' /\ reply'[c] = NoReply}
    /\ Serving' = {job'[w].time : w \in Serv'} /\ Queued' = TimesOf(pending')
<1>1. Serving' = {job'[w].time : w \in Serv'}
  BY DEF Serving, Serv
<1>2. \A c : c \in InHand' <=> In(c, hold', pending', Len(pending'), Serv', job')
  BY <1>1 DEF InHand, In
<1>3. Queued' = TimesOf(pending')
  BY DEF Queued, TimesOf
<1> QED BY <1>1, <1>2, <1>3 DEF Served, Dropped, DisposedNow, Disposed

(* The load of AdmissionSpec is the one main tests on line 125. *)
LEMMA LoadIsQueues ==
    ASSUME ServerInv
    PROVE  /\ Abs!Load = Len(pending) + Len(busy)
           /\ ~Full => Abs!Load < MaxTasks
           /\ Full => Abs!Load = MaxTasks
<1>1. pending \in Seq(Request) /\ busy \in Seq(BusyRequest)
  BY DEF ServerInv, TypeOK, BusyRequest
<1>2. Len(pending) \in Nat /\ Len(busy) \in Nat
  BY <1>1, SeqLen
<1>3. Cardinality(Serv) = Len(busy)
  BY <1>1, ServFinite, MatchSize DEF ServerInv, BusyMatched
<1>4. Cardinality(Serving) = Cardinality(Serv)
  <2> DEFINE f == [w \in Serv |-> job[w].time]
  <2>1. Serving = {job[w].time : w \in Serv}
    BY MappedSets
  <2>2. \A v, w \in Serv : job[v].time = job[w].time => v = w
    BY DEF ServerInv, ConnInv, ApartInv, Apart, JobsApart
  <2>3. f \in [Serv -> Serving]
    BY <2>1
  <2>4. \A v, w \in Serv : f[v] = f[w] => v = w
    BY <2>2
  <2>5. \A c \in Serving : \E w \in Serv : f[w] = c
    BY <2>1
  <2> HIDE DEF f
  <2> QED BY Zenon, <2>3, <2>4, <2>5, ServFinite, SizePaired
<1>5. Len(Queued) = Len(pending)
  BY <1>1, MappedSets, TimesOfSeq
<1>6. Abs!Load = Len(pending) + Len(busy)
  <2>1. Abs!Cardinality(Serving) = Cardinality(Serving)
    BY DEF Abs!Cardinality, Cardinality
  <2> QED BY <1>3, <1>4, <1>5, <2>1 DEF Abs!Load
<1>7. Len(pending) + Len(busy) <= MaxTasks
  BY DEF ServerInv, CapacityInv, QueueBound, getQsize
<1>8. Full <=> Len(pending) + Len(busy) >= MaxTasks
  BY DEF Full, getQsize
<1> QED BY <1>2, <1>6, <1>7, <1>8, ServerAssumption

(* An arrival disposes of no connection. *)
LEMMA DisposedArrive ==
    ASSUME NEW a \in Nat, NEW n, NEW h, NEW g, NEW q, NEW S, NEW j, h.time = 0, g.time = a + 1
    PROVE  Disposed(a + 1, g, q, n, S, j) = Disposed(a, h, q, n, S, j)
<1>1. \A c \in 1..(a + 1) : (c \in 1..a /\ c # a + 1 /\ c # 0) \/ c = a + 1
  OBVIOUS
<1>2. \A c \in 1..a : c \in 1..(a + 1) /\ c # a + 1 /\ c # 0
  OBVIOUS
<1>3. \A c \in 1..a : In(c, g, q, n, S, j) <=> In(c, h, q, n, S, j)
  BY <1>2 DEF In
<1>4. In(a + 1, g, q, n, S, j)
  BY DEF In
<1> QED BY <1>1, <1>2, <1>3, <1>4 DEF Disposed

(* Nor does an insertion. *)
LEMMA DisposedAdmit ==
    ASSUME NEW a \in Nat, NEW n \in Nat, NEW h, NEW g, NEW q, NEW p, NEW S, NEW j,
           g.time = 0, Extends(p, q, n, h)
    PROVE  SameDisposed(a, h, q, n, S, j, g, p, n + 1, S, j)
<1>1. \A i \in 1..(n + 1) : i \in 1..n \/ i = n + 1
  OBVIOUS
<1>2. n + 1 \in 1..(n + 1) /\ \A i \in 1..n : i \in 1..(n + 1)
  OBVIOUS
<1>3. \A c : (\E i \in 1..(n + 1) : c = p[i].time)
              <=> (c = h.time \/ \E i \in 1..n : c = q[i].time)
  BY <1>1, <1>2 DEF Extends
<1>4. \A c \in 1..a : c # 0
  OBVIOUS
<1>5. \A c \in 1..a : In(c, g, p, n + 1, S, j) <=> In(c, h, q, n, S, j)
  BY <1>3, <1>4 DEF In
<1> QED BY <1>5 DEF Disposed, SameDisposed

(* Closing what the master holds disposes of that one. *)
LEMMA DisposedRefuse ==
    ASSUME NEW a \in Nat, NEW n, NEW h, NEW g, NEW q, NEW S, NEW j, g.time = 0,
           HeldApart(h, q, n, S, j, a)
    PROVE  OneDisposed(h.time, a, h, q, n, S, j, g, q, n, S, j)
<1>1. \A c \in 1..a : c # 0
  OBVIOUS
<1>2. \A c \in 1..a : In(c, h, q, n, S, j) <=> (c = h.time \/ In(c, g, q, n, S, j))
  BY <1>1 DEF In
<1>3. h.time \in 1..a /\ ~In(h.time, g, q, n, S, j)
  BY <1>1 DEF HeldApart, In
<1> QED BY <1>2, <1>3 DEF Disposed, OneDisposed

(* Dropping a queued request disposes of that one. *)
LEMMA DisposedDrop ==
    ASSUME NEW a \in Nat, NEW n \in Nat, NEW H, NEW h, NEW q, NEW p, NEW S, NEW j, H,
           NEW k \in 1..n, Apart(H, h, q, n, S, j, a), Picks(p, q, n, k)
    PROVE  OneDisposed(q[k].time, a, h, q, n, S, j, h, p, n - 1, S, j)
<1>1. \A i \in 1..(n - 1) : p[i].time # q[k].time
  BY Zenon, ApartDrop
<1>2. \A c : (\E i \in 1..n : c = q[i].time)
              <=> (c = q[k].time \/ \E i \in 1..(n - 1) : c = p[i].time)
  <2>1. ASSUME NEW i \in 1..n PROVE q[i].time = q[k].time \/ \E m \in 1..(n - 1) : q[i].time = p[m].time
    BY DEF Picks
  <2>2. ASSUME NEW i \in 1..(n - 1) PROVE \E m \in 1..n : p[i].time = q[m].time
    BY DEF Picks
  <2> QED BY <2>1, <2>2
<1>3. \A c : In(c, h, q, n, S, j) <=> (c = q[k].time \/ In(c, h, p, n - 1, S, j))
  BY <1>2 DEF In
<1>4. q[k].time \in 1..a /\ ~In(q[k].time, h, p, n - 1, S, j)
  <2>1. q[k].time \in 1..a /\ q[k].time # h.time /\ \A w \in S : q[k].time # j[w].time
    BY DEF Apart, QueueApart, CrossApart, HeldApart
  <2> QED BY <1>1, <2>1 DEF In
<1> QED BY <1>3, <1>4 DEF Disposed, OneDisposed

(* Taking the first of the queue disposes of none. *)
LEMMA DisposedTake ==
    ASSUME NEW a \in Nat, NEW n \in Nat, NEW h, NEW q, NEW p, NEW S, NEW j, NEW i, NEW w,
           1 \in 1..n, Picks(p, q, n, 1), Gains(i, j, S, w, q[1])
    PROVE  SameDisposed(a, h, q, n, S, j, h, p, n - 1, S \cup {w}, i)
<1>1. \A c : (\E m \in 1..n : c = q[m].time)
              <=> (c = q[1].time \/ \E m \in 1..(n - 1) : c = p[m].time)
  <2>1. ASSUME NEW m \in 1..n PROVE q[m].time = q[1].time \/ \E l \in 1..(n - 1) : q[m].time = p[l].time
    BY DEF Picks
  <2>2. ASSUME NEW m \in 1..(n - 1) PROVE \E l \in 1..n : p[m].time = q[l].time
    BY DEF Picks
  <2> QED BY <2>1, <2>2
<1>2. \A c : (\E v \in S \cup {w} : c = i[v].time) <=> (c = q[1].time \/ \E v \in S : c = j[v].time)
  BY DEF Gains
<1>3. \A c : In(c, h, p, n - 1, S \cup {w}, i) <=> In(c, h, q, n, S, j)
  BY Zenon, <1>1, <1>2 DEF In
<1> QED BY Zenon, <1>3 DEF Disposed, SameDisposed

(* A worker that finishes disposes of its own. *)
LEMMA DisposedFinish ==
    ASSUME NEW a \in Nat, NEW n \in Nat, NEW H, NEW h, NEW q, NEW S, NEW j, NEW i, NEW w \in S,
           Apart(H, h, q, n, S, j, a), H \/ h.time = 0, \A v \in S : v # w => i[v] = j[v]
    PROVE  OneDisposed(j[w].time, a, h, q, n, S, j, h, q, n, S \ {w}, i)
<1>1. \A v \in S \ {w} : j[v].time # j[w].time
  BY DEF Apart, JobsApart
<1>2. \A c : (\E v \in S : c = j[v].time)
              <=> (c = j[w].time \/ \E v \in S \ {w} : c = i[v].time)
  OBVIOUS
<1>3. \A c : In(c, h, q, n, S, j) <=> (c = j[w].time \/ In(c, h, q, n, S \ {w}, i))
  BY <1>2 DEF In
<1>4. j[w].time \in 1..a /\ ~In(j[w].time, h, q, n, S \ {w}, i)
  <2>1. j[w].time \in 1..a /\ \A m \in 1..n : q[m].time # j[w].time
    BY DEF Apart, JobsApart, CrossApart
  <2>2. j[w].time # h.time
    <3>1. CASE H
      BY <3>1 DEF Apart, HeldApart
    <3>2. CASE h.time = 0
      BY <2>1, <3>2
    <3> QED BY <3>1, <3>2
  <2>3. \A v \in S \ {w} : i[v].time # j[w].time
    BY <1>1
  <2> QED BY <2>1, <2>2, <2>3 DEF In
<1> QED BY <1>3, <1>4 DEF Disposed, OneDisposed

(* Served and dropped stay when none is disposed of. *)
LEMMA DisposeNone ==
    ASSUME DisposedNow' = DisposedNow, \A c \in DisposedNow : reply'[c] = reply[c]
    PROVE  Served' = Served /\ Dropped' = Dropped
BY DEF Served, Dropped

(* One disposed of is served when it has its reply and dropped when it has *)
(* none.                                                                   *)
LEMMA DisposeOne ==
    ASSUME NEW x, DisposedNow' = DisposedNow \cup {x}, reply' = reply
    PROVE  /\ reply[x] = NoReply => Served' = Served /\ Dropped' = Dropped \cup {x}
           /\ reply[x] # NoReply => Served' = Served \cup {x} /\ Dropped' = Dropped
BY DEF Served, Dropped

(* What the master holds has a number. *)
LEMMA HeldNumber ==
    ASSUME ServerInv
    PROVE  /\ Holding => hold.time # 0 /\ hold \in Request
           /\ ~Holding => hold.time = 0
<1>1. Holding => hold \in Request
  BY DEF ServerInv, TypeOK, Holding
<1>2. Holding => hold.time # 0
  BY <1>1, RequestFields DEF NoConn
<1>3. ~Holding => hold.time = 0
  BY DEF ServerInv, ConnInv, HoldInv, NoRequest, NoConn
<1> QED BY <1>1, <1>2, <1>3

(* accept is an abstract arrival. *)
LEMMA ArriveRefines ==
    ASSUME ServerInv, policy' = policy, NEW fd \in Fds, Opens(fd) PROVE Abs!Arrive
<1>1. arrived \in Nat /\ hold.time = 0
  BY OwnersTyped, HeldNumber DEF ServerInv, Opens
<1>2. /\ hold'.time = arrived + 1 /\ arrived' = arrived + 1 /\ arrived < MaxConns
      /\ pending' = pending /\ reply' = reply /\ Serv' = Serv /\ job' = job
  BY DEF Opens, SameWorkers
<1>3. DisposedNow' = DisposedNow
  <2>1. Disposed(arrived + 1, hold', pending, Len(pending), Serv, job) = DisposedNow
    BY <1>1, <1>2, DisposedArrive DEF DisposedNow
  <2> QED BY <1>2, <2>1 DEF DisposedNow
<1>4. Served' = Served /\ Dropped' = Dropped
  BY <1>2, <1>3, DisposeNone
<1>5. Queued' = Queued /\ Serving' = Serving
  BY <1>2, MappedSets, MappedSetsNext
<1> QED BY <1>1, <1>2, <1>4, <1>5, MappedSets, MappedSetsNext DEF Abs!Arrive

(* insertReq is an abstract insertion. *)
LEMMA EnqueueRefines ==
    ASSUME ServerInv, policy' = policy, Admits PROVE Abs!Enqueue
<1>t. TypeOK /\ arrived \in Nat /\ Len(pending) \in Nat /\ pending \in Seq(Request)
  BY OwnersTyped DEF ServerInv
<1>1. hold.time # 0 /\ hold \in Request /\ Abs!Load < MaxTasks
  BY HeldNumber, LoadIsQueues DEF Admits
<1>2. /\ hold'.time = 0 /\ arrived' = arrived /\ pending' = Append(pending, hold)
      /\ reply' = reply /\ Serv' = Serv /\ job' = job
  BY DEF Admits, SameWorkers, NoRequest, NoConn
<1>3. DisposedNow' = DisposedNow
  <2>1. Extends(pending', pending, Len(pending), hold) /\ Len(pending') = Len(pending) + 1
    BY <1>t, PendingGrown DEF Extends
  <2>2. SameDisposed(arrived, hold, pending, Len(pending), Serv, job,
                     hold', pending', Len(pending) + 1, Serv, job)
    BY <1>t, <1>2, <2>1, DisposedAdmit
  <2> QED BY <1>2, <2>1, <2>2 DEF DisposedNow, SameDisposed
<1>4. Served' = Served /\ Dropped' = Dropped
  BY <1>2, <1>3, DisposeNone
<1>5. Serving' = Serving
  BY <1>2, MappedSets, MappedSetsNext
<1>6. Queued' = Append(Queued, hold.time)
  BY <1>t, <1>1, <1>2, TimesOfAppend, MappedSets, MappedSetsNext
<1> QED BY <1>1, <1>2, <1>4, <1>5, <1>6, MappedSets, MappedSetsNext DEF Abs!Enqueue

(* Closing the new connection is the abstract refusal. *)
LEMMA TurnAwayRefines ==
    ASSUME ServerInv, policy' = policy, Refuses PROVE Abs!TurnAway
<1>t. TypeOK /\ arrived \in Nat /\ Len(pending) \in Nat /\ pending \in Seq(Request)
  BY OwnersTyped DEF ServerInv
<1>1. Holding /\ hold.time # 0
  BY HeldNumber DEF Refuses
<1>2. /\ hold'.time = 0 /\ arrived' = arrived /\ pending' = pending
      /\ reply' = reply /\ Serv' = Serv /\ job' = job
  BY DEF Refuses, SameWorkers, NoRequest, NoConn
<1>3. HeldApart(hold, pending, Len(pending), Serv, job, arrived) /\ reply[hold.time] = NoReply
  BY <1>1 DEF ServerInv, ConnInv, ApartInv, Apart, RepliesInv, Replies
<1>4. DisposedNow' = DisposedNow \cup {hold.time}
  <2>1. OneDisposed(hold.time, arrived, hold, pending, Len(pending), Serv, job,
                    hold', pending, Len(pending), Serv, job)
    BY <1>t, <1>2, <1>3, DisposedRefuse
  <2> QED BY <1>2, <2>1 DEF DisposedNow, OneDisposed
<1>5. Served' = Served /\ Dropped' = Dropped \cup {hold.time}
  BY <1>2, <1>3, <1>4, DisposeOne
<1>6. Serving' = Serving /\ Queued' = Queued
  BY <1>2, MappedSets, MappedSetsNext
<1>7. \/ policy = "bf"
      \/ policy = "dt" /\ Abs!Load = MaxTasks
      \/ policy \in {"dh", "random"} /\ Abs!Load = MaxTasks /\ Queued = << >>
  <2>1. Len(pending) = 0 => Queued = << >>
    BY MappedSets DEF TimesOf
  <2> QED BY <2>1, LoadIsQueues DEF Refuses, MayRefuse
<1> QED BY <1>1, <1>2, <1>5, <1>6, <1>7, MappedSets, MappedSetsNext DEF Abs!TurnAway

(* Dropping a queued one is the abstract eviction. *)
LEMMA EvictRefines ==
    ASSUME ServerInv, policy' = policy, NEW k \in 1..Len(pending), Drops(k) PROVE Abs!Evict
<1>t. TypeOK /\ arrived \in Nat /\ Len(pending) \in Nat /\ pending \in Seq(Request)
  BY OwnersTyped DEF ServerInv
<1>1. Holding /\ hold.time # 0
  BY HeldNumber DEF Drops
<1>2. /\ hold' = hold /\ arrived' = arrived /\ Len(pending') = Len(pending) - 1
      /\ reply' = reply /\ Serv' = Serv /\ job' = job
      /\ pending' \in Seq(Request) /\ Without(pending', pending, Len(pending), k)
  BY DEF Drops, SameWorkers
<1>3. /\ Apart(Holding, hold, pending, Len(pending), Serv, job, arrived)
      /\ reply[pending[k].time] = NoReply
  BY <1>1 DEF ServerInv, ConnInv, ApartInv, RepliesInv, Replies
<1>4. DisposedNow' = DisposedNow \cup {pending[k].time}
  <2>1. Picks(pending', pending, Len(pending), k)
    BY <1>t, <1>2, WithoutPicks
  <2>2. OneDisposed(pending[k].time, arrived, hold, pending, Len(pending), Serv, job,
                    hold, pending', Len(pending) - 1, Serv, job)
    BY Zenon, <1>t, <1>1, <1>3, <2>1, DisposedDrop
  <2> QED BY <1>2, <2>2 DEF DisposedNow, OneDisposed
<1>5. Served' = Served /\ Dropped' = Dropped \cup {pending[k].time}
  BY <1>2, <1>3, <1>4, DisposeOne
<1>6. Serving' = Serving
  BY <1>2, MappedSets, MappedSetsNext
<1>7. /\ k \in 1..Len(Queued) /\ Queued[k] = pending[k].time
      /\ Queued' = SubSeq(Queued, 1, k - 1) \o SubSeq(Queued, k + 1, Len(Queued))
  <2>1. /\ TimesOf(pending') = SubSeq(TimesOf(pending), 1, k - 1)
                               \o SubSeq(TimesOf(pending), k + 1, Len(TimesOf(pending)))
        /\ Len(TimesOf(pending)) = Len(pending) /\ TimesOf(pending)[k] = pending[k].time
    BY Zenon, <1>t, <1>2, TimesOfWithout, TimesOfSeq
  <2> QED BY <2>1, MappedSets, MappedSetsNext
<1>8. \/ policy = "dh" /\ Abs!Load = MaxTasks /\ k = 1
      \/ policy = "random"
  BY LoadIsQueues DEF Drops, MayDrop
<1> QED BY Zenon, <1>1, <1>2, <1>5, <1>6, <1>7, <1>8, MappedSets, MappedSetsNext DEF Abs!Evict

(* removeFirstReq by a worker is the abstract start. *)
LEMMA StartRefines ==
    ASSUME ServerInv, policy' = policy, NEW w \in Workers, Takes(w) PROVE Abs!Start
<1>t. TypeOK /\ arrived \in Nat /\ Len(pending) \in Nat /\ pending \in Seq(Request)
  BY OwnersTyped DEF ServerInv
<1>1. /\ hold' = hold /\ arrived' = arrived /\ reply' = reply /\ Len(pending) # 0
      /\ pending' = Tail(pending) /\ Len(pending') = Len(pending) - 1
      /\ Serv' = Serv \cup {w} /\ Without(pending', pending, Len(pending), 1)
  BY DEF Takes
<1>2. 1 \in 1..Len(pending) /\ Gains(job', job, Serv, w, pending[1])
  BY <1>t DEF Takes, Gains
<1>3. DisposedNow' = DisposedNow
  <2>1. Picks(pending', pending, Len(pending), 1)
    BY <1>t, <1>1, <1>2, WithoutPicks
  <2>2. SameDisposed(arrived, hold, pending, Len(pending), Serv, job,
                     hold, pending', Len(pending) - 1, Serv \cup {w}, job')
    BY Zenon, <1>t, <1>2, <2>1, DisposedTake
  <2> QED BY <1>1, <2>2 DEF DisposedNow, SameDisposed
<1>4. Served' = Served /\ Dropped' = Dropped
  BY <1>1, <1>3, DisposeNone
<1>5. Queued' = Tail(Queued) /\ Queued # << >> /\ Head(Queued) = pending[1].time
  BY <1>t, <1>1, TimesOfTail, MappedSets, MappedSetsNext
<1>6. Serving' = Serving \cup {pending[1].time}
  <2>1. {job'[v].time : v \in Serv \cup {w}} = {job[v].time : v \in Serv} \cup {pending[1].time}
    BY <1>2 DEF Gains
  <2> QED BY Zenon, <1>1, <2>1, MappedSets, MappedSetsNext
<1> QED BY <1>1, <1>4, <1>5, <1>6, MappedSets, MappedSetsNext DEF Abs!Start

(* The end of a request is the abstract completion. *)
LEMMA CompleteRefines ==
    ASSUME ServerInv, policy' = policy, NEW w \in Workers, Finishes(w) PROVE Abs!Complete
<1>t. TypeOK /\ arrived \in Nat /\ Len(pending) \in Nat
  BY OwnersTyped DEF ServerInv
<1>1. /\ hold' = hold /\ arrived' = arrived /\ reply' = reply /\ pending' = pending
      /\ w \in Serv /\ Serv' = Serv \ {w} /\ \A v \in Serv : v # w => job'[v] = job[v]
  BY DEF Finishes
<1>2. w \notin Handling
  BY SetsNested DEF Finishes
<1>3. /\ Apart(Holding, hold, pending, Len(pending), Serv, job, arrived)
      /\ reply[job[w].time] # NoReply
  BY <1>1, <1>2 DEF ServerInv, ConnInv, ApartInv, RepliesInv, Replies
<1>4. Holding \/ hold.time = 0
  BY HeldNumber
<1>5. DisposedNow' = DisposedNow \cup {job[w].time}
  <2>1. OneDisposed(job[w].time, arrived, hold, pending, Len(pending), Serv, job,
                    hold, pending, Len(pending), Serv \ {w}, job')
    BY Zenon, <1>t, <1>1, <1>3, <1>4, DisposedFinish
  <2> QED BY Zenon, <1>1, <2>1 DEF DisposedNow, OneDisposed
<1>6. Served' = Served \cup {job[w].time} /\ Dropped' = Dropped
  BY <1>1, <1>3, <1>5, DisposeOne
<1>7. Queued' = Queued
  BY <1>1, MappedSets, MappedSetsNext
<1>8. job[w].time \in Serving /\ Serving' = Serving \ {job[w].time}
  <2>1. \A v \in Serv : v # w => job[v].time # job[w].time
    BY <1>1, <1>3 DEF Apart, JobsApart
  <2>2. {job'[v].time : v \in Serv \ {w}} = {job[v].time : v \in Serv} \ {job[w].time}
    BY <1>1, <2>1
  <2> QED BY <1>1, <2>2, MappedSets, MappedSetsNext
<1> QED BY Zenon, <1>1, <1>6, <1>7, <1>8, MappedSets, MappedSetsNext DEF Abs!Complete

(* Every step is one of the abstract specification, or leaves it alone. *)
LEMMA AdmissionStep ==
    ServerInv /\ [Next]_vars => [Abs!AbsNext]_(Abs!absVars)
<1> SUFFICES ASSUME ServerInv, [Next]_vars
             PROVE  Abs!AbsNext \/ Abs!absVars' = Abs!absVars
  OBVIOUS
<1>p. policy' = policy
  BY RandomStep DEF ServerInv
<1>t. TypeOK /\ arrived \in Nat
  BY OwnersTyped DEF ServerInv
<1>1. ASSUME NEW fd \in Fds, Opens(fd) PROVE Abs!AbsNext
  BY <1>p, <1>1, ArriveRefines DEF Abs!AbsNext
<1>2. CASE Admits
  BY <1>p, <1>2, EnqueueRefines DEF Abs!AbsNext
<1>3. CASE Refuses
  BY <1>p, <1>3, TurnAwayRefines DEF Abs!AbsNext
<1>4. ASSUME NEW k \in 1..Len(pending), Drops(k) PROVE Abs!AbsNext
  BY <1>p, <1>4, EvictRefines DEF Abs!AbsNext
<1>5. ASSUME NEW w \in Workers, Takes(w) PROVE Abs!AbsNext
  BY <1>p, <1>5, StartRefines DEF Abs!AbsNext
<1>6. ASSUME NEW w \in Workers, Finishes(w) PROVE Abs!AbsNext
  BY <1>p, <1>6, CompleteRefines DEF Abs!AbsNext
<1>7. ASSUME hold' = hold, arrived' = arrived, pending' = pending, Serv' = Serv, job' = job,
             \A c \in DisposedNow : reply'[c] = reply[c]
      PROVE  Abs!absVars' = Abs!absVars
  <2>1. DisposedNow' = DisposedNow
    BY <1>7 DEF DisposedNow
  <2>2. Served' = Served /\ Dropped' = Dropped
    BY <1>7, <2>1, DisposeNone
  <2>3. Queued' = Queued /\ Serving' = Serving
    BY <1>7, MappedSets, MappedSetsNext
  <2> QED BY <1>p, <1>7, <2>2, <2>3, MappedSets, MappedSetsNext DEF Abs!absVars
<1>8. ASSUME NEW w \in Workers, Answers(w) PROVE Abs!absVars' = Abs!absVars
  <2>1. w \in Serv
    BY <1>8, SetsNested DEF Answers
  <2>2. \A c \in DisposedNow : c \in 1..arrived /\ c # job[w].time
    BY <2>1 DEF DisposedNow, Disposed, In
  <2>3. 1..arrived \subseteq Conns
    <3>1. arrived \in 0..MaxConns
      BY <1>t DEF TypeOK
    <3> QED BY <3>1, ServerAssumption DEF Conns
  <2>4. \A c \in DisposedNow : reply'[c] = reply[c]
    BY <1>8, <2>2, <2>3 DEF Answers
  <2> QED BY <1>7, <1>8, <2>4 DEF Answers
<1>9. ASSUME NEW w \in Workers, Closes(w) PROVE Abs!absVars' = Abs!absVars
  BY <1>7, <1>9 DEF Closes
<1>10. CASE Keeps
  BY <1>7, <1>10 DEF Keeps, SameWorkers
<1>11. ConnStep
  BY ConnStepOf
<1> QED BY <1>1, <1>2, <1>3, <1>4, <1>5, <1>6, <1>8, <1>9, <1>10, <1>11 DEF ConnStep

(* server.c:125-187 and 229-258: for every pool, queue size, set of        *)
(* descriptors and number of connections, the threads implement            *)
(* AdmissionSpec.  Connections are served in order of arrival, the load    *)
(* stays within the queue size, and a connection is dropped only where the *)
(* overload policy says so.                                                *)
THEOREM ServerImplementsAdmission == Spec => ImplementsAdmission
<1>1. Init => Abs!AbsInit
  <2> SUFFICES ASSUME Init PROVE Abs!AbsInit
    OBVIOUS
  <2>1. Serv = {} /\ Serving = {}
    BY DEF Init, Serving, Serv, InService
  <2>2. Queued = << >> /\ hold.time = 0 /\ arrived = 0
    BY SeqEmpty DEF Init, Queued, NoRequest, NoConn
  <2>3. 1..arrived = {}
    BY <2>2
  <2>4. policy \in {"block", "dt", "dh", "bf", "random"}
    BY ServerAssumption DEF Init
  <2> QED BY <2>1, <2>2, <2>3, <2>4 DEF Abs!AbsInit
<1> QED
  BY <1>1, ConnInvariant, AdmissionStep, PTL DEF Spec, ImplementsAdmission, Abs!AbsSpec
=============================================================================
