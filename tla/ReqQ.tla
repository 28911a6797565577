-------------------------------- MODULE ReqQ --------------------------------
(***************************************************************************)
(* The doubly linked list of OS_HW3_234123/reqQ.c: nodes on a heap, a head *)
(* and a tail pointer, cur_size.  Every action is one call of one of its   *)
(* functions; the server makes them with the mutex held.                   *)
(*                                                                         *)
(* A node's `previous' is not initialised by createRequest, and insertReq  *)
(* does not set it in an empty queue: it holds whatever malloc returned.   *)
(* A freed node keeps no meaning: its fields are reset here, and `fault'   *)
(* records that a call went through a pointer to no allocated node.        *)
(***************************************************************************)
EXTENDS Integers, Sequences

CONSTANTS
    Node,    \* the addresses malloc can return
    Null,
    Limit,   \* max_size
    Fds,
    Times

ASSUME ReqQAssumption == Null \notin Node /\ Limit \in Nat

VARIABLES
    live,      \* the allocated nodes
    data, time, next, previous,
    head, tail, cur_size,
    last,      \* the last call: its name, its argument, the value returned
    fault

fields == <<data, time, next, previous>>
vars == <<live, data, time, next, previous, head, tail, cur_size, last, fault>>

Ptr == Node \cup {Null}

(* tmp after `index' iterations of the loops of lines 211, 264 and 310. *)
nodeAt(index) ==
    LET walk[i \in 0..index] == IF i = 0 THEN head ELSE next[walk[i - 1]]
    IN  walk[index]

(* The nodes a loop up to `index' goes through. *)
walked(index) == {nodeAt(i) : i \in 0..index}

(* Going through the pointers in P: a fault unless all are allocated. *)
deref(P) == fault' = (fault \/ ~(P \subseteq live))

free(n) == live' = live \ {n}

isQempty == cur_size = 0

isQfull == cur_size = Limit

(* createReqQueue *)
Init ==
    /\ live = {}
    /\ data = [n \in Ptr |-> 0] /\ time = [n \in Ptr |-> 0]
    /\ next = [n \in Ptr |-> Null] /\ previous = [n \in Ptr |-> Null]
    /\ head = Null /\ tail = Null /\ cur_size = 0
    /\ last = <<"createReqQueue", Limit, 0>> /\ fault = FALSE

(* `previous' never set by insertReq (mutation). *)
previousUnset(garbage) == garbage

(* Lines 146-153: `previous' is set only behind another node. *)
previousOfNew(garbage) == IF isQempty THEN garbage ELSE tail

(* createRequest: malloc returns a node that is not allocated, with        *)
(* leftovers in `previous'.                                                *)
createRequest(n, garbage, fd, t) ==
    /\ n \notin live
    /\ live' = live \cup {n}
    /\ data' = [data EXCEPT ![n] = fd]
    /\ time' = [time EXCEPT ![n] = t]
    /\ previous' = [previous EXCEPT ![n] = previousOfNew(garbage)]

insertReq(fd, t) ==
    /\ last' = <<"insertReq", fd, 0>>
    /\ \/ /\ isQfull
          /\ UNCHANGED <<live, fields, head, tail, cur_size, fault>>
       \/ /\ ~isQfull
          /\ \E n \in Node, garbage \in Ptr :
                /\ createRequest(n, garbage, fd, t)
                /\ tail' = n
                /\ head' = IF isQempty THEN n ELSE head
                /\ next' = IF isQempty THEN [next EXCEPT ![n] = Null]
                           ELSE [next EXCEPT ![n] = Null, ![tail] = n]
          /\ cur_size' = cur_size + 1
          /\ deref(IF isQempty THEN {} ELSE {tail})

(* The fields of a freed node are reset: nothing may depend on them. *)
forget(f, n, v) == [f EXCEPT ![n] = v]

(* removeFirstReq without its case of a single request (mutation). *)
neverSingle == FALSE

single == cur_size = 1

(* removeFirstReq, called by the server or by removeReq, on a queue that   *)
(* is not empty.                                                           *)
unlinkFirst(name, arg) ==
    LET tmp == next[head] IN
    /\ last' = <<name, arg, data[head]>>
    /\ free(head)
    /\ data' = forget(data, head, 0) /\ time' = forget(time, head, 0)
    /\ next' = forget(next, head, Null)
    /\ IF single
       THEN /\ head' = Null /\ tail' = Null
            /\ previous' = forget(previous, head, Null)
            /\ deref({head})
       ELSE /\ head' = tmp /\ UNCHANGED tail
            /\ previous' = [forget(previous, head, Null) EXCEPT ![tmp] = Null]
            /\ deref({head, tmp})
    /\ cur_size' = cur_size - 1

returnMinusOne(name, arg) ==
    /\ last' = <<name, arg, -1>>
    /\ UNCHANGED <<live, fields, head, tail, cur_size, fault>>

removeFirstReq ==
    IF isQempty THEN returnMinusOne("removeFirstReq", 0)
    ELSE unlinkFirst("removeFirstReq", 0)

(* Lines 231-233: removing the last request moves the tail. *)
tailAfter(index, prev) == IF index >= cur_size - 1 THEN prev ELSE tail

(* removeReq past its early returns: the node is unlinked from both sides. *)
unlinkAt(index) ==
    LET tmp == nodeAt(index)
        prev == previous[tmp]
        nxt == next[tmp]
    IN  /\ last' = <<"removeReq", index, data[tmp]>>
        /\ next' = [forget(next, tmp, Null) EXCEPT ![prev] = nxt]
        /\ previous' = IF nxt = Null THEN forget(previous, tmp, Null)
                       ELSE [forget(previous, tmp, Null) EXCEPT ![nxt] = prev]
        /\ tail' = tailAfter(index, prev)
        /\ free(tmp)
        /\ data' = forget(data, tmp, 0) /\ time' = forget(time, tmp, 0)
        /\ cur_size' = cur_size - 1
        /\ deref(walked(index) \cup {prev} \cup ({nxt} \ {Null}))
        /\ UNCHANGED head

removeReq(index) ==
    IF isQempty \/ index < 0 \/ index >= cur_size
    THEN returnMinusOne("removeReq", index)
    ELSE IF index = 0 \/ previous[nodeAt(index)] = Null
    THEN unlinkFirst("removeReq", index)
    ELSE unlinkAt(index)

(* The search with its bound one too small (mutation). *)
firstWithShort(fd) ==
    IF \E i \in 0..(cur_size - 2) : data[nodeAt(i)] = fd
    THEN CHOOSE i \in 0..(cur_size - 2) :
            data[nodeAt(i)] = fd /\ \A j \in 0..(i - 1) : data[nodeAt(j)] # fd
    ELSE -1

(* The position at which the loop of findFileId or getReqTime stops. *)
firstWith(fd) ==
    IF \E i \in 0..(cur_size - 1) : data[nodeAt(i)] = fd
    THEN CHOOSE i \in 0..(cur_size - 1) :
            data[nodeAt(i)] = fd /\ \A j \in 0..(i - 1) : data[nodeAt(j)] # fd
    ELSE -1

findFileId(fd) ==
    /\ last' = <<"findFileId", fd, firstWith(fd)>>
    /\ deref(IF isQempty THEN {} ELSE
             walked(IF firstWith(fd) = -1 THEN cur_size - 1 ELSE firstWith(fd)))
    /\ UNCHANGED <<live, fields, head, tail, cur_size>>

getFirstReqTime ==
    /\ last' = <<"getFirstReqTime", 0,
                IF isQempty \/ head = Null THEN 0 ELSE time[head]>>
    /\ deref(IF isQempty \/ head = Null THEN {} ELSE {head})
    /\ UNCHANGED <<live, fields, head, tail, cur_size>>

getReqTime(fd) ==
    /\ last' = <<"getReqTime", fd,
                IF firstWith(fd) = -1 THEN 0 ELSE time[nodeAt(firstWith(fd))]>>
    /\ deref(IF isQempty THEN {} ELSE
             walked(IF firstWith(fd) = -1 THEN cur_size - 1 ELSE firstWith(fd)))
    /\ UNCHANGED <<live, fields, head, tail, cur_size>>

Next ==
    \/ \E fd \in Fds, t \in Times : insertReq(fd, t)
    \/ removeFirstReq
    \/ \E index \in -1..Limit : removeReq(index)
    \/ \E fd \in Fds : findFileId(fd) \/ getReqTime(fd)
    \/ getFirstReqTime

Spec == Init /\ [][Next]_vars

-----------------------------------------------------------------------------
(* No call goes through NULL, through a freed node or through the          *)
(* uninitialised `previous' of a node inserted into an empty queue         *)
(* (lines 146-149), although nothing ever initialises it.                  *)
NoFault == ~fault

(* The list is the queue: cur_size nodes from head along next, ending in   *)
(* tail, all distinct, linked backwards too, and no other node allocated.  *)
(* So no node is leaked, and removeReq may trust `previous' at an index    *)
(* above 0 (line 217).                                                     *)
WellLinked ==
    IF cur_size = 0 THEN head = Null /\ tail = Null /\ live = {}
    ELSE /\ nodeAt(cur_size - 1) = tail /\ next[tail] = Null
         /\ live = {nodeAt(i) : i \in 0..(cur_size - 1)}
         /\ \A i, j \in 0..(cur_size - 1) : nodeAt(i) = nodeAt(j) => i = j
         /\ \A i \in 1..(cur_size - 1) : previous[nodeAt(i)] = nodeAt(i - 1)

(* The queue the list stands for. *)
Contents == [i \in 1..cur_size |-> [data |-> data[nodeAt(i - 1)],
                                    time |-> time[nodeAt(i - 1)]]]

Queue == INSTANCE ReqQSpec WITH queue <- Contents

(* Every call on the linked list does to the queue, and returns, what      *)
(* ReqSeq says: the server may treat the list as a sequence.               *)
ListIsQueue == Queue!Promise
=============================================================================
