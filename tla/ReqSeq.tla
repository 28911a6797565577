------------------------------- MODULE ReqSeq -------------------------------
(***************************************************************************)
(* The request queue of reqQ.c as its callers in server.c see it: a        *)
(* bounded sequence of requests, oldest first.  A request is a record with *)
(* the fields `data' (the socket descriptor) and `time' (insertion_time).  *)
(*                                                                         *)
(* The operators keep the C names and the C conventions: positions count   *)
(* from 0, -1 stands for "not there", an insertion into a full queue is    *)
(* silently ignored.  ReqQ.tla shows that the linked list implements them. *)
(***************************************************************************)
EXTENDS Integers, Sequences

(* getQsize: cur_size. *)
getQsize(q) == Len(q)

(* isQfull and isQempty: tests on cur_size. *)
isQfull(q, limit) == Len(q) = limit

isQempty(q) == Len(q) = 0

(* insertReq at the wrong end, a variant for mutation. *)
insertReqFront(q, limit, r) == IF isQfull(q, limit) THEN q ELSE <<r>> \o q

(* insertReq: append at the tail, and nothing at all when the queue is     *)
(* full: the caller is not told.                                           *)
insertReq(q, limit, r) == IF isQfull(q, limit) THEN q ELSE Append(q, r)

(* The queue left by removeFirstReq. *)
removeFirstReq(q) == IF isQempty(q) THEN q ELSE Tail(q)

(* The queue left by removeReq(index), index counted from 0; an index      *)
(* outside the queue, -1 included, leaves it alone.                        *)
removeReq(q, index) ==
    IF index < 0 \/ index >= Len(q) THEN q
    ELSE [i \in 1..(Len(q) - 1) |-> IF i <= index THEN q[i] ELSE q[i + 1]]

(* findFileId counting from 1, a variant for mutation. *)
findFileIdFromOne(q, fd) ==
    IF \E i \in 1..Len(q) : q[i].data = fd
    THEN CHOOSE i \in 1..Len(q) :
            q[i].data = fd /\ \A j \in 1..(i - 1) : q[j].data # fd
    ELSE -1

(* findFileId: the first position that holds the descriptor, else -1. *)
findFileId(q, fd) ==
    IF \E i \in 1..Len(q) : q[i].data = fd
    THEN (CHOOSE i \in 1..Len(q) :
            q[i].data = fd /\ \A j \in 1..(i - 1) : q[j].data # fd) - 1
    ELSE -1

(* getFirstReqTime and getReqTime: the insertion time of the head, and of  *)
(* the first request with the descriptor; 0 stands for NULL.               *)
getFirstReqTime(q) == IF isQempty(q) THEN 0 ELSE Head(q).time

getReqTime(q, fd) ==
    IF findFileId(q, fd) = -1 THEN 0 ELSE q[findFileId(q, fd) + 1].time
=============================================================================
