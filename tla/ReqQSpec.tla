------------------------------ MODULE ReqQSpec ------------------------------
(***************************************************************************)
(* What the functions of reqQ.c promise to their callers: the operators of *)
(* ReqSeq on one queue, and the values they return.                        *)
(***************************************************************************)
EXTENDS ReqSeq

CONSTANTS
    Limit,   \* the limit given to createReqQueue
    Fds,     \* descriptors
    Times    \* insertion times

VARIABLES
    queue,
    last     \* the last call: its name, its argument, the value returned

Created == queue = << >> /\ last = <<"createReqQueue", Limit, 0>>

Insert(fd, t) ==
    /\ last' = <<"insertReq", fd, 0>>
    /\ queue' = insertReq(queue, Limit, [data |-> fd, time |-> t])

TakeFirst ==
    /\ last' = <<"removeFirstReq", 0,
                IF isQempty(queue) THEN -1 ELSE Head(queue).data>>
    /\ queue' = removeFirstReq(queue)

Take(index) ==
    /\ last' = <<"removeReq", index,
                IF index \in 0..(Len(queue) - 1) THEN queue[index + 1].data
                ELSE -1>>
    /\ queue' = removeReq(queue, index)

Find(fd) ==
    last' = <<"findFileId", fd, findFileId(queue, fd)>> /\ UNCHANGED queue

FirstTime ==
    last' = <<"getFirstReqTime", 0, getFirstReqTime(queue)>> /\ UNCHANGED queue

TimeOf(fd) ==
    last' = <<"getReqTime", fd, getReqTime(queue, fd)>> /\ UNCHANGED queue

Call ==
    \/ \E fd \in Fds, t \in Times : Insert(fd, t)
    \/ TakeFirst
    \/ \E index \in -1..Limit : Take(index)
    \/ \E fd \in Fds : Find(fd) \/ TimeOf(fd)
    \/ FirstTime

Promise == Created /\ [][Call]_<<queue, last>>
=============================================================================
