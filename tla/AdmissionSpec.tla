---------------------------- MODULE AdmissionSpec ----------------------------
(***************************************************************************)
(* What the server of server.c promises about connections, without         *)
(* threads, locks or descriptors: at most Capacity of them are queued or   *)
(* in service, the queue is served in order of arrival, and every          *)
(* connection ends up served or dropped, dropped only where the overload   *)
(* policy allows it.                                                       *)
(***************************************************************************)
EXTENDS Integers, Sequences, FiniteSets

CONSTANTS Capacity, MaxConns

VARIABLES
    policy,   \* the overload policy
    arrived,  \* connections are numbered in order of arrival
    held,     \* the connection being decided upon, 0 when there is none
    queue,    \* the connections waiting for a thread
    serving,  \* the connections in service
    served,
    dropped

absVars == <<policy, arrived, held, queue, serving, served, dropped>>

Load == Len(queue) + Cardinality(serving)

AbsInit ==
    /\ policy \in {"block", "dt", "dh", "bf", "random"}
    /\ arrived = 0 /\ held = 0 /\ queue = << >>
    /\ serving = {} /\ served = {} /\ dropped = {}

Arrive ==
    /\ held = 0 /\ arrived < MaxConns
    /\ arrived' = arrived + 1 /\ held' = arrived + 1
    /\ UNCHANGED <<policy, queue, serving, served, dropped>>

(* The new connection joins the queue: only while there is room. *)
Enqueue ==
    /\ held # 0 /\ Load < Capacity
    /\ queue' = Append(queue, held) /\ held' = 0
    /\ UNCHANGED <<policy, arrived, serving, served, dropped>>

(* The new connection is turned away: under overload, or after the wait of *)
(* "bf"; "dh" and "random" only when nothing in the queue can make room.   *)
TurnAway ==
    /\ held # 0
    /\ \/ policy = "bf"
       \/ policy = "dt" /\ Load = Capacity
       \/ policy \in {"dh", "random"} /\ Load = Capacity /\ queue = << >>
    /\ dropped' = dropped \cup {held} /\ held' = 0
    /\ UNCHANGED <<policy, arrived, queue, serving, served>>

(* A queued connection makes room for the new one: the oldest under "dh",  *)
(* any under "random".                                                     *)
Evict ==
    /\ held # 0
    /\ \E i \in 1..Len(queue) :
          /\ \/ policy = "dh" /\ Load = Capacity /\ i = 1
             \/ policy = "random"
          /\ queue' = SubSeq(queue, 1, i - 1) \o SubSeq(queue, i + 1, Len(queue))
          /\ dropped' = dropped \cup {queue[i]}
    /\ UNCHANGED <<policy, arrived, held, serving, served>>

(* The oldest queued connection is the next one served. *)
Start ==
    /\ queue # << >>
    /\ serving' = serving \cup {Head(queue)} /\ queue' = Tail(queue)
    /\ UNCHANGED <<policy, arrived, held, served, dropped>>

Complete ==
    /\ \E c \in serving : serving' = serving \ {c} /\ served' = served \cup {c}
    /\ UNCHANGED <<policy, arrived, held, queue, dropped>>

AbsNext == Arrive \/ Enqueue \/ TurnAway \/ Evict \/ Start \/ Complete

AbsSpec == AbsInit /\ [][AbsNext]_absVars
=============================================================================
