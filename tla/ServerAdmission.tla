-------------------------- MODULE ServerAdmission --------------------------
(***************************************************************************)
(* The threads of server.c against what they promise: the refinement       *)
(* mapping from Server to AdmissionSpec.                                   *)
(***************************************************************************)
EXTENDS Server

Abs == INSTANCE AdmissionSpec WITH
    Capacity <- MaxTasks,
    held     <- hold.time,
    queue    <- Queued,
    serving  <- Serving,
    served   <- {c \in 1..arrived : c \notin InHand /\ reply[c] # NoReply},
    dropped  <- {c \in 1..arrived : c \notin InHand /\ reply[c] = NoReply}

(* The threads of server.c implement AdmissionSpec: first come first       *)
(* served, never above capacity, every connection served once or dropped   *)
(* as the policy of lines 125-187 allows.                                  *)
ImplementsAdmission == Abs!AbsSpec
=============================================================================
