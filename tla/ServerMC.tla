------------------------------ MODULE ServerMC ------------------------------
(***************************************************************************)
(* The server for TLC: the properties that need fairness, and what the     *)
(* documentation says of "bf".                                             *)
(***************************************************************************)
EXTENDS ServerAdmission, TLC

(* Descriptor numbers are interchangeable: Accept may return any free one. *)
FdSymmetry == Permutations(Fds)

(* Every connection that is accepted is eventually closed: no request is   *)
(* stranded in a queue or with a sleeping thread.                          *)
EveryConnectionCloses ==
    \A c \in Conns : (arrived = c) ~> (\A fd \in Fds : fdtab[fd] # c)

(* Under "block" every accepted connection is eventually answered. *)
BlockAnswersAll ==
    \A c \in Conns : (policy = "block" /\ arrived = c) ~> (reply[c] # NoReply)

(* An overload always ends, whatever the policy: no slot is lost between   *)
(* the two queues, so the server does not refuse or block for ever.        *)
OverloadEnds == Full ~> ~Full

(* "bf" as documented: main stays blocked until the queue is empty and no  *)
(* thread handles a request (HW3-wetwinter24.pdf, block_flush), so when it *)
(* has waited and the test of line 180 ends the wait, both are empty.      *)
FlushDrains ==
    [][(policy = "bf" /\ mpc = "recheck" /\ mpc' = "accept")
          => isQempty(pending) /\ isQempty(busy)]_vars
=============================================================================
