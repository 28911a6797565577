------------------------------ MODULE Weights ------------------------------
(***************************************************************************)
(* The system calls of OS_HW2_234123/kernel/hw2.c: weights of processes.   *)
(*                                                                         *)
(* The calls take no lock.  Each step of a walk over tasks is one read of  *)
(* a task's weight, and between two steps other processes fork and set     *)
(* their own weights.  The four reads of an ancestor's weight in a round   *)
(* (lines 54, 57, 58 and 59) are four steps: the compiler may load it      *)
(* again for each.  A process in a call does nothing else, so that it      *)
(* finds its own weight unchanged.  Tasks do not exit: the calls would     *)
(* need a lock or a reference to survive that.                             *)
(***************************************************************************)
EXTENDS Integers, Sequences, FiniteSets

CONSTANTS
    N,          \* bound: the processes 1..N, of which 1 is init
    Weights,    \* the arguments of set_weight
    MaxCalls    \* bound: the calls in progress, or returned and not followed by another

ASSUME WeightsAssumption == N \in Nat \ {0} /\ Weights \subseteq Int

VARIABLES
    live,       \* the processes 1..live exist
    parent,     \* real_parent
    weight,     \* the field added to task_struct
    children,   \* the list of children of each process
    call        \* what each process is doing

vars == <<live, parent, weight, children, call>>

Procs == 1..N
ESRCH == -3

(* A process in no call.  In a call: `at' is current_ancestor or the place *)
(* in the list of siblings, and seen remembers what was first read of      *)
(* whom.  torn remembers that an ancestor's weight changed between two     *)
(* reads, before how many children there were when the sum began.          *)
Idle == [op |-> "idle"]

Init ==
    /\ live = 1
    /\ parent = [p \in Procs |-> 1]
    /\ weight = [p \in Procs |-> 0]
    /\ children = [p \in Procs |-> << >>]
    /\ call = [p \in Procs |-> Idle]

Free(p) == p \in 1..live /\ call[p].op \in {"idle", "ancestor", "siblings"}

(* A walk writes nothing but its own variables: one at a time meets all    *)
(* that the forks and set_weights of the others can do to it.              *)
MayCall(p) == Cardinality({q \in Procs \ {p} : call[q] # Idle}) < MaxCalls

(* A call that has returned. *)
ancestorIs(result, seen, torn) ==
    [op |-> "ancestor", result |-> result, seen |-> seen, torn |-> torn]

siblingsAre(result, seen, before) ==
    [op |-> "siblings", result |-> result, seen |-> seen, before |-> before]

(* fork copies the task_struct, the weight included, and appends the child *)
(* to its parent's list.                                                   *)
fork(p) ==
    /\ Free(p) /\ live < N
    /\ live' = live + 1
    /\ parent' = [parent EXCEPT ![live + 1] = p]
    /\ weight' = [weight EXCEPT ![live + 1] = weight[p]]
    /\ children' = [children EXCEPT ![p] = Append(@, live + 1)]
    /\ call' = [call EXCEPT ![p] = Idle]

(* set_weight without its check (mutation). *)
validAny(w) == TRUE

valid(w) == w >= 0

sys_set_weight(p, w) ==
    /\ Free(p)
    /\ weight' = IF valid(w) THEN [weight EXCEPT ![p] = w] ELSE weight
    /\ call' = [call EXCEPT ![p] = Idle]
    /\ UNCHANGED <<live, parent, children>>

-----------------------------------------------------------------------------
(* get_lightest_divisor_ancestor. *)

(* Lines 38-49: init, and a process without a weight, answer at once. *)
startAncestor(p) ==
    /\ Free(p) /\ MayCall(p)
    /\ call' = [call EXCEPT ![p] =
          IF p = 1 \/ weight[p] = 0 THEN ancestorIs(p, <<<<p, weight[p]>>>>, FALSE)
          ELSE [op |-> "climb", at |-> p, cur_weight |-> weight[p],
                min_weight |-> weight[p], min_pid |-> p,
                seen |-> <<<<p, weight[p]>>>>, torn |-> FALSE]]
    /\ UNCHANGED <<live, parent, weight, children>>

(* The end of a round: the loop's test of line 52. *)
round(c) ==
    IF c.at = 1 THEN ancestorIs(c.min_pid, c.seen, c.torn) ELSE [c EXCEPT !.op = "climb"]

(* current_ancestor is read again and has weight w. *)
again(c, op, w) ==
    [c EXCEPT !.op = op, !.torn = @ \/ w # c.seen[Len(c.seen)][2]]

(* Lines 53-56. *)
climb(c, a, w) ==
    LET n == [c EXCEPT !.op = "divide", !.at = a, !.seen = Append(@, <<a, w>>)]
    IN  IF w = 0 THEN round(n) ELSE n

(* Line 57.  A weight that has become 0 since line 54 is divided by. *)
divide(c, w) ==
    LET n == again(c, "compare", w) IN
    IF w = 0 THEN [op |-> "fault", seen |-> n.seen, torn |-> n.torn]
    ELSE IF c.cur_weight % w = 0 THEN n ELSE round(n)

(* An ancestor of equal weight replaces the choice (mutation). *)
lighterOrEqual(w, c) == w <= c.min_weight

lighter(w, c) == w < c.min_weight

(* Line 58. *)
compare(c, w) ==
    LET n == again(c, "take", w) IN IF lighter(w, c) THEN n ELSE round(n)

(* Lines 59-60. *)
take(c, w) == round([again(c, "take", w) EXCEPT !.min_weight = w, !.min_pid = c.at])

(* The next read of the loop of lines 52-64. *)
stepAncestor(p) ==
    LET c == call[p]
        a == parent[c.at]
        n == CASE c.op = "climb" -> climb(c, a, weight[a])
               [] c.op = "divide" -> divide(c, weight[c.at])
               [] c.op = "compare" -> compare(c, weight[c.at])
               [] c.op = "take" -> take(c, weight[c.at])
    IN  /\ c.op \in {"climb", "divide", "compare", "take"}
        /\ call' = [call EXCEPT ![p] = n]
        /\ UNCHANGED <<live, parent, weight, children>>

-----------------------------------------------------------------------------
(* get_siblings_sum. *)
startSiblings(p) ==
    /\ Free(p) /\ MayCall(p)
    /\ call' = [call EXCEPT ![p] =
          IF p = 1 THEN siblingsAre(ESRCH, << >>, 0)
          ELSE [op |-> "sum", at |-> 0, sum |-> 0, seen |-> << >>,
                before |-> Len(children[parent[p]])]]
    /\ UNCHANGED <<live, parent, weight, children>>

(* Line 106. *)
withoutCurrent(sum, p) == sum - weight[p]

(* The walk ends behind the caller (mutation). *)
untilCaller(c, l, p) == c.at < Len(l) /\ ~ \E i \in 1..c.at : l[i] = p

(* The test of list_for_each. *)
moreOf(c, l, p) == c.at < Len(l)

(* One round of list_for_each, or its end. *)
stepSiblings(p) ==
    LET c == call[p]
        l == children[parent[p]]
        q == l[c.at + 1]
    IN  /\ c.op = "sum"
        /\ call' = [call EXCEPT ![p] =
              IF moreOf(c, l, p)
              THEN [c EXCEPT !.at = c.at + 1, !.sum = c.sum + weight[q],
                             !.seen = Append(c.seen, <<q, weight[q]>>)]
              ELSE siblingsAre(IF c.at = 1 THEN ESRCH ELSE withoutCurrent(c.sum, p),
                               c.seen, c.before)]
        /\ UNCHANGED <<live, parent, weight, children>>

Next ==
    \E p \in 1..live :
        \/ fork(p) \/ startAncestor(p) \/ stepAncestor(p)
        \/ startSiblings(p) \/ stepSiblings(p)
        \/ \E w \in Weights : sys_set_weight(p, w)

Spec == Init /\ [][Next]_vars

-----------------------------------------------------------------------------
(* Type invariant: a weight is never negative. *)
WeightsTypeOK ==
    /\ live \in 1..N /\ parent \in [Procs -> Procs]
    /\ weight \in [Procs -> Nat]
    /\ \A p \in Procs :
          call[p].op \in {"idle", "climb", "divide", "compare", "take", "ancestor",
                          "fault", "sum", "siblings"}

(* The reference: of the pids in seen with a weight that divides the       *)
(* caller's, the nearest of the lightest; the caller itself when it has no *)
(* weight.                                                                 *)
Divides(v, w) == v # 0 /\ w % v = 0

LightestDivisor(seen) ==
    LET own == seen[1][2]
        ok == {i \in 1..Len(seen) : Divides(seen[i][2], own)}
        best == CHOOSE i \in ok : \A j \in ok :
                    seen[i][2] < seen[j][2] \/ (seen[i][2] = seen[j][2] /\ i <= j)
    IN  IF own = 0 THEN seen[1][1] ELSE seen[best][1]

(* get_lightest_divisor_ancestor reads the caller, its parent and so on up *)
(* to init, and answers with one of them.  When no weight changed between  *)
(* two reads of it within a round, the answer is the nearest of those with *)
(* the least weight that divides the caller's; other changes, between the  *)
(* rounds and of processes already passed, do not matter.  Line 57 divides *)
(* by zero only when the weight was set to zero since line 54.             *)
AncestorRight ==
    \A p \in Procs :
        LET c == call[p] IN
        /\ c.op = "ancestor" =>
              /\ c.seen[1][1] = p
              /\ c.seen[1][2] # 0 /\ p # 1 => c.seen[Len(c.seen)][1] = 1
              /\ \A i \in 2..Len(c.seen) : c.seen[i][1] = parent[c.seen[i - 1][1]]
              /\ \E i \in 1..Len(c.seen) : c.result = c.seen[i][1]
              /\ ~c.torn => c.result = LightestDivisor(c.seen)
        /\ c.op = "fault" => c.torn

(* The reference: the weights in seen of the processes other than p. *)
SumOthers(seen, p) ==
    LET sum[i \in 0..Len(seen)] ==
          IF i = 0 THEN 0
          ELSE sum[i - 1] + (IF seen[i][1] = p THEN 0 ELSE seen[i][2])
    IN  sum[Len(seen)]

(* get_siblings_sum adds up the weights it read of the other children of   *)
(* the caller's parent, each once, and of all that were there when it      *)
(* began; ESRCH says that there were none.  The caller's weight is         *)
(* subtracted exactly, although it is read a second time at the end.       *)
SiblingsRight ==
    \A p \in Procs : call[p].op = "siblings" /\ p # 1 =>
        LET seen == call[p].seen IN
        /\ call[p].result =
              IF \E i \in 1..Len(seen) : seen[i][1] # p THEN SumOthers(seen, p) ELSE ESRCH
        /\ \A i \in 1..Len(seen) : seen[i][1] = children[parent[p]][i]
        /\ \E i \in 1..Len(seen) : seen[i][1] = p
        /\ call[p].before <= Len(seen)
=============================================================================
