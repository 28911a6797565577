---------------------------- MODULE SmashProofs ----------------------------
(***************************************************************************)
(* The shell for any number of children, any size of the job table and any *)
(* limit on descriptors: its types, the job table and its relation to the  *)
(* children, which children it may lose sight of, what Ctrl-C may kill and *)
(* where it writes.                                                        *)
(*                                                                         *)
(* The first part is about lists of jobs: the loop of removeFinishedJobs   *)
(* keeps the right entries, by the least number of entries after which it  *)
(* would not.  The inductive invariant adds to the properties what the     *)
(* shell knows of the child it waits for (CurInv, CurListed).              *)
(***************************************************************************)
EXTENDS Smash, WellFoundedInduction, TLAPS

(* What the proofs need of numbers and sequences.                          *)

(* Every non-empty set of naturals has a least element. *)
LEMMA LeastNatural ==
    ASSUME NEW T, T \subseteq Nat, T # {}
    PROVE  \E x \in T : \A y \in T : x <= y
<1> DEFINE R == OpToRel(<, Nat)
<1>1. PICK x \in T : \A y \in T : ~ (<<y, x>> \in R)
  <2> HIDE DEF R
  <2>1. IsWellFoundedOn(R, Nat)
    BY Zenon, NatLessThanWellFounded DEF R
  <2> QED BY Zenon, <2>1, WFMin
<1>2. ASSUME NEW y \in T PROVE x <= y
  <2>1. ~(y < x)
    BY Zenon, <1>1 DEF OpToRel
  <2> QED BY <2>1
<1> QED BY <1>2

(* Sequences. *)

(* What a sequence holds is in its set. *)
LEMMA SeqItem ==
    ASSUME NEW S, NEW s \in Seq(S), NEW n \in 1..Len(s)
    PROVE  s[n] \in S
OBVIOUS

(* The empty sequence, and the others. *)
LEMMA SeqEmpty ==
    ASSUME NEW S
    PROVE  << >> \in Seq(S) /\ Len(<< >>) = 0 /\ \A s \in Seq(S) : s # << >> => Len(s) \in Nat \ {0}
OBVIOUS

(* What Append returns. *)
LEMMA SeqAppend ==
    ASSUME NEW S, NEW s \in Seq(S), NEW e \in S
    PROVE  /\ Append(s, e) \in Seq(S) /\ Len(Append(s, e)) = Len(s) + 1
           /\ Append(s, e) # << >> /\ Append(s, e)[Len(s) + 1] = e
           /\ \A i \in 1..Len(s) : Append(s, e)[i] = s[i]
OBVIOUS

(* What concatenation returns. *)
LEMMA SeqConcat ==
    ASSUME NEW S, NEW s \in Seq(S), NEW t \in Seq(S)
    PROVE  /\ s \o t \in Seq(S) /\ Len(s \o t) = Len(s) + Len(t)
           /\ \A i \in 1..(Len(s) + Len(t)) :
                 (s \o t)[i] = IF i <= Len(s) THEN s[i] ELSE t[i - Len(s)]
OBVIOUS

(* What SubSeq returns. *)
LEMMA SeqPart ==
    ASSUME NEW S, NEW s, NEW m \in Int, NEW n \in Int, \A i \in m..n : s[i] \in S
    PROVE  /\ SubSeq(s, m, n) \in Seq(S)
           /\ Len(SubSeq(s, m, n)) = IF m <= n THEN n - m + 1 ELSE 0
           /\ \A i \in 1..(n - m + 1) : SubSeq(s, m, n)[i] = s[m + i - 1]
OBVIOUS
-----------------------------------------------------------------------------
(* What descriptor 1 is outside a redirection. *)
Outside == IF failed THEN "file" ELSE "tty"

(* In a redirection descriptor 1 is the file and og_stdout_fdt knows what  *)
(* it was before.                                                          *)
StdoutInv ==
    /\ saved \in {"none", Outside}
    /\ out = IF saved = "none" THEN Outside ELSE "file"
    /\ pc = "prompt" => saved = "none"
    /\ pc \in {"redirected", "restore"} => saved # "none"

(* Every step of a redirection, those that fail included, keeps that. *)
LEMMA StdoutStep == StdoutInv /\ [Next]_vars => StdoutInv'
<1> SUFFICES ASSUME StdoutInv, [Next]_vars PROVE StdoutInv'
  OBVIOUS
<1>0. ASSUME UNCHANGED stdout, pc' = finish \/ pc' \notin {"prompt", "redirected", "restore"}
      PROVE  StdoutInv'
  BY <1>0 DEF StdoutInv, Outside, stdout, finish
<1>1. CASE OtherCommand \/ Background \/ Launch \/ Foreground \/ Kill \/ Quit
  BY <1>0, <1>1 DEF OtherCommand, Background, Launch, Foreground, Kill, Quit
<1>2. CASE Redirect \/ RedirectFails
  BY <1>2 DEF Redirect, RedirectFails, StdoutInv, Outside
<1>3. CASE PipeStart \/ PipeFails \/ PipeForkFails
  BY <1>0, <1>3 DEF PipeStart, PipeFails, PipeForkFails
<1>4. CASE SetForeground \/ Wait \/ Back
  BY <1>0, <1>4 DEF SetForeground, Wait, Back
<1>5. CASE Restore
  BY <1>5 DEF Restore, stdoutRestored, StdoutInv, Outside
<1>6. CASE PipeWaitFirst \/ PipeForkSecond \/ PipeWaitSecond \/ PipeWaitAny \/ PipeDone
  BY <1>0, <1>6 DEF PipeWaitFirst, PipeForkSecond, PipeWaitSecond, PipeWaitAny, PipeDone
<1>7. CASE CtrlC \/ PipeWrite \/ PipeRead \/ \E p \in Pids : Exit(p) \/ Stop(p)
  BY <1>7 DEF CtrlC, PipeWrite, PipeRead, Exit, Stop, StdoutInv, Outside, stdout
<1>8. CASE UNCHANGED vars
  BY <1>8 DEF vars, StdoutInv, Outside, stdout
<1> QED
  BY <1>1, <1>2, <1>3, <1>4, <1>5, <1>6, <1>7, <1>8 DEF Next, ShellStep

(* StdoutInv is an invariant of the shell. *)
LEMMA StdoutInvariant == Spec => []StdoutInv
<1>1. Init => StdoutInv
  BY DEF Init, StdoutInv, Outside
<1> QED
  BY <1>1, StdoutStep, PTL DEF Spec

(* However the command of a redirection ends, the shell writes to the      *)
(* terminal when it is at its prompt, unless a close or a dup2 failed      *)
(* while descriptor 1 was the file.                                        *)
THEOREM StdoutSafe == Spec => []StdoutRestored
<1>1. StdoutInv => StdoutRestored
  BY DEF StdoutInv, StdoutRestored, Outside
<1> QED
  BY <1>1, StdoutInvariant, PTL

-----------------------------------------------------------------------------
(* The job table as a list of entries. *)
EntryT == [id : 1..MaxId, pid : Pids]

(* Ids increase along the list and no process is named twice. *)
Ordered(l) ==
    \A i, j \in 1..Len(l) : i < j => l[i].id < l[j].id /\ l[i].pid # l[j].pid

(* f is the loop of removeFinishedJobs over the first n entries of l. *)
Loop(f, l, S, n) ==
    f = [m \in 0..n |-> IF m = 0 THEN << >>
                        ELSE IF l[m].pid \in S THEN f[m - 1]
                        ELSE Append(f[m - 1], l[m])]

(* k is what the loop has kept of the first n entries of l. *)
Part(k, l, S, n) ==
    /\ k \in Seq(EntryT) /\ Len(k) <= n /\ Ordered(k)
    /\ \A a \in 1..Len(k) : \E i \in 1..n : k[a] = l[i] /\ l[i].pid \notin S
    /\ \A i \in 1..n : l[i].pid \notin S => \E a \in 1..Len(k) : k[a] = l[i]

(* The loop is defined for any number of entries. *)
LEMMA LoopExists ==
    ASSUME NEW l, NEW S
    PROVE  \A n \in Nat : \E f : Loop(f, l, S, n)
<1> DEFINE T == {n \in Nat : ~ \E f : Loop(f, l, S, n)}
<1> SUFFICES ASSUME T # {} PROVE FALSE
  OBVIOUS
<1>1. PICK n \in T : \A y \in T : n <= y
  <2>1. T \subseteq Nat
    OBVIOUS
  <2> HIDE DEF T
  <2> QED BY Zenon, <2>1, LeastNatural
<1>2. CASE n = 0
  <2> DEFINE f == [m \in 0..0 |-> << >>]
  <2>1. Loop(f, l, S, 0)
    BY DEF Loop
  <2> QED BY <1>1, <1>2, <2>1
<1>3. CASE n # 0
  <2>1. n - 1 \in Nat /\ n \in Nat /\ n - 1 \notin T
    BY <1>1, <1>3
  <2>2. PICK g : Loop(g, l, S, n - 1)
    BY <2>1
  <2> DEFINE top == IF l[n].pid \in S THEN g[n - 1] ELSE Append(g[n - 1], l[n])
             f == [m \in 0..n |-> IF m = n THEN top ELSE g[m]]
  <2>3. \A m \in 0..n : m # n => m \in 0..(n - 1) /\ f[m] = g[m]
    BY <2>1
  <2>4. \A m \in 0..n : m # 0 => f[m - 1] = g[m - 1]
    BY <2>1
  <2>5. ASSUME NEW m \in 0..n
        PROVE  f[m] = IF m = 0 THEN << >> ELSE IF l[m].pid \in S THEN f[m - 1]
                      ELSE Append(f[m - 1], l[m])
    <3>1. CASE m = n
      <4>1. f[m] = top /\ f[m - 1] = g[m - 1]
        BY <1>3, <2>1, <2>4, <3>1
      <4> HIDE DEF f
      <4> QED BY <1>3, <3>1, <4>1
    <3>2. CASE m # n
      <4>1. m \in 0..(n - 1) /\ f[m] = g[m] /\ (m # 0 => f[m - 1] = g[m - 1])
        BY <2>3, <2>4, <3>2
      <4> HIDE DEF f
      <4> QED BY Zenon, <2>2, <4>1 DEF Loop
    <3> QED BY <3>1, <3>2
  <2>6. Loop(f, l, S, n)
    <3>1. f = [m \in 0..n |-> f[m]]
      OBVIOUS
    <3> HIDE DEF f
    <3> QED BY Zenon, <2>5, <3>1 DEF Loop
  <2> QED BY <1>1, <2>6
<1> QED BY <1>2, <1>3

(* without is the value of that loop at the end of the list. *)
LEMMA WithoutIsLoop ==
    ASSUME NEW l, Len(l) \in Nat, NEW S
    PROVE  \E f : Loop(f, l, S, Len(l)) /\ without(l, S) = f[Len(l)]
<1> DEFINE f == CHOOSE f : Loop(f, l, S, Len(l))
<1>1. Loop(f, l, S, Len(l))
  BY LoopExists
<1>2. without(l, S) = f[Len(l)]
  BY DEF without, Loop
<1> QED BY Zenon, <1>1, <1>2

(* An entry that stays is appended to what was kept (++it). *)
LEMMA PartKeep ==
    ASSUME NEW l \in Seq(EntryT), Ordered(l), NEW S, NEW n \in Nat, n + 1 <= Len(l),
           NEW k, Part(k, l, S, n), l[n + 1].pid \notin S
    PROVE  Part(Append(k, l[n + 1]), l, S, n + 1)
<1> DEFINE e == l[n + 1]
           q == Append(k, e)
<1>0. /\ k \in Seq(EntryT) /\ Len(k) \in Nat /\ Len(k) <= n /\ Ordered(k)
      /\ \A a \in 1..Len(k) : \E i \in 1..n : k[a] = l[i] /\ l[i].pid \notin S
      /\ \A i \in 1..n : l[i].pid \notin S => \E a \in 1..Len(k) : k[a] = l[i]
  BY DEF Part
<1>1. e \in EntryT /\ n + 1 \in 1..Len(l)
  BY SeqItem
<1>2. /\ q \in Seq(EntryT) /\ Len(q) = Len(k) + 1 /\ q[Len(k) + 1] = e
      /\ \A a \in 1..Len(k) : q[a] = k[a]
  <2> HIDE DEF e
  <2> QED BY <1>0, <1>1, SeqAppend
<1>3. ASSUME NEW a \in 1..Len(q) PROVE \E i \in 1..(n + 1) : q[a] = l[i] /\ l[i].pid \notin S
  <2>1. CASE a = Len(k) + 1
    BY <1>1, <1>2, <2>1
  <2>2. CASE a # Len(k) + 1
    <3>1. a \in 1..Len(k) /\ q[a] = k[a]
      BY <1>0, <1>2, <2>2
    <3>2. PICK i \in 1..n : k[a] = l[i] /\ l[i].pid \notin S
      BY <1>0, <3>1
    <3>3. i \in 1..(n + 1)
      OBVIOUS
    <3> HIDE DEF q
    <3> QED BY <3>1, <3>2, <3>3
  <2> QED BY <2>1, <2>2
<1>4. ASSUME NEW i \in 1..(n + 1), l[i].pid \notin S
      PROVE  \E a \in 1..Len(q) : q[a] = l[i]
  <2>1. CASE i = n + 1
    <3>1. Len(k) + 1 \in 1..Len(q)
      BY <1>0, <1>2
    <3> HIDE DEF q
    <3> QED BY <1>2, <2>1, <3>1
  <2>2. CASE i # n + 1
    <3>0. i \in 1..n
      BY <2>2
    <3>1. PICK a \in 1..Len(k) : k[a] = l[i]
      BY <1>0, <1>4, <3>0
    <3>2. a \in 1..Len(q) /\ q[a] = k[a]
      BY <1>0, <1>2
    <3> HIDE DEF q
    <3> QED BY <3>1, <3>2
  <2> QED BY <2>1, <2>2
<1>5. ASSUME NEW a \in 1..Len(q), NEW b \in 1..Len(q), a < b
      PROVE  q[a].id < q[b].id /\ q[a].pid # q[b].pid
  <2>0. a \in 1..Len(k) /\ q[a] = k[a]
    BY <1>0, <1>2, <1>5
  <2>1. CASE b = Len(k) + 1
    <3>1. PICK i \in 1..n : k[a] = l[i]
      BY <1>0, <2>0
    <3>2. i \in 1..Len(l) /\ i < n + 1
      OBVIOUS
    <3>3. l[i].id < e.id /\ l[i].pid # e.pid
      BY <1>1, <3>2 DEF Ordered
    <3>4. q[b] = e
      BY <1>2, <2>1
    <3> HIDE DEF q, e
    <3> QED BY <2>0, <3>1, <3>3, <3>4
  <2>2. CASE b # Len(k) + 1
    <3>1. b \in 1..Len(k) /\ q[b] = k[b]
      BY <1>0, <1>2, <2>2
    <3> HIDE DEF q
    <3>2. Ordered(k)
      BY <1>0
    <3>3. k[a].id < k[b].id /\ k[a].pid # k[b].pid
      BY <1>5, <2>0, <3>1, <3>2 DEF Ordered
    <3> QED BY <2>0, <3>1, <3>3
  <2> QED BY <2>1, <2>2
<1>6. Ordered(q) /\ Len(q) <= n + 1
  <2> HIDE DEF q
  <2> QED BY <1>0, <1>2, <1>5 DEF Ordered
<1> HIDE DEF q
<1>7. Part(q, l, S, n + 1)
  BY <1>2, <1>3, <1>4, <1>6 DEF Part
<1> QED BY <1>7 DEF q

(* An entry whose process was reaped leaves the list (erase). *)
LEMMA PartErase ==
    ASSUME NEW l, NEW S, NEW n \in Nat, NEW k, Part(k, l, S, n), l[n + 1].pid \in S
    PROVE  Part(k, l, S, n + 1)
<1>0. /\ k \in Seq(EntryT) /\ Len(k) \in Nat /\ Len(k) <= n /\ Ordered(k)
      /\ \A a \in 1..Len(k) : \E i \in 1..n : k[a] = l[i] /\ l[i].pid \notin S
      /\ \A i \in 1..n : l[i].pid \notin S => \E a \in 1..Len(k) : k[a] = l[i]
  BY DEF Part
<1>1. ASSUME NEW a \in 1..Len(k) PROVE \E i \in 1..(n + 1) : k[a] = l[i] /\ l[i].pid \notin S
  <2>1. PICK i \in 1..n : k[a] = l[i] /\ l[i].pid \notin S
    BY <1>0
  <2>2. i \in 1..(n + 1)
    OBVIOUS
  <2> QED BY <2>1, <2>2
<1>2. ASSUME NEW i \in 1..(n + 1), l[i].pid \notin S
      PROVE  \E a \in 1..Len(k) : k[a] = l[i]
  <2>1. i \in 1..n
    BY <1>2
  <2> QED BY <1>0, <1>2, <2>1
<1> QED BY <1>0, <1>1, <1>2 DEF Part

(* The loop keeps exactly the entries of the processes outside S, in their *)
(* order.                                                                  *)
LEMMA WithoutFacts ==
    ASSUME NEW l \in Seq(EntryT), Ordered(l), NEW S
    PROVE  Part(without(l, S), l, S, Len(l))
<1>0. Len(l) \in Nat
  OBVIOUS
<1>1. PICK f : Loop(f, l, S, Len(l)) /\ without(l, S) = f[Len(l)]
  BY <1>0, WithoutIsLoop
<1> DEFINE T == {n \in 0..Len(l) : ~Part(f[n], l, S, n)}
<1>2. CASE T = {}
  <2>1. Len(l) \in 0..Len(l)
    BY <1>0
  <2> QED BY <1>1, <1>2, <2>1
<1>3. CASE T # {}
  <2>1. PICK n \in T : \A y \in T : n <= y
    <3>1. T \subseteq Nat
      BY <1>0
    <3> HIDE DEF T
    <3> QED BY Zenon, <1>3, <3>1, LeastNatural
  <2>2. n \in 0..Len(l) /\ n \in Nat
    BY <1>0, <2>1
  <2>3. CASE n = 0
    <3>1. f[0] = << >>
      BY <1>1, <2>2 DEF Loop
    <3>2. Part(<< >>, l, S, 0)
      BY DEF Part, Ordered
    <3> QED BY <2>1, <2>3, <3>1, <3>2
  <2>4. CASE n # 0
    <3>1. n - 1 \in Nat /\ n - 1 \in 0..Len(l) /\ (n - 1) + 1 = n /\ n - 1 \notin T
      BY <1>0, <2>1, <2>2, <2>4
    <3>2. Part(f[n - 1], l, S, n - 1)
      BY <3>1
    <3>3. f[n] = IF l[n].pid \in S THEN f[n - 1] ELSE Append(f[n - 1], l[n])
      BY Zenon, <1>1, <2>2, <2>4 DEF Loop
    <3>4. ~Part(f[n], l, S, n) /\ n <= Len(l)
      BY <2>1, <2>2
    <3> HIDE DEF T
    <3>5. CASE l[n].pid \in S
      <4>1. Part(f[n - 1], l, S, n)
        BY <3>1, <3>2, <3>5, PartErase
      <4> QED BY <3>3, <3>4, <3>5, <4>1
    <3>6. CASE l[n].pid \notin S
      <4>1. Part(Append(f[n - 1], l[n]), l, S, n)
        BY <3>1, <3>2, <3>4, <3>6, PartKeep
      <4> QED BY <3>3, <3>4, <3>6, <4>1
    <3> QED BY <3>5, <3>6
  <2> QED BY <2>3, <2>4
<1> QED BY <1>2, <1>3

(* What the list holds. *)
LEMMA EntryFacts ==
    ASSUME NEW l \in Seq(EntryT), NEW i \in 1..Len(l)
    PROVE  l[i].id \in 1..MaxId /\ l[i].id \in Int /\ l[i].pid \in Pids
<1>1. l[i] \in EntryT
  BY SeqItem
<1> QED BY <1>1 DEF EntryT

(* The largest id of an ordered list is the last one. *)
LEMMA LastIsLargest ==
    ASSUME NEW l \in Seq(EntryT), Ordered(l), l # << >>
    PROVE  /\ lastId(l) \in 1..MaxId /\ lastId(l) \in Ids(l)
           /\ \A i \in 1..Len(l) : l[i].id <= lastId(l)
<1>1. Len(l) \in 1..Len(l) /\ Len(l) \in Nat
  BY SeqEmpty
<1>2. \A i \in 1..Len(l) : l[i].id \in 1..MaxId
  BY EntryFacts
<1>3. \A i \in 1..Len(l) : l[Len(l)].id >= l[i].id
  <2> SUFFICES ASSUME NEW i \in 1..Len(l) PROVE l[Len(l)].id >= l[i].id
    OBVIOUS
  <2>1. CASE i = Len(l)
    BY <1>1, <1>2, <2>1
  <2>2. CASE i < Len(l)
    BY <1>1, <1>2, <2>2 DEF Ordered
  <2> QED BY <1>1, <2>1, <2>2
<1>4. l[Len(l)].id \in Ids(l) /\ \A y \in Ids(l) : l[Len(l)].id >= y
  BY <1>1, <1>3 DEF Ids
<1>5. lastId(l) \in Ids(l) /\ \A y \in Ids(l) : lastId(l) >= y
  BY <1>4 DEF lastId, greatest
<1>6. \A i \in 1..Len(l) : l[i].id \in Ids(l)
  BY DEF Ids
<1>7. Ids(l) \subseteq 1..MaxId
  BY <1>2 DEF Ids
<1> QED BY <1>2, <1>5, <1>6, <1>7

JobsT == [list : Seq(EntryT), max_index : 1..(MaxId + 1), cur_size : 0..MAX_JOBS_NUM]

(* A job table: ordered, counted, and with an unused next id. *)
Table(J) ==
    /\ J \in JobsT /\ J.cur_size = Len(J.list) /\ Ordered(J.list)
    /\ \A i \in 1..Len(J.list) : J.list[i].id < J.max_index

(* Lines 597-618 make a table of any ordered list that is not too long. *)
LEMMA IndexedTable ==
    ASSUME NEW l \in Seq(EntryT), Ordered(l), Len(l) <= MAX_JOBS_NUM
    PROVE  Table(indexed(l)) /\ indexed(l).list = l
<1> DEFINE m == IF l = << >> THEN 1 ELSE lastId(l) + 1
<1>0. MaxId \in Nat /\ MAX_JOBS_NUM \in Nat /\ Len(l) \in Nat
  BY SmashAssumption
<1>1. m \in 1..(MaxId + 1) /\ \A i \in 1..Len(l) : l[i].id < m
  <2>1. CASE l = << >>
    <3>1. Len(l) = 0
      BY <2>1
    <3> QED BY <1>0, <2>1, <3>1
  <2>2. CASE l # << >>
    <3>1. lastId(l) \in 1..MaxId /\ \A i \in 1..Len(l) : l[i].id <= lastId(l)
      BY <2>2, LastIsLargest
    <3>2. \A i \in 1..Len(l) : l[i].id \in Int
      BY EntryFacts
    <3> QED BY <1>0, <2>2, <3>1, <3>2
  <2> QED BY <2>1, <2>2
<1>2. indexed(l) = [list |-> l, max_index |-> m, cur_size |-> Len(l)]
  BY DEF indexed
<1>3. Len(l) \in 0..MAX_JOBS_NUM
  BY <1>0
<1> HIDE DEF m
<1> QED BY <1>1, <1>2, <1>3 DEF Table, JobsT

(* jobs_list.erase: the entries behind the erased one move up. *)
LEMMA EraseFacts ==
    ASSUME NEW l \in Seq(EntryT), NEW i \in 1..Len(l)
    PROVE  /\ erase(l, i) \in Seq(EntryT) /\ Len(erase(l, i)) = Len(l) - 1
           /\ \A a \in 1..(Len(l) - 1) :
                 erase(l, i)[a] = IF a < i THEN l[a] ELSE l[a + 1]
<1> DEFINE u == SubSeq(l, 1, i - 1)
           v == SubSeq(l, i + 1, Len(l))
<1>0. Len(l) \in Nat /\ i \in Nat /\ i >= 1 /\ i <= Len(l)
  OBVIOUS
<1>1. u \in Seq(EntryT) /\ Len(u) = i - 1 /\ \A a \in 1..(i - 1) : u[a] = l[a]
  <2>1. \A a \in 1..(i - 1) : l[a] \in EntryT
    BY <1>0, SeqItem
  <2> QED BY <1>0, <2>1, SeqPart
<1>2. /\ v \in Seq(EntryT) /\ Len(v) = Len(l) - i
      /\ \A a \in 1..(Len(l) - i) : v[a] = l[i + a]
  <2>1. \A a \in (i + 1)..Len(l) : l[a] \in EntryT
    BY <1>0, SeqItem
  <2> QED BY <1>0, <2>1, SeqPart
<1>3. erase(l, i) = u \o v
  BY DEF erase
<1> HIDE DEF u, v
<1>4. /\ u \o v \in Seq(EntryT) /\ Len(u \o v) = Len(l) - 1
      /\ \A a \in 1..(Len(l) - 1) : (u \o v)[a] = IF a <= i - 1 THEN u[a] ELSE v[a - (i - 1)]
  <2>1. /\ u \o v \in Seq(EntryT) /\ Len(u \o v) = Len(u) + Len(v)
        /\ \A a \in 1..(Len(u) + Len(v)) :
              (u \o v)[a] = IF a <= Len(u) THEN u[a] ELSE v[a - Len(u)]
    BY Zenon, <1>1, <1>2, SeqConcat
  <2>2. Len(u) = i - 1 /\ Len(u) + Len(v) = Len(l) - 1
    BY <1>0, <1>1, <1>2
  <2> QED BY <2>1, <2>2
<1>5. ASSUME NEW a \in 1..(Len(l) - 1)
      PROVE  (u \o v)[a] = IF a < i THEN l[a] ELSE l[a + 1]
  <2>1. CASE a < i
    <3>1. a \in 1..(i - 1) /\ a <= i - 1
      BY <1>0, <2>1
    <3> QED BY <1>1, <1>4, <2>1, <3>1
  <2>2. CASE ~(a < i)
    <3>1. ~(a <= i - 1) /\ a - (i - 1) \in 1..(Len(l) - i) /\ i + (a - (i - 1)) = a + 1
      BY <1>0, <2>2
    <3> QED BY Zenon, <1>2, <1>4, <2>2, <3>1
  <2> QED BY Zenon, <2>1, <2>2
<1> QED BY Zenon, <1>3, <1>4, <1>5

(* K holds the entries of J but for the one with the id. *)
Lacks(K, J, id) ==
    /\ \A a \in 1..Len(K.list) :
          \E i \in 1..Len(J.list) : K.list[a] = J.list[i] /\ J.list[i].id # id
    /\ \A i \in 1..Len(J.list) :
          J.list[i].id # id => \E a \in 1..Len(K.list) : K.list[a] = J.list[i]

(* removeJobById leaves a table without the job. *)
LEMMA RemoveFacts ==
    ASSUME NEW J, Table(J), NEW id
    PROVE  Table(removeJobById(J, id)) /\ Lacks(removeJobById(J, id), J, id)
<1> DEFINE l == J.list
           K == removeJobById(J, id)
<1>0. /\ l \in Seq(EntryT) /\ Len(l) \in Nat /\ Ordered(l) /\ J.cur_size = Len(l)
      /\ Len(l) <= MAX_JOBS_NUM /\ J.max_index \in 1..(MaxId + 1)
      /\ \A i \in 1..Len(l) : l[i].id < J.max_index
      /\ MAX_JOBS_NUM \in Nat /\ MaxId \in Nat
  BY SmashAssumption DEF Table, JobsT
<1>1. CASE id \notin Ids(l)
  <2>1. K = J
    BY <1>1 DEF removeJobById
  <2>2. \A i \in 1..Len(l) : l[i].id # id
    BY <1>1 DEF Ids
  <2>3. Lacks(J, J, id)
    BY <2>2 DEF Lacks
  <2> QED BY <2>1, <2>3
<1>2. CASE id \in Ids(l)
  <2> DEFINE i == indexOf(l, id)
             r == erase(l, i)
  <2>1. i \in 1..Len(l) /\ l[i].id = id
    BY <1>2 DEF Ids, indexOf
  <2>2. id # J.max_index
    <3>1. l[i].id < J.max_index /\ l[i].id \in Int /\ J.max_index \in Int
      BY <1>0, <2>1, EntryFacts
    <3> HIDE DEF i
    <3> QED BY <2>1, <3>1
  <2>3. K = [list |-> r, max_index |-> J.max_index, cur_size |-> J.cur_size - 1]
    BY <1>2, <2>2 DEF removeJobById
  <2> HIDE DEF i
  <2>4. /\ r \in Seq(EntryT) /\ Len(r) = Len(l) - 1
        /\ \A a \in 1..(Len(l) - 1) : r[a] = IF a < i THEN l[a] ELSE l[a + 1]
    BY Zenon, <1>0, <2>1, EraseFacts
  <2> HIDE DEF r, K, l
  <2>5. ASSUME NEW a \in 1..Len(r)
        PROVE  \E j \in 1..Len(l) : j # i /\ r[a] = l[j] /\ (j = IF a < i THEN a ELSE a + 1)
    <3>1. CASE a < i
      <4>1. r[a] = l[a] /\ a \in 1..Len(l) /\ a # i
        BY <1>0, <2>1, <2>4, <3>1
      <4> QED BY <3>1, <4>1
    <3>2. CASE ~(a < i)
      <4>1. r[a] = l[a + 1] /\ a + 1 \in 1..Len(l) /\ a + 1 # i
        BY <1>0, <2>1, <2>4, <3>2
      <4> QED BY <3>2, <4>1
    <3> QED BY <3>1, <3>2
  <2>6. \A j \in 1..Len(l) : j # i => l[j].id # id
    <3> SUFFICES ASSUME NEW j \in 1..Len(l), j # i PROVE l[j].id # l[i].id
      BY <2>1
    <3>1. l[j].id \in Int /\ l[i].id \in Int
      BY <1>0, <2>1, EntryFacts
    <3>2. l[j].id < l[i].id \/ l[i].id < l[j].id
      BY <1>0, <2>1 DEF Ordered
    <3> QED BY <3>1, <3>2
  <2>7. ASSUME NEW j \in 1..Len(l), l[j].id # id PROVE \E a \in 1..Len(r) : r[a] = l[j]
    <3>0. j # i
      BY <2>1, <2>7
    <3>1. CASE j < i
      <4>1. j \in 1..Len(r) /\ r[j] = l[j]
        BY <1>0, <2>1, <2>4, <3>1
      <4> QED BY <4>1
    <3>2. CASE j > i
      <4>1. j - 1 \in 1..Len(r) /\ j - 1 \in 1..(Len(l) - 1) /\ ~(j - 1 < i) /\ (j - 1) + 1 = j
        BY <1>0, <2>1, <2>4, <3>2
      <4>2. r[j - 1] = l[j]
        BY <2>4, <4>1
      <4> QED BY <4>1, <4>2
    <3> QED BY <2>1, <3>0, <3>1, <3>2
  <2>8. Lacks(K, J, id)
    <3>1. K.list = r /\ J.list = l
      BY <2>3 DEF l
    <3>2. ASSUME NEW a \in 1..Len(r)
          PROVE  \E j \in 1..Len(l) : r[a] = l[j] /\ l[j].id # id
      <4>1. PICK j \in 1..Len(l) : j # i /\ r[a] = l[j]
        BY <2>5
      <4>2. l[j].id # id
        BY <2>6, <4>1
      <4> QED BY <4>1, <4>2
    <3> QED BY <2>7, <3>1, <3>2 DEF Lacks
  <2>9. Ordered(r)
    <3> SUFFICES ASSUME NEW a \in 1..Len(r), NEW b \in 1..Len(r), a < b
                 PROVE  r[a].id < r[b].id /\ r[a].pid # r[b].pid
      BY DEF Ordered
    <3>1. PICK x \in 1..Len(l) : r[a] = l[x] /\ (x = IF a < i THEN a ELSE a + 1)
      BY <2>5
    <3>2. PICK y \in 1..Len(l) : r[b] = l[y] /\ (y = IF b < i THEN b ELSE b + 1)
      BY <2>5
    <3>3. x < y
      BY <1>0, <2>1, <2>4, <3>1, <3>2
    <3>4. l[x].id < l[y].id /\ l[x].pid # l[y].pid
      BY <1>0, <3>3 DEF Ordered
    <3> QED BY <3>1, <3>2, <3>4
  <2>10. \A a \in 1..Len(r) : r[a].id < J.max_index
    BY Zenon, <1>0, <2>5
  <2>11. Len(r) \in 0..MAX_JOBS_NUM /\ Len(r) = J.cur_size - 1
    BY <1>0, <2>1, <2>4
  <2>12. Table(K)
    BY <1>0, <2>3, <2>4, <2>9, <2>10, <2>11 DEF Table, JobsT
  <2> QED BY <2>8, <2>12 DEF K
<1> QED BY <1>1, <1>2

(* K is J with the new job p at its end, or J itself when it was full. *)
Gets(K, J, p) ==
    \/ K = J /\ J.cur_size = MAX_JOBS_NUM
    \/ /\ Len(K.list) = Len(J.list) + 1
       /\ K.list[Len(J.list) + 1].pid = p
       /\ \A i \in 1..Len(J.list) : K.list[i] = J.list[i]

(* addJob leaves a table. *)
LEMMA AddFacts ==
    ASSUME NEW J, Table(J), J.max_index <= MaxId, NEW p \in Pids,
           \A i \in 1..Len(J.list) : J.list[i].pid # p
    PROVE  Table(addJob(J, p)) /\ Gets(addJob(J, p), J, p)
<1> DEFINE l == J.list
           e == Entry(J.max_index, p)
           K == addJob(J, p)
           q == Append(l, e)
<1>0. /\ l \in Seq(EntryT) /\ Len(l) \in Nat /\ Ordered(l) /\ J.cur_size = Len(l)
      /\ Len(l) <= MAX_JOBS_NUM /\ J.max_index \in 1..(MaxId + 1)
      /\ \A i \in 1..Len(l) : l[i].id < J.max_index
      /\ MAX_JOBS_NUM \in Nat /\ MaxId \in Nat
  BY SmashAssumption DEF Table, JobsT
<1>1. CASE J.cur_size = MAX_JOBS_NUM
  <2>1. K = J
    BY <1>1 DEF addJob
  <2> QED BY <1>1, <2>1 DEF Gets
<1>2. CASE J.cur_size # MAX_JOBS_NUM
  <2>1. K = [list |-> q, max_index |-> J.max_index + 1, cur_size |-> J.cur_size + 1]
    BY <1>2 DEF addJob
  <2>2. e \in EntryT /\ e.id = J.max_index /\ e.pid = p
    BY <1>0 DEF Entry, EntryT
  <2>3. /\ q \in Seq(EntryT) /\ Len(q) = Len(l) + 1 /\ q[Len(l) + 1] = e
        /\ \A i \in 1..Len(l) : q[i] = l[i]
    <3> HIDE DEF e
    <3> QED BY <1>0, <2>2, SeqAppend
  <2>4. \A i \in 1..Len(l) : l[i].pid # p
    OBVIOUS
  <2> HIDE DEF l, e, q, K
  <2>5. Gets(K, J, p)
    BY <2>1, <2>2, <2>3 DEF Gets, l
  <2>6. \A i \in 1..Len(q) : q[i].id < J.max_index + 1
    <3> SUFFICES ASSUME NEW i \in 1..Len(q) PROVE q[i].id < J.max_index + 1
      OBVIOUS
    <3>1. CASE i = Len(l) + 1
      BY <1>0, <2>2, <2>3, <3>1
    <3>2. CASE i # Len(l) + 1
      <4>1. i \in 1..Len(l) /\ q[i] = l[i]
        BY <1>0, <2>3, <3>2
      <4>2. l[i].id \in Int
        BY <1>0, <4>1, EntryFacts
      <4> QED BY <1>0, <4>1, <4>2
    <3> QED BY <3>1, <3>2
  <2>7. Ordered(q)
    <3> SUFFICES ASSUME NEW a \in 1..Len(q), NEW b \in 1..Len(q), a < b
                 PROVE  q[a].id < q[b].id /\ q[a].pid # q[b].pid
      BY DEF Ordered
    <3>0. a \in 1..Len(l) /\ q[a] = l[a]
      BY <1>0, <2>3
    <3>1. CASE b = Len(l) + 1
      <4>1. q[b] = e
        BY <2>3, <3>1
      <4> QED BY <1>0, <2>2, <2>4, <3>0, <4>1
    <3>2. CASE b # Len(l) + 1
      <4>1. b \in 1..Len(l) /\ q[b] = l[b]
        BY <1>0, <2>3, <3>2
      <4> QED BY <1>0, <3>0, <4>1 DEF Ordered
    <3> QED BY <3>1, <3>2
  <2>8. /\ J.cur_size + 1 = Len(q) /\ J.cur_size + 1 \in 0..MAX_JOBS_NUM
        /\ J.max_index + 1 \in 1..(MaxId + 1)
    BY <1>0, <1>2, <2>3
  <2>9. Table(K)
    BY <2>1, <2>3, <2>6, <2>7, <2>8 DEF Table, JobsT
  <2> QED BY <2>5, <2>9 DEF K
<1> QED BY <1>1, <1>2

-----------------------------------------------------------------------------
(* The inductive invariant. *)
Waiting == {"forked", "wait", "back", "pipe1", "pipe2"}

Waited == {"back", "pipeFork", "pipeDone"}

States == {"none", "run", "stop", "zombie"}

Kids(P, U) == P \in [Pids -> States] /\ U \subseteq {p \in Pids : P[p] = "stop"}

PipeType ==
    first \in Pids \cup {NoPid} /\ fds \in 0..FdLimit /\ buffer \in 0..Capacity

TableInv == jobs \in JobsT /\ (pc # "exited" => Table(jobs))

(* The child the shell waits for is in the table exactly when it got there *)
(* by fg, under the id fg remembers.                                       *)
CurListed == \A i \in 1..Len(jobs.list) : jobs.list[i].pid = cur <=> jobs.list[i].id = curId

(* The shell waits for a child from the fork, or from fg, until it is back *)
(* at its prompt; when waitpid has reported the end, the child is no more. *)
(* In a pipe whose fork failed there may be no child of its own.           *)
CurInv ==
    /\ cur \in Pids \cup {NoPid}
    /\ pc \in Waiting => cur \in Pids
    /\ pc \notin Waiting \cup Waited => cur = NoPid
    /\ curId # 0 => pc \in {"wait", "back"}
    /\ pc \in Waited => \/ cur = NoPid
                        \/ status = "stopped"
                        \/ status = "ended" /\ proc[cur] = "none"
    /\ fg = smash \/ (fg = cur /\ pc \in {"wait", "back"})

SmashInv ==
    Kids(proc, unseen) /\ PipeType /\ TableInv /\ JobsAreChildren /\ CurListed /\ CurInv

Alive(l, P) == \A i \in 1..Len(l) : P[l[i].pid] # "none"

(* J and P are the table and the children after removeFinishedJobs. *)
SweptTo(J, P) ==
    /\ Table(J) /\ Alive(J.list, P) /\ P \in [Pids -> States]
    /\ \A p \in Pids : /\ proc[p] = "none" => P[p] = "none"
                       /\ proc[p] = "stop" <=> P[p] = "stop"
                       /\ p \in Pidsof(jobs.list) /\ P[p] # "none" => p \in Pidsof(J.list)

(* Before a command the shell waits for nobody, and every job is a child. *)
LEMMA ReadyFacts ==
    ASSUME SmashInv, Ready
    PROVE  /\ cur = NoPid /\ curId = 0 /\ fg = smash
           /\ Table(jobs) /\ Alive(jobs.list, proc)
BY DEF SmashInv, Ready, CurInv, Waiting, Waited, TableInv, JobsAreChildren, Alive

(* removeFinishedJobs never meets a pid that is no child; it reaps the     *)
(* zombies of the table and drops exactly their jobs.                      *)
LEMMA SweepFacts ==
    ASSUME SmashInv, Ready
    PROVE  SweptTo(removeFinishedJobs, procSwept)
<1> DEFINE l == jobs.list
           k == without(l, reaped)
<1>0. /\ l \in Seq(EntryT) /\ Len(l) \in Nat /\ Ordered(l) /\ Len(l) <= MAX_JOBS_NUM
      /\ Alive(l, proc) /\ proc \in [Pids -> States] /\ MAX_JOBS_NUM \in Nat
  <2>1. Table(jobs) /\ Alive(l, proc)
    BY ReadyFacts
  <2> QED BY <2>1, SmashAssumption DEF Table, JobsT, SmashInv, Kids
<1>1. failsAt(l) = {}
  BY <1>0 DEF failsAt, Alive
<1>2. visited(l) = l
  BY <1>1 DEF visited
<1>3. reaped = {p \in Pidsof(l) : proc[p] = "zombie"}
  BY <1>2 DEF reaped, finished
<1>4. removeFinishedJobs = indexed(k)
  BY <1>1 DEF removeFinishedJobs
<1>5. Part(k, l, reaped, Len(l))
  BY <1>0, WithoutFacts
<1> HIDE DEF l, k
<1>6. /\ k \in Seq(EntryT) /\ Len(k) \in Nat /\ Len(k) <= Len(l) /\ Ordered(k)
      /\ \A a \in 1..Len(k) : \E i \in 1..Len(l) : k[a] = l[i] /\ l[i].pid \notin reaped
      /\ \A i \in 1..Len(l) : l[i].pid \notin reaped => \E a \in 1..Len(k) : k[a] = l[i]
  BY <1>5 DEF Part
<1>7. Table(indexed(k)) /\ indexed(k).list = k
  <2>1. Len(k) <= MAX_JOBS_NUM
    BY <1>0, <1>6
  <2> QED BY <1>6, <2>1, IndexedTable
<1>8. ASSUME NEW p \in Pids
      PROVE  /\ procSwept[p] \in States /\ (proc[p] = "none" => procSwept[p] = "none")
             /\ proc[p] = "stop" <=> procSwept[p] = "stop"
             /\ p \notin reaped => procSwept[p] = proc[p]
             /\ p \in reaped => procSwept[p] = "none"
  <2>1. procSwept[p] = IF p \in reaped /\ proc[p] = "zombie" THEN "none" ELSE proc[p]
    BY DEF procSwept
  <2>2. proc[p] \in States /\ (p \in reaped => proc[p] = "zombie")
    BY <1>0, <1>3
  <2> QED BY <2>1, <2>2 DEF States
<1>9. procSwept \in [Pids -> States]
  <2>1. procSwept = [p \in Pids |-> procSwept[p]]
    BY DEF procSwept
  <2> QED BY <1>8, <2>1
<1>10. Alive(k, procSwept)
  <2> SUFFICES ASSUME NEW a \in 1..Len(k) PROVE procSwept[k[a].pid] # "none"
    BY DEF Alive
  <2>1. PICK i \in 1..Len(l) : k[a] = l[i] /\ l[i].pid \notin reaped
    BY <1>6
  <2>2. l[i].pid \in Pids /\ proc[l[i].pid] # "none"
    BY <1>0, EntryFacts DEF Alive
  <2> QED BY <1>8, <2>1, <2>2
<1>11. ASSUME NEW p \in Pids, p \in Pidsof(l), procSwept[p] # "none"
       PROVE  p \in Pidsof(k)
  <2>1. PICK i \in 1..Len(l) : l[i].pid = p
    BY <1>11 DEF Pidsof
  <2>2. p \notin reaped
    BY <1>8, <1>11
  <2>3. PICK a \in 1..Len(k) : k[a] = l[i]
    BY <1>6, <2>1, <2>2
  <2> QED BY <2>1, <2>3 DEF Pidsof
<1> QED BY <1>4, <1>7, <1>8, <1>9, <1>10, <1>11 DEF SweptTo, l

(* A command that touches nothing but the table keeps the invariant. *)
LEMMA SweptStep ==
    ASSUME SmashInv, Ready, SweptTo(jobs', proc'), UNCHANGED <<unseen, cur, curId, fg>>,
           pc' \notin Waiting \cup Waited, PipeType'
    PROVE  SmashInv'
<1>0. cur = NoPid /\ curId = 0 /\ fg = smash /\ Kids(proc, unseen)
  BY ReadyFacts DEF SmashInv
<1>1. Kids(proc', unseen')
  BY <1>0 DEF SweptTo, Kids
<1>2. TableInv'
  BY DEF SweptTo, TableInv, Table
<1>3. JobsAreChildren'
  BY DEF SweptTo, Alive, JobsAreChildren
<1>4. CurListed'
  <2>1. cur' = NoPid /\ curId' = 0 /\ jobs'.list \in Seq(EntryT)
    BY <1>0 DEF SweptTo, Table, JobsT
  <2>2. \A i \in 1..Len(jobs'.list) : jobs'.list[i].pid \in Pids /\ jobs'.list[i].id \in 1..MaxId
    BY <2>1, EntryFacts
  <2> QED BY <2>1, <2>2, PidAssumption DEF CurListed, NoPid
<1>5. CurInv'
  BY <1>0 DEF CurInv, Waiting, Waited
<1> QED BY <1>1, <1>2, <1>3, <1>4, <1>5 DEF SmashInv

(* The entries of a table have the pids of children and ids from 1 on. *)
LEMMA TableEntries ==
    ASSUME NEW J \in JobsT
    PROVE  \A i \in 1..Len(J.list) :
              /\ J.list[i].pid \in Pids /\ J.list[i].pid # NoPid
              /\ J.list[i].id \in Int /\ J.list[i].id # 0
<1>1. J.list \in Seq(EntryT)
  BY DEF JobsT
<1>2. \A i \in 1..Len(J.list) : J.list[i].pid \in Pids /\ J.list[i].id \in 1..MaxId
  BY <1>1, EntryFacts
<1> QED BY <1>2, PidAssumption DEF NoPid

(* A fork in the foreground: the new child is in no entry of the table. *)
LEMMA ForkStep ==
    ASSUME SmashInv, Ready, NEW P, SweptTo(jobs', P), NEW p \in Pids, P[p] = "none",
           proc' = [P EXCEPT ![p] = "run"], cur' = p, UNCHANGED <<unseen, curId, fg>>,
           pc' \in {"forked", "pipe1"}, PipeType'
    PROVE  SmashInv'
<1>0. /\ curId = 0 /\ fg = smash /\ Kids(proc, unseen) /\ Table(jobs') /\ jobs' \in JobsT
      /\ Alive(jobs'.list, P) /\ P \in [Pids -> States]
  BY ReadyFacts DEF SmashInv, SweptTo, Table
<1>1. Kids(proc', unseen')
  <2>1. proc' \in [Pids -> States]
    BY <1>0 DEF States
  <2>2. ASSUME NEW q \in unseen PROVE q \in Pids /\ proc'[q] = "stop"
    <3>1. q \in Pids /\ P[q] = "stop"
      BY <1>0 DEF Kids, SweptTo
    <3> QED BY <1>0, <3>1
  <2> QED BY <2>1, <2>2 DEF Kids
<1>2. TableInv'
  BY <1>0 DEF TableInv
<1>e. \A i \in 1..Len(jobs'.list) :
         /\ jobs'.list[i].pid \in Pids /\ jobs'.list[i].pid # p
         /\ jobs'.list[i].id # 0
  BY <1>0, TableEntries DEF Alive
<1>3. JobsAreChildren'
  BY <1>0, <1>e DEF Alive, JobsAreChildren
<1>4. CurListed'
  BY <1>0, <1>e DEF CurListed
<1>5. CurInv'
  BY <1>0 DEF CurInv, Waiting, Waited
<1> QED BY <1>1, <1>2, <1>3, <1>4, <1>5 DEF SmashInv

(* A fork in the background: the new child enters the table, unless this   *)
(* is full.                                                                *)
LEMMA BackgroundStep ==
    ASSUME SmashInv, Ready, NEW J, NEW P, SweptTo(J, P), J.max_index <= MaxId,
           NEW p \in Pids, P[p] = "none", proc' = [P EXCEPT ![p] = "run"],
           jobs' = addJob(J, p), UNCHANGED <<unseen, cur, curId, fg>>,
           pc' \notin Waiting \cup Waited, PipeType'
    PROVE  SmashInv' /\ Gets(jobs', J, p)
<1>0. /\ cur = NoPid /\ curId = 0 /\ fg = smash /\ Kids(proc, unseen) /\ Table(J)
      /\ J \in JobsT /\ Alive(J.list, P) /\ P \in [Pids -> States]
  BY ReadyFacts DEF SmashInv, SweptTo, Table
<1>1. Kids(proc', unseen')
  <2>1. proc' \in [Pids -> States]
    BY <1>0 DEF States
  <2>2. ASSUME NEW q \in unseen PROVE q \in Pids /\ proc'[q] = "stop"
    <3>1. q \in Pids /\ P[q] = "stop"
      BY <1>0 DEF Kids, SweptTo
    <3> QED BY <1>0, <3>1
  <2> QED BY <2>1, <2>2 DEF Kids
<1>e. \A i \in 1..Len(J.list) : J.list[i].pid \in Pids /\ J.list[i].pid # p
  BY <1>0, TableEntries DEF Alive
<1>2. Table(jobs') /\ Gets(jobs', J, p)
  BY <1>0, <1>e, AddFacts
<1>t. jobs' \in JobsT /\ J.list \in Seq(EntryT) /\ Len(J.list) \in Nat
  BY <1>0, <1>2 DEF Table, JobsT
<1>3. ASSUME NEW i \in 1..Len(jobs'.list) PROVE proc'[jobs'.list[i].pid] # "none"
  <2>1. CASE i \in 1..Len(J.list) /\ jobs'.list[i] = J.list[i]
    BY <1>0, <1>e, <2>1 DEF Alive
  <2>2. CASE jobs'.list[i].pid = p
    BY <1>0, <2>2
  <2> QED BY <1>2, <1>t, <2>1, <2>2 DEF Gets
<1>4. JobsAreChildren' /\ TableInv'
  BY <1>2, <1>3, <1>t DEF JobsAreChildren, TableInv
<1>5. CurListed'
  BY <1>0, <1>t, TableEntries DEF CurListed
<1>6. CurInv'
  BY <1>0 DEF CurInv, Waiting, Waited
<1> QED BY <1>1, <1>2, <1>4, <1>5, <1>6 DEF SmashInv

(* fg: the job is found by its id, and only it has that id or that pid. *)
LEMMA FgStep ==
    ASSUME SmashInv, Ready, SweptTo(jobs', proc'), NEW id \in Ids(jobs'.list),
           curId' = id, cur' = getJobById(jobs'.list, id).pid,
           fg' = getJobById(jobs'.list, id).pid, unseen' = unseen, pc' = "wait", PipeType'
    PROVE  SmashInv'
<1> DEFINE l == jobs'.list
           x == indexOf(l, id)
<1>0. /\ Kids(proc, unseen) /\ Table(jobs') /\ jobs' \in JobsT /\ Alive(l, proc')
      /\ l \in Seq(EntryT) /\ Ordered(l) /\ Len(l) \in Nat
  BY DEF SmashInv, SweptTo, Table, JobsT
<1>1. x \in 1..Len(l) /\ l[x].id = id /\ cur' = l[x].pid
  BY DEF Ids, indexOf, getJobById
<1> HIDE DEF l, x
<1>2. \A i \in 1..Len(l) : l[i].pid \in Pids /\ l[i].id \in Int
  BY Zenon, <1>0, EntryFacts
<1>3. ASSUME NEW i \in 1..Len(l) PROVE l[i].pid = l[x].pid <=> l[i].id = l[x].id
  <2>1. CASE i = x
    BY <2>1
  <2>2. CASE i < x
    BY <1>0, <1>1, <1>2, <2>2 DEF Ordered
  <2>3. CASE i > x
    BY <1>0, <1>1, <1>2, <2>3 DEF Ordered
  <2> QED BY <1>0, <1>1, <2>1, <2>2, <2>3
<1>4. CurListed'
  BY <1>1, <1>3 DEF CurListed, l
<1>5. Kids(proc', unseen')
  BY <1>0 DEF SweptTo, Kids
<1>6. TableInv' /\ JobsAreChildren'
  BY <1>0 DEF TableInv, JobsAreChildren, Alive, l
<1>7. CurInv'
  BY <1>1, <1>2 DEF CurInv, Waiting, Waited, l
<1> QED BY <1>4, <1>5, <1>6, <1>7 DEF SmashInv

(* kill: a signal changes the state of a job, and reaps nothing. *)
LEMMA KillStep ==
    ASSUME SmashInv, Ready, NEW P, SweptTo(jobs', P), NEW p \in Pids, NEW v \in States,
           v = "none" <=> P[p] = "none", proc' = [P EXCEPT ![p] = v],
           unseen' \subseteq unseen \cup {p}, p \in unseen' => v = "stop",
           UNCHANGED <<cur, curId, fg>>, pc' \notin Waiting \cup Waited, PipeType'
    PROVE  SmashInv'
<1>0. /\ cur = NoPid /\ curId = 0 /\ fg = smash /\ Kids(proc, unseen) /\ Table(jobs')
      /\ jobs' \in JobsT /\ Alive(jobs'.list, P) /\ P \in [Pids -> States]
  BY ReadyFacts DEF SmashInv, SweptTo, Table
<1>1. Kids(proc', unseen')
  <2>1. proc' \in [Pids -> States]
    BY <1>0
  <2>2. ASSUME NEW q \in unseen' PROVE q \in Pids /\ proc'[q] = "stop"
    <3>1. CASE q = p
      BY <1>0, <3>1
    <3>2. CASE q # p
      <4>1. q \in unseen
        BY <3>2
      <4>2. q \in Pids /\ P[q] = "stop"
        BY <1>0, <4>1 DEF Kids, SweptTo
      <4> QED BY <1>0, <3>2, <4>2
    <3> QED BY <3>1, <3>2
  <2> QED BY <2>1, <2>2 DEF Kids
<1>2. \A i \in 1..Len(jobs'.list) : jobs'.list[i].pid \in Pids
  BY <1>0, TableEntries
<1>3. \A q \in Pids : P[q] # "none" => proc'[q] # "none"
  BY <1>0
<1>4. TableInv' /\ JobsAreChildren'
  BY <1>0, <1>2, <1>3 DEF TableInv, JobsAreChildren, Alive
<1>5. CurListed'
  BY <1>0, TableEntries DEF CurListed
<1>6. CurInv'
  BY <1>0 DEF CurInv, Waiting, Waited
<1> QED BY <1>1, <1>4, <1>5, <1>6 DEF SmashInv

(* quit kill: the jobs are killed and the table is emptied. *)
LEMMA QuitStep ==
    ASSUME SmashInv, Ready, NEW J, NEW P, SweptTo(J, P), NEW hit, hit = Pidsof(J.list),
           proc' = [p \in Pids |-> IF p \in hit THEN "zombie" ELSE P[p]],
           unseen' = unseen \ hit, jobs' = [J EXCEPT !.list = << >>], pc' = "exited",
           UNCHANGED <<cur, curId, fg>>, PipeType'
    PROVE  SmashInv'
<1>0. /\ cur = NoPid /\ curId = 0 /\ fg = smash /\ Kids(proc, unseen)
      /\ J \in JobsT /\ P \in [Pids -> States]
  BY ReadyFacts DEF SmashInv, SweptTo, Table
<1>1. Kids(proc', unseen')
  <2>1. proc' \in [Pids -> States]
    BY <1>0 DEF States
  <2>2. ASSUME NEW q \in unseen' PROVE q \in Pids /\ proc'[q] = "stop"
    BY <1>0 DEF Kids, SweptTo
  <2> QED BY <2>1, <2>2 DEF Kids
<1>2. jobs' \in JobsT /\ jobs'.list = << >>
  <2>1. jobs' = [list |-> << >>, max_index |-> J.max_index, cur_size |-> J.cur_size]
    BY <1>0 DEF JobsT
  <2>2. << >> \in Seq(EntryT)
    OBVIOUS
  <2>3. J.max_index \in 1..(MaxId + 1) /\ J.cur_size \in 0..MAX_JOBS_NUM
    BY <1>0 DEF JobsT
  <2> QED BY Zenon, <2>1, <2>2, <2>3 DEF JobsT
<1>3. TableInv' /\ JobsAreChildren' /\ CurListed'
  BY <1>2 DEF TableInv, JobsAreChildren, CurListed
<1>4. CurInv'
  BY <1>0 DEF CurInv, Waiting, Waited
<1> QED BY <1>1, <1>3, <1>4 DEF SmashInv

(* waitpid reaps the child the shell waits for; if it is a job, fg knows   *)
(* its id.                                                                 *)
LEMMA WaitStep ==
    ASSUME SmashInv, WaitReturns(cur), UNCHANGED <<jobs, cur, curId, fg>>, PipeType',
           \/ pc = "wait" /\ pc' = "back"
           \/ pc = "pipe1" /\ pc' = "pipeFork"
           \/ pc = "pipe2" /\ pc' = "pipeDone"
    PROVE  SmashInv'
<1>0. /\ Kids(proc, unseen) /\ proc \in [Pids -> States] /\ TableInv /\ CurListed
      /\ cur \in Pids /\ (curId # 0 => pc = "wait")
      /\ fg = smash \/ (fg = cur /\ pc = "wait")
  BY DEF SmashInv, CurInv, Waiting, Kids
<1>1. Kids(proc', unseen') /\ \A p \in Pids : p # cur => proc'[p] = proc[p]
  BY <1>0 DEF Kids, WaitReturns, States
<1>2. status' = "stopped" \/ (status' = "ended" /\ proc'[cur] = "none")
  BY <1>0 DEF WaitReturns
<1>3. TableInv' /\ CurListed'
  BY <1>0 DEF TableInv, CurListed
<1>4. CurInv'
  BY <1>0, <1>2 DEF CurInv, Waiting, Waited
<1>5. JobsAreChildren'
  <2> SUFFICES ASSUME NEW i \in 1..Len(jobs.list), proc'[jobs.list[i].pid] = "none"
               PROVE  pc' = "back" /\ jobs.list[i].id = curId /\ status' = "ended"
    BY DEF JobsAreChildren
  <2>1. jobs \in JobsT /\ proc[jobs.list[i].pid] # "none"
    BY DEF SmashInv, JobsAreChildren, TableInv
  <2>2. jobs.list[i].pid \in Pids /\ jobs.list[i].id # 0
    BY <2>1, TableEntries
  <2>3. jobs.list[i].pid = cur
    BY <1>1, <2>1, <2>2
  <2>4. jobs.list[i].id = curId
    BY <1>0, <2>3 DEF CurListed
  <2>5. status' = "ended"
    BY <1>0, <2>1, <2>3 DEF WaitReturns
  <2> QED BY <1>0, <2>2, <2>4, <2>5
<1> QED BY <1>1, <1>3, <1>4, <1>5 DEF SmashInv

(* After waitpid the shell forgets the child, and a job that ended leaves  *)
(* the table.                                                              *)
LEMMA BackStep ==
    ASSUME SmashInv, pc = "back", fg' = smash, cur' = NoPid, curId' = 0,
           jobs' = (IF curId # 0 /\ status = "ended" THEN removeJobById(jobs, curId)
                    ELSE jobs),
           UNCHANGED <<proc, unseen>>, pc' \notin Waiting \cup Waited, PipeType'
    PROVE  SmashInv'
<1>0. Kids(proc, unseen) /\ Table(jobs) /\ jobs \in JobsT /\ JobsAreChildren
  BY DEF SmashInv, TableInv, Table
<1>1. Table(jobs') /\ Alive(jobs'.list, proc)
  <2>1. CASE curId # 0 /\ status = "ended"
    <3>1. Table(jobs') /\ Lacks(jobs', jobs, curId)
      BY <1>0, <2>1, RemoveFacts
    <3>2. ASSUME NEW a \in 1..Len(jobs'.list) PROVE proc[jobs'.list[a].pid] # "none"
      <4>1. PICK i \in 1..Len(jobs.list) :
              jobs'.list[a] = jobs.list[i] /\ jobs.list[i].id # curId
        BY <3>1 DEF Lacks
      <4> QED BY <1>0, <4>1 DEF JobsAreChildren
    <3> QED BY <3>1, <3>2 DEF Alive
  <2>2. CASE ~(curId # 0 /\ status = "ended")
    <3>1. jobs' = jobs /\ \A i \in 1..Len(jobs.list) : jobs.list[i].id # 0
      BY <1>0, <2>2, TableEntries
    <3> QED BY <1>0, <2>2, <3>1 DEF JobsAreChildren, Alive
  <2> QED BY <2>1, <2>2
<1>2. TableInv' /\ JobsAreChildren'
  BY <1>1 DEF TableInv, Table, JobsAreChildren, Alive
<1>3. CurListed'
  <2>1. jobs' \in JobsT
    BY <1>1 DEF Table
  <2> QED BY <2>1, TableEntries DEF CurListed
<1>4. CurInv'
  BY DEF CurInv, Waiting, Waited
<1> QED BY <1>0, <1>2, <1>3, <1>4 DEF SmashInv

(* The fork of the second command of a pipe. *)
LEMMA SecondForkStep ==
    ASSUME SmashInv, pc = "pipeFork", NEW p \in Pids, proc[p] = "none",
           proc' = [proc EXCEPT ![p] = "run"], cur' = p, pc' = "pipe2",
           UNCHANGED <<unseen, jobs, fg, curId>>, PipeType'
    PROVE  SmashInv'
<1>0. /\ Kids(proc, unseen) /\ TableInv /\ jobs \in JobsT /\ JobsAreChildren
      /\ curId = 0 /\ fg = smash
  BY DEF SmashInv, TableInv, CurInv
<1>1. Kids(proc', unseen')
  BY <1>0 DEF Kids, States
<1>2. \A i \in 1..Len(jobs.list) : /\ jobs.list[i].pid \in Pids /\ jobs.list[i].id # 0
                                   /\ proc[jobs.list[i].pid] # "none"
  BY <1>0, TableEntries DEF JobsAreChildren
<1>3. \A i \in 1..Len(jobs.list) : jobs.list[i].pid # p /\ proc'[jobs.list[i].pid] # "none"
  BY <1>0, <1>2 DEF Kids
<1>4. TableInv' /\ JobsAreChildren' /\ CurListed'
  BY <1>0, <1>2, <1>3 DEF TableInv, JobsAreChildren, CurListed
<1>5. CurInv'
  BY <1>0 DEF CurInv, Waiting, Waited
<1> QED BY <1>1, <1>4, <1>5 DEF SmashInv

(* The pipe is over, or its second fork has failed. *)
LEMMA LeaveStep ==
    ASSUME SmashInv,
           \/ pc = "pipeDone" /\ pc' \in {"prompt", "restore"}
           \/ pc = "pipeFork" /\ pc' = "any2",
           cur' = NoPid, UNCHANGED <<proc, unseen, jobs, fg, curId>>, PipeType'
    PROVE  SmashInv'
<1>0. /\ Kids(proc, unseen) /\ TableInv /\ jobs \in JobsT /\ JobsAreChildren
      /\ curId = 0 /\ fg = smash
  BY DEF SmashInv, TableInv, CurInv
<1>1. TableInv' /\ JobsAreChildren'
  BY <1>0 DEF TableInv, JobsAreChildren
<1>2. CurListed'
  BY <1>0, TableEntries DEF CurListed
<1>3. CurInv'
  BY <1>0 DEF CurInv, Waiting, Waited
<1> QED BY <1>0, <1>1, <1>2, <1>3 DEF SmashInv

(* waitpid(-1) in a pipe whose fork failed.  A job of the table may be     *)
(* gone only when that leads astray.                                       *)
LEMMA AnyStep ==
    ASSUME SmashInv, pc \in {"any1", "any2"}, pc' \in {"pipeFork", "pipeDone", "astray"},
           UNCHANGED <<jobs, cur, curId, fg>>, PipeType', Kids(proc', unseen'),
           pc' = "astray" \/ \A p \in Pidsof(jobs.list) : proc[p] # "none" => proc'[p] # "none"
    PROVE  SmashInv'
<1>0. /\ TableInv /\ jobs \in JobsT /\ JobsAreChildren /\ CurListed
      /\ curId = 0 /\ fg = smash /\ cur = NoPid
  BY DEF SmashInv, TableInv, CurInv, Waiting, Waited
<1>1. TableInv' /\ CurListed'
  BY <1>0 DEF TableInv, CurListed
<1>2. JobsAreChildren'
  BY <1>0 DEF JobsAreChildren, Pidsof
<1>3. CurInv'
  BY <1>0 DEF CurInv, Waiting, Waited
<1> QED BY <1>1, <1>2, <1>3 DEF SmashInv

(* A step of the handler or of a child reaps and creates nobody. *)
LEMMA MoveStep ==
    ASSUME SmashInv, UNCHANGED <<jobs, pc, cur, curId, status>>, Kids(proc', unseen'),
           \A p \in Pids : proc'[p] = "none" <=> proc[p] = "none",
           fg' = fg \/ fg' = smash, PipeType'
    PROVE  SmashInv'
<1>0. jobs \in JobsT /\ TableInv /\ JobsAreChildren /\ CurListed /\ CurInv
  BY DEF SmashInv, TableInv
<1>1. TableInv' /\ CurListed'
  BY <1>0 DEF TableInv, CurListed
<1>2. JobsAreChildren'
  BY <1>0, TableEntries DEF JobsAreChildren
<1>3. CurInv'
  BY <1>0 DEF CurInv, Waiting, Waited
<1> QED BY <1>1, <1>2, <1>3 DEF SmashInv

(* The pipe and the descriptors stay within their limits. *)
LEMMA PipeTypeStep == PipeType /\ [Next]_vars => PipeType'
<1> SUFFICES ASSUME PipeType, [Next]_vars PROVE PipeType'
  OBVIOUS
<1>0. UNCHANGED <<fds, pipe>> => PipeType'
  BY DEF PipeType, pipe
<1>b. UNCHANGED <<stdout, pipe>> => PipeType'
  BY <1>0 DEF stdout
<1>a. FdLimit \in Nat /\ Capacity \in Nat /\ fds \in Nat /\ buffer \in Nat
  BY SmashAssumption DEF PipeType
<1>1. CASE \/ OtherCommand \/ Background \/ Launch \/ Foreground \/ Kill \/ Quit
           \/ PipeFails \/ PipeForkFails
  BY <1>b, <1>1 DEF OtherCommand, Background, Launch, Foreground, Kill, Quit, PipeFails,
                    PipeForkFails
<1>2. CASE Redirect \/ RedirectFails
  BY <1>a, <1>2 DEF Redirect, RedirectFails, PipeType, pipe
<1>3. CASE PipeStart
  BY <1>a, <1>3 DEF PipeStart, PipeType, stdout
<1>4. CASE SetForeground \/ Wait \/ Back \/ PipeWaitSecond \/ PipeWaitAny
  BY <1>b, <1>4 DEF SetForeground, Wait, Back, PipeWaitSecond, PipeWaitAny
<1>5. CASE PipeWaitFirst \/ Restore
  BY <1>0, <1>5 DEF PipeWaitFirst, Restore, PipeType, stdout
<1>6. CASE PipeDone \/ PipeForkSecond
  BY <1>a, <1>b, <1>6 DEF PipeDone, PipeForkSecond, PipeType, stdout
<1>7. CASE PipeWrite
  BY <1>a, <1>7 DEF PipeWrite, PipeType, stdout
<1>8. CASE PipeRead
  BY <1>a, <1>8 DEF PipeRead, PipeType, stdout
<1>9. CASE CtrlC \/ \E p \in Pids : Exit(p) \/ Stop(p)
  BY <1>b, <1>9 DEF CtrlC, Exit, Stop
<1>10. CASE UNCHANGED vars
  BY <1>b, <1>10 DEF vars, pipe
<1> QED
  BY <1>1, <1>2, <1>3, <1>4, <1>5, <1>6, <1>7, <1>8, <1>9, <1>10 DEF Next, ShellStep

(* Every command of the shell, every step of a command in progress, the    *)
(* handler and the children keep the invariant.                            *)
LEMMA SmashStep == SmashInv /\ [Next]_vars => SmashInv'
<1> SUFFICES ASSUME SmashInv, [Next]_vars PROVE SmashInv'
  OBVIOUS
<1>p. PipeType'
  BY PipeTypeStep DEF SmashInv
<1>f. finish \in {"prompt", "restore"} /\ finish \notin Waiting \cup Waited
  BY DEF finish, Waiting, Waited
<1>s. Ready => SweptTo(removeFinishedJobs, procSwept)
  BY SweepFacts
<1>k. Kids(proc, unseen) /\ proc \in [Pids -> States]
  BY DEF SmashInv, Kids
<1>1. CASE OtherCommand
  <2>1. /\ Ready /\ jobs' = removeFinishedJobs /\ proc' = procSwept /\ pc' = finish
        /\ UNCHANGED <<unseen, cur, curId, fg>>
    BY <1>1 DEF OtherCommand, Sweep, shell
  <2>2. SweptTo(jobs', proc')
    BY <1>s, <2>1
  <2> QED BY <1>f, <1>p, <2>1, <2>2, SweptStep
<1>2. CASE Background
  <2>1. /\ Ready /\ removeFinishedJobs.max_index <= MaxId /\ pc' = finish
        /\ UNCHANGED <<unseen, cur, curId, fg>>
    BY <1>2 DEF Background, shell
  <2>2. PICK p \in Pids : /\ procSwept[p] = "none" /\ proc' = [procSwept EXCEPT ![p] = "run"]
                          /\ jobs' = addJob(removeFinishedJobs, p)
    BY Zenon, <1>2 DEF Background
  <2> QED BY Zenon, <1>f, <1>p, <1>s, <2>1, <2>2, BackgroundStep
<1>3. CASE Launch
  <2>1. Ready /\ jobs' = removeFinishedJobs /\ pc' = "forked" /\ UNCHANGED <<unseen, curId, fg>>
    BY <1>3 DEF Launch
  <2>2. PICK p \in Pids : /\ procSwept[p] = "none" /\ proc' = [procSwept EXCEPT ![p] = "run"]
                          /\ cur' = p
    BY Zenon, <1>3 DEF Launch
  <2>3. SweptTo(jobs', procSwept)
    BY <1>s, <2>1
  <2> QED BY Zenon, <1>p, <2>1, <2>2, <2>3, ForkStep
<1>4. CASE Foreground
  <2>1. /\ Ready /\ jobs' = removeFinishedJobs /\ proc' = procSwept /\ unseen' = unseen
        /\ pc' = "wait"
    BY <1>4 DEF Foreground, Sweep
  <2>2. SweptTo(jobs', proc')
    BY <1>s, <2>1
  <2>3. PICK id \in {i \in Ids(jobs'.list) : i <= MAX_JOBS_NUM} \cup
                    (IF jobs'.list = << >> THEN {} ELSE {lastId(jobs'.list)}) :
          /\ curId' = id /\ cur' = getJobById(jobs'.list, id).pid
          /\ fg' = getJobById(jobs'.list, id).pid
    BY <1>4, <2>1 DEF Foreground
  <2>4. id \in Ids(jobs'.list)
    <3>1. jobs'.list \in Seq(EntryT) /\ Ordered(jobs'.list)
      BY <2>2 DEF SweptTo, Table, JobsT
    <3>2. jobs'.list # << >> => lastId(jobs'.list) \in Ids(jobs'.list)
      BY <3>1, LastIsLargest
    <3> QED BY <2>3, <3>2
  <2> QED BY <1>p, <2>1, <2>2, <2>3, <2>4, FgStep
<1>5. CASE Kill
  <2>1. Ready /\ jobs' = removeFinishedJobs /\ pc' = finish /\ UNCHANGED <<cur, curId, fg>>
    BY <1>5 DEF Kill, shell
  <2>2. SweptTo(jobs', procSwept)
    BY <1>s, <2>1
  <2>3. PICK id \in Ids(jobs'.list), sig \in {"KILL", "STOP", "CONT"} :
          LET p == getJobById(jobs'.list, id).pid
              P == Deliver(procSwept, p, sig)
          IN  /\ proc' = P
              /\ unseen' = IF P[p] # "stop" THEN unseen \ {p}
                           ELSE IF procSwept[p] = "run" THEN unseen \cup {p} ELSE unseen
    BY Zenon, <1>5, <2>1 DEF Kill
  <2> DEFINE p == getJobById(jobs'.list, id).pid
             v == IF procSwept[p] \in {"none", "zombie"} THEN procSwept[p]
                  ELSE CASE sig = "KILL" -> "zombie" [] sig = "STOP" -> "stop"
                         [] sig = "CONT" -> "run"
  <2>4. p \in Pids
    <3>1. jobs'.list \in Seq(EntryT)
      BY <2>2 DEF SweptTo, Table, JobsT
    <3>2. indexOf(jobs'.list, id) \in 1..Len(jobs'.list)
      BY DEF Ids, indexOf
    <3> QED BY <3>1, <3>2, EntryFacts DEF getJobById
  <2>5. procSwept[p] \in States /\ procSwept \in [Pids -> States]
    BY <2>2, <2>4 DEF SweptTo
  <2>6. proc' = [procSwept EXCEPT ![p] = v]
    BY <2>3 DEF Deliver
  <2>7. /\ unseen' = IF proc'[p] # "stop" THEN unseen \ {p}
                     ELSE IF procSwept[p] = "run" THEN unseen \cup {p} ELSE unseen
    BY <2>3
  <2> HIDE DEF p
  <2>8. v \in States /\ (v = "none" <=> procSwept[p] = "none")
    <3>1. CASE procSwept[p] \in {"none", "zombie"}
      BY <3>1 DEF States
    <3>2. CASE procSwept[p] \notin {"none", "zombie"}
      <4>1. v \in {"zombie", "stop", "run"}
        BY <3>2
      <4> HIDE DEF v
      <4> QED BY <3>2, <4>1 DEF States
    <3> QED BY <3>1, <3>2
  <2> HIDE DEF v
  <2>9. proc'[p] = v
    BY <2>4, <2>5, <2>6
  <2>10. unseen' \subseteq unseen \cup {p} /\ (p \in unseen' => v = "stop")
    BY <2>7, <2>9
  <2> QED BY Zenon, <1>f, <1>p, <2>1, <2>2, <2>4, <2>6, <2>8, <2>10, KillStep

<1>6. CASE Quit
  <2>1. Ready /\ pc' = "exited" /\ UNCHANGED <<cur, curId, fg>>
    BY <1>6 DEF Quit, shell
  <2>2. CASE proc' = procSwept /\ jobs' = removeFinishedJobs /\ UNCHANGED unseen
    <3>1. SweptTo(jobs', proc') /\ pc' \notin Waiting \cup Waited
      BY <1>s, <2>1, <2>2 DEF Waiting, Waited
    <3> QED BY <1>p, <2>1, <2>2, <3>1, SweptStep
  <2>3. CASE ~(proc' = procSwept /\ jobs' = removeFinishedJobs /\ UNCHANGED unseen)
    <3> DEFINE J == removeFinishedJobs
               hit == Pidsof(visited(J.list))
    <3>1. /\ proc' = [p \in Pids |-> IF p \in hit THEN "zombie" ELSE procSwept[p]]
          /\ unseen' = unseen \ hit
          /\ jobs' = IF failsAt(J.list) = {} THEN [J EXCEPT !.list = << >>] ELSE J
      BY <1>6, <2>3 DEF Quit
    <3>2. SweptTo(J, procSwept)
      BY <1>s, <2>1
    <3>3. CASE failsAt(J.list) = {}
      <4>1. hit = Pidsof(J.list) /\ jobs' = [J EXCEPT !.list = << >>]
        BY <3>1, <3>3 DEF visited
      <4> HIDE DEF J, hit
      <4> QED BY <1>p, <2>1, <3>1, <3>2, <4>1, QuitStep
    <3>4. CASE failsAt(J.list) # {}
      <4> HIDE DEF J
      <4>1. /\ Table(J) /\ J \in JobsT /\ jobs' = J /\ cur = NoPid /\ curId = 0 /\ fg = smash
        BY <2>1, <3>1, <3>2, <3>4, ReadyFacts DEF SweptTo, Table
      <4>2. \A p \in Pids : proc'[p] = IF p \in hit THEN "zombie" ELSE procSwept[p]
        BY <3>1
      <4>3. Kids(proc', unseen')
        BY <1>k, <3>1, <3>2 DEF Kids, SweptTo, States
      <4>4. JobsAreChildren'
        <5>1. \A i \in 1..Len(J.list) : J.list[i].pid \in Pids
          BY <4>1, TableEntries
        <5> HIDE DEF hit
        <5> QED BY <3>2, <4>1, <4>2, <5>1 DEF JobsAreChildren, SweptTo, Alive
      <4>5. CurListed' /\ TableInv'
        BY <2>1, <4>1, TableEntries DEF CurListed, TableInv
      <4>6. CurInv'
        BY <2>1, <4>1 DEF CurInv, Waiting, Waited
      <4> QED BY <1>p, <4>3, <4>4, <4>5, <4>6 DEF SmashInv
    <3> QED BY <3>3, <3>4
  <2> QED BY <2>2, <2>3
<1>7. CASE Redirect \/ RedirectFails
  <2>1. /\ Ready /\ jobs' = removeFinishedJobs /\ proc' = procSwept
        /\ pc' \in {"redirected", "prompt"} /\ UNCHANGED <<unseen, cur, curId, fg>>
    BY <1>7 DEF Redirect, RedirectFails, Sweep, shell, Ready
  <2>2. SweptTo(jobs', proc') /\ pc' \notin Waiting \cup Waited
    BY <1>s, <2>1 DEF Waiting, Waited
  <2> QED BY <1>p, <2>1, <2>2, SweptStep
<1>8. CASE PipeStart
  <2>1. Ready /\ jobs' = removeFinishedJobs /\ pc' = "pipe1" /\ UNCHANGED <<unseen, curId, fg>>
    BY <1>8 DEF PipeStart
  <2>2. PICK p \in Pids : /\ procSwept[p] = "none" /\ proc' = [procSwept EXCEPT ![p] = "run"]
                          /\ cur' = p
    BY Zenon, <1>8 DEF PipeStart
  <2>3. SweptTo(jobs', procSwept)
    BY <1>s, <2>1
  <2> QED BY Zenon, <1>p, <2>1, <2>2, <2>3, ForkStep
<1>9. CASE PipeFails \/ PipeForkFails
  <2>1. /\ Ready /\ jobs' = removeFinishedJobs /\ proc' = procSwept
        /\ pc' \in {"astray", "any1"} /\ UNCHANGED <<unseen, cur, curId, fg>>
    BY <1>9 DEF PipeFails, PipeForkFails, Sweep, shell
  <2>2. SweptTo(jobs', proc') /\ pc' \notin Waiting \cup Waited
    BY <1>s, <2>1 DEF Waiting, Waited
  <2> QED BY <1>p, <2>1, <2>2, SweptStep
<1>10. CASE SetForeground
  <2>1. /\ pc = "forked" /\ fg' = cur /\ pc' = "wait"
        /\ UNCHANGED <<proc, unseen, jobs, cur, curId, status>>
    BY <1>10 DEF SetForeground, childVars
  <2>2. Kids(proc, unseen) /\ TableInv /\ JobsAreChildren /\ CurListed /\ CurInv
    BY DEF SmashInv
  <2>3. TableInv' /\ JobsAreChildren' /\ CurListed'
    BY <2>1, <2>2 DEF TableInv, JobsAreChildren, CurListed
  <2>4. CurInv'
    BY <2>1, <2>2 DEF CurInv, Waiting, Waited
  <2> QED BY <1>p, <2>1, <2>2, <2>3, <2>4 DEF SmashInv
<1>11. CASE Wait
  <2>1. pc = "wait" /\ pc' = "back" /\ WaitReturns(cur) /\ UNCHANGED <<jobs, cur, curId, fg>>
    BY <1>11 DEF Wait
  <2> QED BY <1>p, <2>1, WaitStep
<1>12. CASE Back
  <2>1. /\ pc = "back" /\ fg' = smash /\ cur' = NoPid /\ curId' = 0 /\ pc' = finish
        /\ jobs' = IF curId # 0 /\ status = "ended" THEN removeJobById(jobs, curId) ELSE jobs
        /\ UNCHANGED <<proc, unseen>>
    BY <1>12 DEF Back, returnSmashPidToFG, childVars
  <2> QED BY <1>f, <1>p, <2>1, BackStep
<1>13. CASE Restore
  <2>1. /\ pc \notin Waiting \cup Waited \cup {"astray", "exited"} /\ pc' = "prompt"
        /\ UNCHANGED <<proc, unseen, jobs, cur, curId, fg>>
    BY <1>13 DEF Restore, childVars, shell, Waiting, Waited
  <2>2. Kids(proc, unseen) /\ TableInv /\ JobsAreChildren /\ CurListed /\ CurInv
    BY DEF SmashInv
  <2>3. TableInv' /\ CurListed'
    BY <2>1, <2>2 DEF TableInv, CurListed
  <2>4. JobsAreChildren'
    BY <2>1, <2>2 DEF JobsAreChildren, Waited
  <2>5. CurInv'
    BY <2>1, <2>2 DEF CurInv, Waiting, Waited
  <2> QED BY <1>p, <2>1, <2>2, <2>3, <2>4, <2>5 DEF SmashInv
<1>14. CASE PipeWaitFirst \/ PipeWaitSecond
  <2>1. /\ \/ pc = "pipe1" /\ pc' = "pipeFork"
           \/ pc = "pipe2" /\ pc' = "pipeDone"
        /\ WaitReturns(cur) /\ UNCHANGED <<jobs, cur, curId, fg>>
    BY <1>14 DEF PipeWaitFirst, PipeWaitSecond
  <2> QED BY <1>p, <2>1, WaitStep
<1>15. CASE PipeForkSecond
  <2>1. pc = "pipeFork" /\ UNCHANGED <<unseen, jobs, fg, curId>>
    BY <1>15 DEF PipeForkSecond
  <2>2. CASE pc' = "any2" /\ cur' = NoPid /\ UNCHANGED proc
    BY <1>p, <2>1, <2>2, LeaveStep
  <2>3. CASE ~(pc' = "any2" /\ cur' = NoPid /\ UNCHANGED proc)
    <3>1. PICK p \in Pids : proc[p] = "none" /\ proc' = [proc EXCEPT ![p] = "run"] /\ cur' = p
      BY <1>15, <2>3 DEF PipeForkSecond
    <3>2. pc' = "pipe2"
      BY <1>15, <2>3 DEF PipeForkSecond
    <3> QED BY Zenon, <1>p, <2>1, <3>1, <3>2, SecondForkStep
  <2> QED BY <2>2, <2>3
<1>16. CASE PipeWaitAny
  <2>1. /\ pc \in {"any1", "any2"} /\ pc' \in {"pipeFork", "pipeDone", "astray"}
        /\ UNCHANGED <<jobs, cur, curId, fg>>
    BY <1>16 DEF PipeWaitAny
  <2>2. CASE UNCHANGED <<proc, unseen>>
    BY <1>k, <1>p, <2>1, <2>2, AnyStep
  <2>3. CASE ~UNCHANGED <<proc, unseen>>
    <3>1. PICK p \in Pids :
            /\ WaitReturns(p)
            /\ status' = "ended" /\ p \in Pidsof(jobs.list) => pc' = "astray"
      BY <1>16, <2>3 DEF PipeWaitAny, childVars
    <3>2. Kids(proc', unseen') /\ \A q \in Pids : q # p => proc'[q] = proc[q]
      BY <1>k, <3>1 DEF Kids, WaitReturns, States
    <3>3. status' = "ended" \/ proc' = proc
      BY <3>1 DEF WaitReturns
    <3>4. \A q \in Pidsof(jobs.list) : q \in Pids
      <4>1. jobs \in JobsT
        BY DEF SmashInv, TableInv
      <4> QED BY <4>1, TableEntries DEF Pidsof
    <3>5. pc' = "astray" \/ \A q \in Pidsof(jobs.list) : proc[q] # "none" => proc'[q] # "none"
      BY <3>1, <3>2, <3>3, <3>4
    <3> QED BY <1>p, <2>1, <3>2, <3>5, AnyStep
  <2> QED BY <2>2, <2>3
<1>17. CASE PipeDone
  <2>1. /\ pc = "pipeDone" /\ cur' = NoPid /\ pc' = finish
        /\ UNCHANGED <<proc, unseen, jobs, fg, curId>>
    BY <1>17 DEF PipeDone, childVars
  <2> QED BY <1>f, <1>p, <2>1, LeaveStep
<1>18. CASE CtrlC
  <2>1. /\ UNCHANGED <<jobs, pc, cur, curId, status>> /\ fg' = smash /\ fg # smash
        /\ proc' = Deliver(proc, fg, "KILL") /\ unseen' = unseen \ {fg}
    BY <1>18 DEF CtrlC, returnSmashPidToFG
  <2>2. fg \in Pids
    BY <2>1 DEF SmashInv, CurInv, Waiting
  <2> DEFINE v == IF proc[fg] \in {"none", "zombie"} THEN proc[fg] ELSE "zombie"
  <2>3. proc' = [proc EXCEPT ![fg] = v] /\ (proc[fg] = "none" <=> v = "none")
    BY <2>1 DEF Deliver
  <2>4. proc[fg] \in States /\ v \in States
    BY <1>k, <2>2 DEF States
  <2> HIDE DEF v
  <2>5. Kids(proc', unseen') /\ \A p \in Pids : proc'[p] = "none" <=> proc[p] = "none"
    BY <1>k, <2>1, <2>2, <2>3, <2>4 DEF Kids
  <2> QED BY <1>p, <2>1, <2>5, MoveStep
<1>19. CASE PipeWrite \/ PipeRead
  <2>1. UNCHANGED <<proc, unseen, jobs, pc, cur, curId, status, fg>>
    BY <1>19 DEF PipeWrite, PipeRead, childVars, shell
  <2> QED BY <1>k, <1>p, <2>1, MoveStep
<1>20. ASSUME NEW p \in Pids, Exit(p) PROVE SmashInv'
  <2>1. /\ UNCHANGED <<unseen, jobs, pc, cur, curId, status, fg>> /\ proc[p] = "run"
        /\ proc' = [proc EXCEPT ![p] = "zombie"]
    BY <1>20 DEF Exit, shell
  <2>2. Kids(proc', unseen') /\ \A q \in Pids : proc'[q] = "none" <=> proc[q] = "none"
    BY <1>k, <2>1 DEF Kids, States
  <2> QED BY <1>p, <2>1, <2>2, MoveStep
<1>21. ASSUME NEW p \in Pids, Stop(p) PROVE SmashInv'
  <2>1. /\ UNCHANGED <<jobs, pc, cur, curId, status, fg>> /\ proc[p] = "run"
        /\ proc' = [proc EXCEPT ![p] = "stop"] /\ unseen' = unseen \cup {p}
    BY <1>21 DEF Stop, shell
  <2>2. Kids(proc', unseen') /\ \A q \in Pids : proc'[q] = "none" <=> proc[q] = "none"
    BY <1>k, <2>1 DEF Kids, States
  <2> QED BY <1>p, <2>1, <2>2, MoveStep
<1>22. CASE UNCHANGED vars
  <2>1. UNCHANGED <<proc, unseen, jobs, pc, cur, curId, status, fg>>
    BY <1>22 DEF vars
  <2> QED BY <1>k, <1>p, <2>1, MoveStep
<1> QED
  BY <1>1, <1>2, <1>3, <1>4, <1>5, <1>6, <1>7, <1>8, <1>9, <1>10, <1>11, <1>12,
     <1>13, <1>14, <1>15, <1>16, <1>17, <1>18, <1>19, <1>20, <1>21, <1>22
     DEF Next, ShellStep

(* The shell starts with an empty table and no child. *)
LEMMA SmashInit == Init => SmashInv
<1> SUFFICES ASSUME Init PROVE SmashInv
  OBVIOUS
<1>0. MAX_JOBS_NUM \in Nat /\ MaxId \in Nat /\ FdLimit \in Nat /\ Capacity \in Nat
  BY SmashAssumption
<1>1. jobs \in JobsT /\ jobs.list = << >>
  <2>1. << >> \in Seq(EntryT)
    OBVIOUS
  <2> QED BY <1>0, <2>1 DEF Init, JobsT
<1>2. Table(jobs)
  BY <1>1 DEF Table, Ordered, Init
<1>3. TableInv /\ JobsAreChildren /\ CurListed
  BY <1>1, <1>2 DEF TableInv, JobsAreChildren, CurListed
<1>4. CurInv /\ PipeType
  BY <1>0 DEF Init, CurInv, Waiting, Waited, PipeType
<1>5. Kids(proc, unseen)
  BY DEF Init, Kids, States
<1> QED BY <1>3, <1>4, <1>5 DEF SmashInv

(* SmashInv is an invariant of the shell. *)
LEMMA SmashInvariant == Spec => []SmashInv
<1> QED BY SmashInit, SmashStep, PTL DEF Spec

(* The types, and with them the bounds: the table never has more than      *)
(* MAX_JOBS_NUM jobs, and only stopped children have an unreported stop.   *)
THEOREM SmashTyped == Spec => []TypeOK
<1>1. ASSUME SmashInv, StdoutInv PROVE TypeOK
  <2>1. Kids(proc, unseen) /\ PipeType /\ jobs \in JobsT /\ CurInv
    BY <1>1 DEF SmashInv, TableInv
  <2>2. \A i \in 1..Len(jobs.list) : jobs.list[i] \in EntryT
    <3>1. jobs.list \in Seq(EntryT)
      BY <2>1 DEF JobsT
    <3> QED BY <3>1, SeqItem
  <2>3. jobs.cur_size \in 0..MAX_JOBS_NUM /\ jobs.max_index \in 1..(MaxId + 1)
    BY <2>1 DEF JobsT
  <2>4. cur \in Pids \cup {NoPid} /\ fg \in Pids \cup {smash}
    BY <2>1 DEF CurInv, Waiting
  <2>5. out \in {"tty", "file"} /\ saved \in {"none", "tty", "file"}
    BY <1>1 DEF StdoutInv, Outside
  <2> QED BY <2>1, <2>2, <2>3, <2>4, <2>5 DEF TypeOK, Kids, States, PipeType, EntryT
<1> QED BY <1>1, SmashInvariant, StdoutInvariant, PTL

(* The table names no process twice, has increasing ids, and the next id   *)
(* is unused, whatever jobs end, are killed or brought to the foreground.  *)
THEOREM JobTableKept == Spec => []JobTable
<1>1. ASSUME SmashInv PROVE JobTable
  <2>1. pc # "exited" => Table(jobs)
    BY <1>1 DEF SmashInv, TableInv
  <2> QED BY <2>1 DEF Table, Ordered, JobTable, Ids
<1> QED BY <1>1, SmashInvariant, PTL

(* Every job is a child that is not reaped yet: kill and fg never reach    *)
(* another process through a stale entry of the table.                     *)
THEOREM JobsNotReaped == Spec => []JobsAreChildren
<1>1. SmashInv => JobsAreChildren
  BY DEF SmashInv
<1> QED BY <1>1, SmashInvariant, PTL

-----------------------------------------------------------------------------
(* A child that was in the table, or none before, and lives on after       *)
(* removeFinishedJobs is still in the table.                               *)
LEMMA SweptTracked ==
    ASSUME SmashInv, Ready, NEW J, NEW P, SweptTo(J, P), NEW p \in Pids, P[p] # "none",
           Tracked(p) \/ proc[p] = "none"
    PROVE  p \in Pidsof(J.list)
<1>1. cur = NoPid /\ p # NoPid
  BY ReadyFacts, PidAssumption DEF NoPid
<1>2. proc[p] # "none"
  BY DEF SweptTo
<1>3. p \in Pidsof(jobs.list)
  BY <1>1, <1>2 DEF Tracked
<1> QED BY <1>3 DEF SweptTo

(* A job that enters the table leaves the others in it. *)
LEMMA GetsPids ==
    ASSUME NEW K, NEW J, NEW p, Gets(K, J, p), J.list \in Seq(EntryT), NEW q,
           q \in Pidsof(J.list) \/ q = p, q \notin Pidsof(K.list)
    PROVE  K.cur_size = MAX_JOBS_NUM
<1>0. Len(J.list) \in Nat
  OBVIOUS
<1>1. CASE K = J /\ J.cur_size = MAX_JOBS_NUM
  BY <1>1
<1>2. CASE ~(K = J /\ J.cur_size = MAX_JOBS_NUM)
  <2>1. /\ Len(K.list) = Len(J.list) + 1 /\ K.list[Len(J.list) + 1].pid = p
        /\ \A i \in 1..Len(J.list) : K.list[i] = J.list[i]
    BY <1>2 DEF Gets
  <2>2. p \in Pidsof(K.list)
    <3>1. Len(J.list) + 1 \in 1..Len(K.list)
      BY <1>0, <2>1
    <3> QED BY <2>1, <3>1 DEF Pidsof
  <2>3. ASSUME q \in Pidsof(J.list) PROVE q \in Pidsof(K.list)
    <3>1. PICK i \in 1..Len(J.list) : J.list[i].pid = q
      BY <2>3 DEF Pidsof
    <3>2. i \in 1..Len(K.list) /\ K.list[i].pid = q
      BY <1>0, <2>1, <3>1
    <3> QED BY <3>2 DEF Pidsof
  <2> QED BY <2>2, <2>3
<1> QED BY <1>1, <1>2

(* What a step may do to the shell's knowledge of a child. *)
LEMMA TrackStep ==
    ASSUME SmashInv, [Next]_vars, NEW p \in Pids, proc'[p] # "none", ~Tracked(p)',
           Tracked(p) \/ proc[p] = "none"
    PROVE  jobs'.cur_size = MAX_JOBS_NUM \/ status = "stopped" \/ pc' = "exited"
<1>0. /\ p \notin Pidsof(jobs'.list) /\ p # cur' /\ p # NoPid
      /\ proc \in [Pids -> States]
  BY PidAssumption DEF Tracked, NoPid, SmashInv, Kids
<1>s. Ready => SweptTo(removeFinishedJobs, procSwept)
  BY SweepFacts
<1>q. ASSUME jobs' = jobs, cur' = cur, proc[p] = "none" => proc'[p] = "none" PROVE FALSE
  BY <1>q DEF Tracked
<1>w. ASSUME Ready, jobs' = removeFinishedJobs,
             procSwept[p] = "none" => proc'[p] = "none"
      PROVE  FALSE
  BY <1>0, <1>s, <1>w, SweptTracked
<1>1. CASE \/ OtherCommand \/ Foreground \/ Redirect \/ RedirectFails
           \/ PipeFails \/ PipeForkFails
  <2>1. Ready /\ jobs' = removeFinishedJobs /\ proc' = procSwept
    <3>1. CASE OtherCommand \/ Redirect \/ RedirectFails
      BY <3>1 DEF OtherCommand, Redirect, RedirectFails, Sweep, Ready
    <3>2. CASE Foreground
      BY Zenon, <3>2 DEF Foreground, Sweep
    <3>3. CASE PipeFails \/ PipeForkFails
      BY <3>3 DEF PipeFails, PipeForkFails, Sweep
    <3> QED BY Zenon, <1>1, <3>1, <3>2, <3>3
  <2> QED BY <1>w, <2>1
<1>2. CASE Background
  <2>1. /\ Ready /\ removeFinishedJobs.max_index <= MaxId /\ pc' = finish
        /\ UNCHANGED <<unseen, cur, curId, fg>>
    BY Zenon, <1>2 DEF Background, shell
  <2>2. PICK q \in Pids : /\ procSwept[q] = "none" /\ proc' = [procSwept EXCEPT ![q] = "run"]
                          /\ jobs' = addJob(removeFinishedJobs, q)
    BY Zenon, <1>2 DEF Background
  <2>3. Gets(jobs', removeFinishedJobs, q)
    <3>1. PipeType' /\ pc' \notin Waiting \cup Waited
      BY <2>1, PipeTypeStep DEF SmashInv, finish, Waiting, Waited
    <3> QED BY Zenon, <1>s, <2>1, <2>2, <3>1, BackgroundStep
  <2>4. /\ procSwept \in [Pids -> States] /\ removeFinishedJobs.list \in Seq(EntryT)
        /\ SweptTo(removeFinishedJobs, procSwept)
    BY <1>s, <2>1 DEF SweptTo, Table, JobsT
  <2>5. p = q \/ procSwept[p] # "none"
    BY <2>2, <2>4
  <2>6. p \in Pidsof(removeFinishedJobs.list) \/ p = q
    BY <2>1, <2>4, <2>5, SweptTracked
  <2> QED BY Zenon, <1>0, <2>3, <2>4, <2>6, GetsPids
<1>3. CASE Launch \/ PipeStart
  <2>1. Ready /\ jobs' = removeFinishedJobs
    BY <1>3 DEF Launch, PipeStart
  <2>2. proc' = [procSwept EXCEPT ![cur'] = "run"]
    BY <1>3 DEF Launch, PipeStart
  <2>3. procSwept \in [Pids -> States]
    BY <1>s, <2>1 DEF SweptTo
  <2> QED BY <1>0, <1>w, <2>1, <2>2, <2>3
<1>4. CASE Kill
  <2>1. Ready /\ jobs' = removeFinishedJobs
    BY <1>4 DEF Kill
  <2>2. PICK q, sig : proc' = Deliver(procSwept, q, sig)
    BY <1>4 DEF Kill
  <2>3. procSwept \in [Pids -> States]
    BY <1>s, <2>1 DEF SweptTo
  <2>4. procSwept[p] = "none" => proc'[p] = "none"
    BY <2>2, <2>3 DEF Deliver
  <2> QED BY <1>w, <2>1, <2>4
<1>5. CASE Quit
  BY <1>5 DEF Quit
<1>6. CASE SetForeground \/ Restore \/ PipeWrite \/ PipeRead \/ UNCHANGED vars
  <2>1. jobs' = jobs /\ cur' = cur /\ proc' = proc
    BY <1>0, <1>6 DEF SetForeground, Restore, PipeWrite, PipeRead, vars, childVars, shell
  <2> QED BY <1>q, <2>1
<1>7. CASE Wait \/ PipeWaitFirst \/ PipeWaitSecond
  <2>1. jobs' = jobs /\ cur' = cur /\ (proc' = proc \/ proc' = [proc EXCEPT ![cur] = "none"])
    BY <1>7 DEF Wait, PipeWaitFirst, PipeWaitSecond, WaitReturns
  <2> QED BY <1>0, <1>q, <2>1
<1>8. CASE Back
  <2>1. /\ pc = "back" /\ proc' = proc
        /\ jobs' = IF curId # 0 /\ status = "ended" THEN removeJobById(jobs, curId) ELSE jobs
    BY <1>8 DEF Back, childVars
  <2>2. SUFFICES ASSUME status # "stopped" PROVE FALSE
    OBVIOUS
  <2>3. proc[cur] = "none" /\ Table(jobs) /\ CurListed
    BY <2>1, <2>2, PidAssumption DEF SmashInv, CurInv, Waiting, Waited, TableInv, NoPid
  <2>4. p # cur /\ p \in Pidsof(jobs.list)
    BY <2>1, <2>3 DEF Tracked
  <2>5. PICK i \in 1..Len(jobs.list) : jobs.list[i].pid = p
    BY <2>4 DEF Pidsof
  <2>6. jobs.list[i].id # curId
    BY <2>3, <2>4, <2>5 DEF CurListed
  <2>7. CASE jobs' = jobs
    BY <1>0, <2>4, <2>7
  <2>8. CASE jobs' = removeJobById(jobs, curId)
    <3>1. Lacks(jobs', jobs, curId)
      BY <2>3, <2>8, RemoveFacts
    <3>2. PICK a \in 1..Len(jobs'.list) : jobs'.list[a] = jobs.list[i]
      BY Zenon, <2>6, <3>1 DEF Lacks
    <3> QED BY <1>0, <2>5, <3>2 DEF Pidsof
  <2> QED BY <2>1, <2>7, <2>8
<1>9. CASE PipeForkSecond
  <2>1. pc = "pipeFork" /\ jobs' = jobs
    BY <1>9 DEF PipeForkSecond
  <2>2. CASE UNCHANGED proc
    <3>1. p = cur
      BY <1>0, <2>1, <2>2 DEF Tracked
    <3> QED BY <1>0, <2>1, <2>2, <3>1 DEF SmashInv, CurInv, Waited
  <2>3. CASE \E q \in Pids : proc' = [proc EXCEPT ![q] = "run"] /\ cur' = q
    <3>1. proc'[p] = proc[p]
      BY <1>0, <2>3
    <3>2. p = cur
      BY <1>0, <2>1, <3>1 DEF Tracked
    <3> QED BY <1>0, <2>1, <3>1, <3>2 DEF SmashInv, CurInv, Waited
  <2> QED BY <1>9, <2>2, <2>3 DEF PipeForkSecond
<1>10. CASE PipeDone
  <2>1. pc = "pipeDone" /\ jobs' = jobs /\ proc' = proc
    BY <1>10 DEF PipeDone, childVars
  <2>2. p = cur
    BY <1>0, <2>1 DEF Tracked
  <2> QED BY <1>0, <2>1, <2>2 DEF SmashInv, CurInv, Waited
<1>11. CASE CtrlC
  <2>1. jobs' = jobs /\ cur' = cur /\ proc' = Deliver(proc, fg, "KILL")
    BY <1>11 DEF CtrlC
  <2>2. proc[p] = "none" => proc'[p] = "none"
    BY <1>0, <2>1 DEF Deliver
  <2> QED BY <1>q, <2>1, <2>2
<1>12. CASE \E q \in Pids : Exit(q) \/ Stop(q)
  <2>1. /\ jobs' = jobs /\ cur' = cur
        /\ \E q \in Pids : \E v : proc[q] = "run" /\ proc' = [proc EXCEPT ![q] = v]
    BY <1>12 DEF Exit, Stop, shell
  <2>2. proc[p] = "none" => proc'[p] = "none"
    BY <1>0, <2>1
  <2> QED BY <1>q, <2>1, <2>2
<1>13. CASE PipeWaitAny
  <2>1. /\ jobs' = jobs /\ cur' = cur
        /\ proc' = proc \/ \E q \in Pids : proc' = [proc EXCEPT ![q] = "none"]
    BY <1>13 DEF PipeWaitAny, WaitReturns, childVars
  <2>2. proc[p] = "none" => proc'[p] = "none"
    BY <1>0, <2>1
  <2> QED BY Zenon, <1>q, <2>1, <2>2
<1> QED
  BY <1>1, <1>2, <1>3, <1>4, <1>5, <1>6, <1>7, <1>8, <1>9, <1>10, <1>11, <1>12, <1>13
     DEF Next, ShellStep

(* The shell loses sight of a living child in three ways only: the table   *)
(* was full, the child stopped in the foreground, or the shell ends.       *)
THEOREM ChildrenNotLost == Spec => ChildrenTracked
<1>1. SmashInv /\ [Next]_vars =>
        [\A p \in Pids :
            proc'[p] # "none" /\ ~Tracked(p)' /\ (Tracked(p) \/ proc[p] = "none") =>
                \/ jobs'.cur_size = MAX_JOBS_NUM
                \/ status = "stopped"
                \/ pc' = "exited"]_vars
  BY TrackStep
<1> QED BY <1>1, SmashInvariant, PTL DEF Spec, ChildrenTracked

(* Ctrl-C changes the state of no process but the one the shell waits for, *)
(* whenever the handler of signals.cpp runs.                               *)
THEOREM CtrlCSafe == Spec => CtrlCKillsForeground
<1>1. SmashInv /\ [Next]_vars =>
        [CtrlC => \A p \in Pids : proc'[p] # proc[p] => p = cur /\ pc \in {"wait", "back"}]_vars
  <2> SUFFICES ASSUME SmashInv, CtrlC, NEW p \in Pids, proc'[p] # proc[p]
               PROVE  p = cur /\ pc \in {"wait", "back"}
    OBVIOUS
  <2>1. fg # smash /\ proc' = Deliver(proc, fg, "KILL")
    BY DEF CtrlC
  <2>2. fg = cur /\ pc \in {"wait", "back"} /\ proc \in [Pids -> States]
    BY <2>1 DEF SmashInv, CurInv, Kids
  <2>3. p = fg
    BY <2>1, <2>2 DEF Deliver
  <2> QED BY <2>2, <2>3
<1> QED BY <1>1, SmashInvariant, PTL DEF Spec, CtrlCKillsForeground

=============================================================================
