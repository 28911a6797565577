------------------------------- MODULE Smash -------------------------------
(***************************************************************************)
(* The small shell of OS_HW1_234123: the job table, foreground commands,   *)
(* the Ctrl-C handler, redirection and pipes (Commands.cpp, signals.cpp).  *)
(*                                                                         *)
(* The shell is one thread.  Its children run beside it, and the handler   *)
(* may run between any two of its steps.  A command line is chosen freely; *)
(* of its text the model keeps which command it is and its numeric         *)
(* arguments.  A child is running, stopped, a zombie, or none: reaped or   *)
(* never created, so that its pid is free.                                 *)
(*                                                                         *)
(* PipeCommand checks neither pipe nor fork.  A pipe that fails sends a    *)
(* son back into the shell's loop, and a fork that fails makes the shell   *)
(* wait for any child, perhaps a job of its table: the model stops in      *)
(* "astray" when a son is a second shell or a job is gone that way.        *)
(***************************************************************************)
EXTENDS Integers, Sequences

CONSTANTS
    Pids,            \* the pids of children
    MAX_JOBS_NUM,
    MaxId,           \* bound: no job is added once max_index exceeds it
    FdLimit,         \* the descriptors the shell may leave open
    Capacity,        \* what a pipe holds
    Output           \* what the first command of a pipe writes

ASSUME SmashAssumption ==
    /\ MAX_JOBS_NUM \in Nat /\ MaxId \in Nat /\ FdLimit \in Nat
    /\ Capacity \in Nat /\ Output \in Nat

(* No child has the shell's pid, and every child has one. *)
ASSUME PidAssumption == {"smash", "none"} \cap Pids = {}

VARIABLES
    proc,      \* the state of each child
    unseen,    \* stopped children whose stop waitpid has not reported yet
    jobs,      \* jobs_list, max_index and cur_size
    fg,        \* foreground_command_pid
    pc,        \* where the shell is
    cur,       \* the child it waits for
    curId,     \* the job id of that child, 0 when it is no job
    status,    \* what waitpid returned
    out,       \* what descriptor 1 refers to
    saved,     \* what og_stdout_fdt refers to, "none" outside a redirection
    failed,    \* a call failed while descriptor 1 was the file
    fds,       \* descriptors that stay open: copies of the old stdout
    first,     \* the first command of the pipe
    left,      \* what it has still to write
    buffer     \* what the pipe holds

stdout == <<out, saved, failed, fds>>
vars == <<proc, unseen, jobs, fg, pc, cur, curId, status, stdout, first, left, buffer>>
childVars == <<proc, unseen>>
shell == <<fg, cur, curId, status>>
pipe == <<first, left, buffer>>

smash == "smash"
NoPid == "none"

Init ==
    /\ proc = [p \in Pids |-> "none"] /\ unseen = {}
    /\ jobs = [list |-> << >>, max_index |-> 1, cur_size |-> 0]
    /\ fg = smash /\ pc = "prompt" /\ cur = NoPid /\ curId = 0 /\ status = "none"
    /\ out = "tty" /\ saved = "none" /\ failed = FALSE /\ fds = 0
    /\ first = NoPid /\ left = 0 /\ buffer = 0

-----------------------------------------------------------------------------
(* JobsList. *)
Entry(id, p) == [id |-> id, pid |-> p]

Pidsof(l) == {l[i].pid : i \in 1..Len(l)}

Ids(l) == {l[i].id : i \in 1..Len(l)}

greatest(S) == CHOOSE x \in S : \A y \in S : x >= y

least(S) == CHOOSE x \in S : \A y \in S : x <= y

(* jobs_list.erase at index i. *)
erase(l, i) == SubSeq(l, 1, i - 1) \o SubSeq(l, i + 1, Len(l))

(* getLastJob. *)
lastId(l) == greatest(Ids(l))

indexOf(l, id) == CHOOSE i \in 1..Len(l) : l[i].id = id

getJobById(l, id) == l[indexOf(l, id)]

(* max_index and cur_size recomputed from the list, counting (mutation). *)
counted(l) == [list |-> l, max_index |-> Len(l) + 1, cur_size |-> Len(l)]

(* Lines 597-618: max_index and cur_size recomputed from the list. *)
indexed(l) ==
    [list |-> l, max_index |-> IF l = << >> THEN 1 ELSE lastId(l) + 1,
     cur_size |-> Len(l)]

(* waitpid with WNOHANG as removeFinishedJobs reads it: "was >= 0"         *)
(* (mutation).                                                             *)
finishedOrNot(p) == proc[p] # "none"

(* waitpid with WNOHANG returns the pid: the child is a zombie. *)
finished(p) == proc[p] = "zombie"

(* removeFinishedJobs: the zombies in the list are reaped and leave it.    *)
(* waitpid fails for a pid that is not a child any more: the loop ends     *)
(* there and max_index and cur_size stay as they are.                      *)
failsAt(l) == {i \in 1..Len(l) : proc[l[i].pid] = "none"}

visited(l) == IF failsAt(l) = {} THEN l ELSE SubSeq(l, 1, least(failsAt(l)) - 1)

reaped == {p \in Pidsof(visited(jobs.list)) : finished(p)}

(* The loop's erase, up to entry n: what is left of l without the pids S. *)
without(l, S) ==
    LET kept[n \in 0..Len(l)] ==
            IF n = 0 THEN << >>
            ELSE IF l[n].pid \in S THEN kept[n - 1]
            ELSE Append(kept[n - 1], l[n])
    IN  kept[Len(l)]

removeFinishedJobs ==
    LET kept == without(jobs.list, reaped) IN
    IF failsAt(jobs.list) = {} THEN indexed(kept) ELSE [jobs EXCEPT !.list = kept]

procSwept ==
    [p \in Pids |-> IF p \in reaped /\ proc[p] = "zombie" THEN "none" ELSE proc[p]]

(* addJob without the check of cur_size (mutation). *)
addJobAlways(J, p) ==
    [list |-> Append(J.list, Entry(J.max_index, p)),
     max_index |-> J.max_index + 1, cur_size |-> J.cur_size + 1]

(* addJob, after its removeFinishedJobs; a full table drops the job. *)
addJob(J, p) ==
    IF J.cur_size = MAX_JOBS_NUM THEN J
    ELSE [list |-> Append(J.list, Entry(J.max_index, p)),
          max_index |-> J.max_index + 1, cur_size |-> J.cur_size + 1]

(* fg that leaves the job in the table (mutation). *)
keepJob(J, id) == J

(* removeJobById.  max_index is never an id in the list, so that it is     *)
(* not lowered here.                                                       *)
removeJobById(J, id) ==
    IF id \notin Ids(J.list) THEN J
    ELSE [list |-> erase(J.list, indexOf(J.list, id)),
          max_index |-> IF id = J.max_index
                        THEN greatest((Ids(J.list) \ {id}) \cup {-1}) ELSE J.max_index,
          cur_size |-> J.cur_size - 1]

-----------------------------------------------------------------------------
(* executeCommand. *)

(* The shell is about to execute a command: typed, or inside a redirection. *)
Ready == pc \in {"prompt", "redirected"}

(* Where the command's execute returns to. *)
finish == IF saved = "none" THEN "prompt" ELSE "restore"

(* removeFinishedJobs comes before every command. *)
Sweep == jobs' = removeFinishedJobs /\ proc' = procSwept /\ UNCHANGED unseen

(* jobs, showpid, pwd, chprompt, a fork that fails, and every command      *)
(* refused for its arguments: nothing but the removal of finished jobs.    *)
OtherCommand ==
    /\ Ready /\ Sweep
    /\ pc' = finish
    /\ UNCHANGED <<shell, stdout, pipe>>

(* ExternalCommand in the background. *)
Background ==
    /\ Ready
    /\ removeFinishedJobs.max_index <= MaxId
    /\ \E p \in {q \in Pids : procSwept[q] = "none"} :
          /\ proc' = [procSwept EXCEPT ![p] = "run"]
          /\ jobs' = addJob(removeFinishedJobs, p)
    /\ pc' = finish
    /\ UNCHANGED <<unseen, shell, stdout, pipe>>

(* ExternalCommand in the foreground, up to the fork. *)
Launch ==
    /\ Ready
    /\ jobs' = removeFinishedJobs
    /\ \E p \in {q \in Pids : procSwept[q] = "none"} :
          proc' = [procSwept EXCEPT ![p] = "run"] /\ cur' = p
    /\ pc' = "forked"
    /\ UNCHANGED <<unseen, fg, curId, status, stdout, pipe>>

(* changeFGPid. *)
SetForeground ==
    /\ pc = "forked"
    /\ fg' = cur /\ pc' = "wait"
    /\ UNCHANGED <<childVars, jobs, cur, curId, status, stdout, pipe>>

(* fg, without an argument or with an id in the range it accepts. *)
Foreground ==
    LET J == removeFinishedJobs
        accepted == {id \in Ids(J.list) : id <= MAX_JOBS_NUM} \cup
                    (IF J.list = << >> THEN {} ELSE {lastId(J.list)})
    IN  /\ Ready /\ Sweep
        /\ \E id \in accepted :
              /\ curId' = id
              /\ cur' = getJobById(J.list, id).pid
              /\ fg' = getJobById(J.list, id).pid
        /\ pc' = "wait"
        /\ UNCHANGED <<status, stdout, pipe>>

(* waitpid(cur, WUNTRACED) returns: the child has ended and is reaped, it  *)
(* has stopped and this was not reported before.  cur is always a child    *)
(* (JobsAreChildren), so that waitpid does not fail.                       *)
WaitReturns(p) ==
    \/ /\ proc[p] = "zombie"
       /\ proc' = [proc EXCEPT ![p] = "none"] /\ status' = "ended" /\ UNCHANGED unseen
    \/ /\ proc[p] = "stop" /\ p \in unseen
       /\ unseen' = unseen \ {p} /\ status' = "stopped" /\ UNCHANGED proc

Wait ==
    /\ pc = "wait"
    /\ WaitReturns(cur)
    /\ pc' = "back"
    /\ UNCHANGED <<jobs, fg, cur, curId, stdout, pipe>>

(* The shell's pid is not put back (mutation). *)
fgKept == fg

(* returnSmashPidToFG. *)
returnSmashPidToFG == smash

(* After waitpid: the shell is in the foreground again, and a job that     *)
(* ended leaves the table.                                                 *)
Back ==
    /\ pc = "back"
    /\ fg' = returnSmashPidToFG
    /\ jobs' = IF curId # 0 /\ status = "ended" THEN removeJobById(jobs, curId) ELSE jobs
    /\ pc' = finish /\ cur' = NoPid /\ curId' = 0 /\ status' = "none"
    /\ UNCHANGED <<childVars, stdout, pipe>>

(* What a signal does to a child.  SIGCONT withdraws an unreported stop.   *)
Deliver(P, p, sig) ==
    [P EXCEPT ![p] =
        IF @ \in {"none", "zombie"} THEN @
        ELSE CASE sig = "KILL" -> "zombie"
               [] sig = "STOP" -> "stop"
               [] sig = "CONT" -> "run"]

(* kill: a signal to a job of the table. *)
Kill ==
    LET J == removeFinishedJobs IN
    /\ Ready
    /\ \E id \in Ids(J.list), sig \in {"KILL", "STOP", "CONT"} :
          LET p == getJobById(J.list, id).pid
              P == Deliver(procSwept, p, sig)
          IN  /\ proc' = P
              /\ unseen' = IF P[p] # "stop" THEN unseen \ {p}
                           ELSE IF procSwept[p] = "run" THEN unseen \cup {p} ELSE unseen
    /\ jobs' = J
    /\ pc' = finish
    /\ UNCHANGED <<shell, stdout, pipe>>

(* quit, and quit kill: killAllJobs stops at a pid that is no child. *)
Quit ==
    LET J == removeFinishedJobs IN
    /\ Ready
    /\ \/ proc' = procSwept /\ jobs' = J /\ UNCHANGED unseen
       \/ LET hit == Pidsof(visited(J.list)) IN
          /\ proc' = [p \in Pids |-> IF p \in hit THEN "zombie" ELSE procSwept[p]]
          /\ unseen' = unseen \ hit
          /\ jobs' = IF failsAt(J.list) = {} THEN [J EXCEPT !.list = << >>] ELSE J
    /\ pc' = "exited"
    /\ UNCHANGED <<shell, stdout, pipe>>

-----------------------------------------------------------------------------
(* RedirectionCommand.  The constructor's split of the line into command   *)
(* and file is the choice of the action.                                   *)

(* open, dup or dup2 fails, before descriptor 1 has changed.  A dup2 that  *)
(* fails leaves both new descriptors open.                                 *)
RedirectFails ==
    /\ pc = "prompt" /\ Sweep
    /\ fds' \in {fds} \cup (IF fds + 2 <= FdLimit THEN {fds + 2} ELSE {})
    /\ UNCHANGED <<shell, pc, out, saved, failed, pipe>>

(* Descriptor 1 is the file and og_stdout_fdt, which stays open, what it   *)
(* was before.  When close fails, the command ends at once.                *)
Redirect ==
    /\ pc = "prompt" /\ Sweep
    /\ fds + 2 <= FdLimit
    /\ out' = "file" /\ fds' = fds + 1
    /\ \/ saved' = out /\ pc' = "redirected" /\ UNCHANGED failed
       \/ failed' = TRUE /\ UNCHANGED <<saved, pc>>
    /\ UNCHANGED <<shell, pipe>>

(* The file stays descriptor 1 (mutation). *)
stdoutKept == out

(* dup2(og_stdout_fdt, 1) *)
stdoutRestored == saved

(* The command of the redirection has returned, or it was blank. *)
Restore ==
    /\ pc \in {"redirected", "restore"}
    /\ \/ out' = stdoutRestored /\ UNCHANGED failed
       \/ failed' = TRUE /\ UNCHANGED out
    /\ saved' = "none" /\ pc' = "prompt"
    /\ UNCHANGED <<childVars, jobs, shell, fds, pipe>>

-----------------------------------------------------------------------------
(* PipeCommand.  The constructor's split at | is abstracted likewise.       *)

PipeStart ==
    /\ Ready
    /\ jobs' = removeFinishedJobs
    /\ \E p \in {q \in Pids : procSwept[q] = "none"} :
          /\ proc' = [procSwept EXCEPT ![p] = "run"] /\ cur' = p /\ first' = p
    /\ left' = Output /\ buffer' = 0
    /\ pc' = "pipe1"
    /\ UNCHANGED <<unseen, fg, curId, status, stdout>>

(* pipe fails, and the sons return into the loop of the shell. *)
PipeFails ==
    /\ Ready /\ Sweep
    /\ pc' = "astray"
    /\ UNCHANGED <<shell, stdout, pipe>>

(* The first fork fails: firstSonPid is -1. *)
PipeForkFails ==
    /\ Ready /\ Sweep
    /\ pc' = "any1"
    /\ UNCHANGED <<shell, stdout, pipe>>

(* waitpid for the first son, before the second exists. *)
PipeWaitFirst ==
    /\ pc = "pipe1" /\ WaitReturns(cur)
    /\ pc' = "pipeFork"
    /\ first' = IF status' = "ended" THEN NoPid ELSE first
    /\ UNCHANGED <<jobs, fg, cur, curId, stdout, left, buffer>>

(* When this fork fails the shell closes the pipe and waits for any child. *)
PipeForkSecond ==
    /\ pc = "pipeFork"
    /\ \/ /\ \E p \in {q \in Pids : proc[q] = "none"} :
                proc' = [proc EXCEPT ![p] = "run"] /\ cur' = p
          /\ pc' = "pipe2" /\ UNCHANGED pipe
       \/ /\ pc' = "any2" /\ cur' = NoPid
          /\ first' = NoPid /\ left' = 0 /\ buffer' = 0
          /\ UNCHANGED proc
    /\ UNCHANGED <<unseen, jobs, fg, curId, status, stdout>>

(* waitpid(-1, WUNTRACED): any child will do, and without one it fails. *)
PipeWaitAny ==
    /\ pc \in {"any1", "any2"}
    /\ LET goOn == pc' = IF pc = "any1" THEN "pipeFork" ELSE "pipeDone" IN
       \/ /\ \A p \in Pids : proc[p] = "none"
          /\ goOn /\ UNCHANGED <<childVars, status>>
       \/ \E p \in Pids :
             /\ WaitReturns(p)
             /\ IF status' = "ended" /\ p \in Pidsof(jobs.list) THEN pc' = "astray" ELSE goOn
    /\ UNCHANGED <<jobs, fg, cur, curId, stdout, pipe>>

PipeWaitSecond ==
    /\ pc = "pipe2" /\ WaitReturns(cur)
    /\ pc' = "pipeDone"
    /\ UNCHANGED <<jobs, fg, cur, curId, stdout, pipe>>

PipeDone ==
    /\ pc = "pipeDone"
    /\ pc' = finish /\ cur' = NoPid /\ status' = "none"
    /\ first' = NoPid /\ left' = 0 /\ buffer' = 0
    /\ UNCHANGED <<childVars, jobs, fg, curId, stdout>>

Piping == pc \in {"pipe1", "pipeFork", "pipe2"}

(* The second son left its copy of the write end open (mutation). *)
endOfFileNever == FALSE

(* The second son finds the end of the file: the first has ended, the      *)
(* others closed their write ends, and nothing is left in the pipe.        *)
endOfFile == first = NoPid /\ buffer = 0

PipeWrite ==
    /\ Piping /\ first # NoPid /\ proc[first] = "run"
    /\ left > 0 /\ buffer < Capacity
    /\ left' = left - 1 /\ buffer' = buffer + 1
    /\ UNCHANGED <<childVars, jobs, shell, pc, stdout, first>>

PipeRead ==
    /\ pc = "pipe2" /\ proc[cur] = "run" /\ buffer > 0
    /\ buffer' = buffer - 1
    /\ UNCHANGED <<childVars, jobs, shell, pc, stdout, first, left>>

-----------------------------------------------------------------------------
(* ctrlCHandler.  It does nothing when the shell itself is in the          *)
(* foreground, and nothing but complain when kill fails: between waitpid   *)
(* and returnSmashPidToFG fg is the pid of a process that is gone.  That   *)
(* the system has given this pid to a process of somebody else is left out. *)
CtrlC ==
    /\ pc \notin {"exited", "astray"}
    /\ fg # smash /\ proc[fg] # "none"
    /\ proc' = Deliver(proc, fg, "KILL")
    /\ unseen' = unseen \ {fg}
    /\ fg' = returnSmashPidToFG
    /\ UNCHANGED <<jobs, pc, cur, curId, status, stdout, pipe>>

(* The children. *)
Exit(p) ==
    /\ proc[p] = "run"
    /\ Piping /\ p = first => left = 0
    /\ pc = "pipe2" /\ p = cur => endOfFile
    /\ proc' = [proc EXCEPT ![p] = "zombie"]
    /\ UNCHANGED <<unseen, jobs, shell, pc, stdout, pipe>>

Stop(p) ==
    /\ proc[p] = "run"
    /\ proc' = [proc EXCEPT ![p] = "stop"] /\ unseen' = unseen \cup {p}
    /\ UNCHANGED <<jobs, shell, pc, stdout, pipe>>

ShellStep ==
    \/ SetForeground \/ Wait \/ Back \/ Restore
    \/ PipeWaitFirst \/ PipeForkSecond \/ PipeWaitSecond \/ PipeWaitAny \/ PipeDone

(* CreateCommand picks one command for the line that was typed; the text   *)
(* it looks at is abstracted to that choice.  Beside it the processes move. *)
Next ==
    \/ OtherCommand \/ Background \/ Launch \/ Foreground \/ Kill \/ Quit
    \/ RedirectFails \/ Redirect \/ PipeStart \/ PipeFails \/ PipeForkFails
    \/ ShellStep \/ CtrlC \/ PipeWrite \/ PipeRead
    \/ \E p \in Pids : Exit(p) \/ Stop(p)

(* The shell's own steps are taken, and a command that is not stopped      *)
(* writes and reads its pipe and ends.  Nothing is assumed of the user.    *)
Fairness ==
    /\ WF_vars(ShellStep) /\ WF_vars(PipeWrite) /\ WF_vars(PipeRead)
    /\ \A p \in Pids : WF_vars(Exit(p))

Spec == Init /\ [][Next]_vars /\ Fairness

-----------------------------------------------------------------------------
(* Type invariant. *)
TypeOK ==
    /\ proc \in [Pids -> {"none", "run", "stop", "zombie"}]
    /\ unseen \subseteq {p \in Pids : proc[p] = "stop"}
    /\ jobs.cur_size \in 0..MAX_JOBS_NUM /\ jobs.max_index \in 1..(MaxId + 1)
    /\ \A i \in 1..Len(jobs.list) : jobs.list[i] \in [id : 1..MaxId, pid : Pids]
    /\ fg \in Pids \cup {smash} /\ cur \in Pids \cup {NoPid}
    /\ out \in {"tty", "file"} /\ saved \in {"none", "tty", "file"}
    /\ first \in Pids \cup {NoPid} /\ fds \in 0..FdLimit /\ buffer \in 0..Capacity

(* The job table names each process once, by increasing ids, cur_size      *)
(* counts it, and the id the next job gets is larger than any in use, even *)
(* after fg removed the last job without lowering max_index (line 652).    *)
JobTable ==
    pc # "exited" =>
        /\ jobs.cur_size = Len(jobs.list)
        /\ \A i, j \in 1..Len(jobs.list) :
              i < j => /\ jobs.list[i].id < jobs.list[j].id
                       /\ jobs.list[i].pid # jobs.list[j].pid
        /\ \A id \in Ids(jobs.list) : id < jobs.max_index

(* Every job in the table is a child the shell has not reaped, so that its *)
(* pid cannot belong to another process: kill and fg reach the process the *)
(* user means, and removeFinishedJobs never leaves early (line 589).  Only *)
(* between waitpid and removeJobById is the job fg waited for gone already, *)
(* and one that waitpid(-1) took in a pipe whose fork failed (line 1495).  *)
JobsAreChildren ==
    \A i \in 1..Len(jobs.list) :
        proc[jobs.list[i].pid] = "none" =>
            \/ pc = "back" /\ jobs.list[i].id = curId /\ status = "ended"
            \/ pc = "astray"

Tracked(p) == p \in Pidsof(jobs.list) \cup {cur}

(* The shell loses sight of a child that lives on only when the table was  *)
(* full, when the child stopped in the foreground, or when the shell ends. *)
ChildrenTracked ==
    [][\A p \in Pids :
          proc'[p] # "none" /\ ~Tracked(p)' /\ (Tracked(p) \/ proc[p] = "none") =>
              \/ jobs'.cur_size = MAX_JOBS_NUM
              \/ status = "stopped"
              \/ pc' = "exited"]_vars

(* Ctrl-C kills nothing but the process the shell is waiting for, at every *)
(* moment at which the handler can run (signals.cpp).                      *)
CtrlCKillsForeground ==
    [][CtrlC => \A p \in Pids : proc'[p] # proc[p] => p = cur /\ pc \in {"wait", "back"}]_vars

(* "the redirection is only per this one command" (line 1188): at the      *)
(* prompt the shell writes to the terminal again, whatever way the command *)
(* ended, unless close (line 1206) or the dup2 that restores (line 1212)   *)
(* has failed in some redirection; after that it never does.               *)
StdoutRestored == pc = "prompt" => out = IF failed THEN "file" ELSE "tty"

AtRest == pc \in {"prompt", "exited", "astray"}

(* The shell comes back to its prompt, unless a process it depends on (the *)
(* one it waits for, or the writer of the pipe) is stopped and waitpid has *)
(* reported that stop already: fg sends no SIGCONT (line 899), so a second *)
(* fg of a stopped job waits on.  A stop alone does not hold the shell up. *)
(* When it waits for any child, that takes all of them to be stopped.      *)
PromptReturns ==
    []<>(\/ AtRest
         \/ \E p \in {cur, first} \ {NoPid} : proc[p] = "stop" /\ p \notin unseen
         \/ /\ pc \in {"any1", "any2"} /\ unseen = {}
            /\ \E p \in Pids : proc[p] = "stop"
            /\ \A p \in Pids : proc[p] \in {"none", "stop"})
=============================================================================
