# Verification of OS_234123

TLA+ models of the four programs in this repository, TLC runs on small
instances, and TLAPS proofs of the safety properties of the shell, the system
calls, the server, its queue and the allocators.
Each definition follows the source lines that `PROJECT.json` ("map") names.

## 1. Inventory

| Part | State | Operations | What is hard |
|---|---|---|---|
| HW1 small shell (`Commands.cpp`, `signals.cpp`, `smash.cpp`) | children, job table (`max_index`, `cur_size`), foreground pid, stdout, open descriptors, pipe | external commands, `jobs`, `fg`, `kill`, `quit`, redirection, pipe, Ctrl-C handler; also `cd`, `pwd`, `showpid`, `chprompt` | children end or stop between any two system calls, the handler interrupts the shell anywhere, pids are reused, the table and the descriptors are limited |
| HW2 system calls (`kernel/hw2.c`) | a weight per task, parent, lists of children | `set_weight`, `get_weight`, lightest divisor ancestor, sum of siblings | walks over tasks without a lock |
| HW3 server (`server.c`) | mutex, two condition variables, two queues, descriptors, counters per thread | accept, five overload policies, take, serve, close, finish | interleavings, lost and spurious wakeups, descriptor numbers reused before their entry is removed |
| HW3 queue (`reqQ.c`) | doubly linked list, recycled nodes | insert, remove first, remove by index, search, times | `previous` is not initialised |
| HW3 requests and I/O (`request.c`, `segel.c`, `client.c`, `output.c`) | a `rio_t` and a line buffer per reader, what each writer has left, who has the socket open | read the request line and headers, choose a file, serve static, dynamic or error, fork and wait for a CGI program, robust read and write | partial and interrupted calls, end of file, either end going away, sockets inherited by children |
| HW4 allocators (`malloc_1/2/3.cpp`) | list of blocks and counters; lists by order, mapped blocks | `smalloc`, `scalloc`, `sfree`, `srealloc`, statistics | long sequences of calls, failures, products that wrap around |

The four homeworks are separate programs. Inside HW3 the server uses the
queue, and every worker calls the request handler, which talks to one client
over one connection.

What makes each part correct: the server never exceeds its capacity, strands
nobody and closes each connection; the list is a queue; an allocator gives a
block to one owner, counts exactly and keeps contents; the shell tracks its
children, kills only the process meant and returns to its prompt; a system call
returns what follows from the weights it read; what one end of a connection
writes is what the other reads, and both come to an end.

## 2. Modules

| Module | Models | Correspondence |
|---|---|---|
| `ReqSeq` | the queue as a sequence | operators named after the functions of `reqQ.c` |
| `ReqQ`, `ReqQSpec` | the linked list, and what it promises | nodes come from a pool; `previous` of a new node is any pointer, as in memory from malloc, and the fields of a freed node are reset, since nothing may depend on them; `ReqQ` implements `ReqQSpec` |
| `Server` | `main` and `handle_reqs` | `mpc` and `wpc` are the points between calls that another thread can see; a waiting thread wakes by signal or spuriously; `fdtab` is the kernel's descriptor table |
| `AdmissionSpec` | abstract server | a connection is held, queued, being served, served or dropped; `ServerAdmission` gives the mapping from `Server` |
| `Malloc2` | first-fit allocator | the heap record is the list and the counters; a block has a token per byte; callers keep pointers in handles, with what they rely on finding at each byte; sbrk may fail at any call |
| `Malloc3Heap` | heap of the buddy allocator, as a value | addresses in units of order 0, `mdListArr` by order; split, merge and growth are operators on it |
| `Malloc3` | the allocator and its callers | the heap, mapped blocks apart; one token per block |
| `Malloc3Stats` | its statistics | counted list by list, in an `int` where the code does |
| `Smash` | the shell | `pc` is the system call the shell is at; children, Ctrl-C and pipe transfers are steps of their own |
| `Weights` | the system calls of HW2 | a step of a walk is one read of a weight, four in a round of the loop over ancestors; forks and `set_weight` come between |
| `Rio` | `rio_t` and the buffered reads of `segel.c` | operators for the refill, the copy of one byte and the end of a line; `rio_cnt` is -1 after an interrupted read |
| `Request` | decisions and texts of `request.c` | which file a URI names, who may be served, and the pieces of each response, one per call of `Rio_writen` |
| `Exchange` | one request: worker, client, CGI program, connection | `sent` and `got` are the two directions; `wpc` and `cpc` are the calls of `requestHandle` and of the client; `holders` are the processes with the server's end open; `unix_error` ends a process |
| `ServerProofs`, `ServerConnProofs` | theorems about `Server` | `ServerProofs` begins with the operators of `ReqSeq`; `ServerConnProofs` is about single connections; `ServerTerms` has the terms of both |
| `Malloc3HeapProofs`, `Malloc3Proofs` | theorems about `Malloc3` | the first is about the heap as a value (terms in `Malloc3HeapTerms`), the second about the allocator and its callers; `Malloc3Terms` has its terms and the inductive invariant |
| `ReqQProofs`, `Malloc2Proofs`, `SmashProofs`, `WeightsProofs` | theorems about `ReqQ`, `Malloc2`, `Smash`, `Weights` | each with its lemmas |

`ServerMC`, `ReqQMC`, `Malloc2MC`, `Malloc3MC`, `SmashMC`, `WeightsMC` and
`ExchangeMC` instantiate them for TLC. `Server` uses `ReqSeq`; the run
`reqq_list` shows that the list behaves like it, so that the server need not
carry pointers. `Server` has many connections and one step for `requestHandle`;
`Exchange` has one connection and every step of that call.

In `Exchange` a symbol of the stream is CR, LF or a run of other bytes. The
headers are built with `sprintf(buf, "%s...", buf)`, whose arguments overlap;
the build (`-g -Wall`, neither optimised nor fortified) appends, and so does the
model. A buffer that is not initialised, and what `sscanf` does not find, is any
of a set of contents (`Leftover`, `Methods`, `Uris`).

## 3. Runs

| Run | Shows | Bounds |
|---|---|---|
| `server_safety` | capacity, `busy_threads` against the workers, descriptor ownership, wakeups, counters per thread, refinement of `AdmissionSpec` | 2 workers, queue 3, 4 connections, 4 descriptors, three kinds of requests: queueing behind busy workers, all policies at their limit, reuse of numbers |
| `server_liveness` | each connection is closed, `block` answers all, overload ends | 2 workers, queue 2, 3 connections: requests in service alone fill the server |
| `server_flush` (violation) | `bf` stops waiting while requests are left | queue 2 |
| `reqq_list` | no bad pointer, consistent links, the list is a queue | limit 4, 5 nodes: first, middle and last with recycled nodes |
| `first_fit` | ownership, counters, bytes, contents | 3 blocks, 3 callers, limit 2, sizes and counts 0 to 4, words of 8: products wrap to sizes that pass the limit, and recycled blocks are larger than asked for |
| `buddy` | partition, owners, usable free space, statistics, room, contents | 2 roots of order 2, 4 callers; an `int` of -40 to 39, which the heap of 32 bytes stays below and a mapped block passes |
| `buddy_merge` (violation) | `sfree` merges over a block in use | as `buddy` |
| `buddy_calloc` (violation) | the product wraps before the test | words of 32 |
| `smash` | job table, living children, stdout, Ctrl-C, prompt | 3 children, table of 2 so that it overflows, 3 descriptors; every call of a redirection and both forks of a pipe may fail |
| `smash_pipe` (violation) | a writer that fills the pipe blocks the shell | output 3, pipe 2 |
| `weights` | results match the weights read | 4 processes (a chain of three ancestors, or three siblings), weights -1, 0, 2, 4; one walk at a time (`MaxCalls`), since a walk writes only variables of its own |
| `exchange` | bytes in order, headers read to their end and no further, whole responses, the handler returns, the client ends | `rio_buf` 2 and line buffer 4, so that lines cross refills and the page crosses a line; socket buffers 4 and 3, so that writes block; four URIs (page, directory with an empty home page, program with arguments, `..`) and a refused method; a CGI program stops at most once |

How far these go:

- `buddy` is about behaviours up to the first faulty merge. When `sfree` or
  `srealloc` joins a block with something other than its free other half, `bad`
  is set, the model stops and the invariants claim nothing. `buddy_merge` shows
  that such behaviours exist.
- `PromptReturns` exempts a process the shell waits for that is stopped and whose
  stop `waitpid` has already reported. A second `fg` of a stopped job is such a
  case: `fg` sends no SIGCONT. When the shell waits for any child, the exemption
  takes all of them to be stopped, with every stop reported.
- `CtrlCKillsForeground` says that nothing else is killed. A Ctrl-C between fork
  and `changeFGPid` is lost, and the property permits that.
- `PipeCommand` checks neither `pipe` nor `fork`. After a failed fork the model
  goes on as the code does, with `waitpid(-1)` for any child. It stops ("astray")
  when that takes a job of the table, whose entry then names no child, and when
  `pipe` fails, since a son then returns into the shell's loop.
- `StdoutRestored` has one exception, and says what happens in it: once `close`
  (`Commands.cpp:1206`) or the `dup2` that restores (`:1212`) has failed, the
  shell writes to the file for good.
- Pids belong to children of the shell. That a pid is reused by a process outside
  it, between `waitpid` and `returnSmashPidToFG`, is left out of `CtrlC`.
- `AncestorRight` claims the best answer when no weight changed between two reads
  of it in one round (`torn`). In a round where one did, the answer is still one
  of the processes passed, and only there can line 57 divide by zero (`fault`).
- `ContentsKept` is about the bytes the code computed. A product that wraps in
  `scalloc` is less than num * size, and no more is allocated or cleared.
- `StatsConserved` asks for exact figures below the range of an `int` and for
  figures that agree modulo 2^32 above it (`malloc_3.cpp:415`).
- In `buddy`, `memmove` of the last block of the heap reads past the program break:
  either nothing happens, or `bad` is set. `addMD` and `delMD` are operators on
  sorted sequences; their pointers are not modelled.
- The numbers in the configurations are scaled down: what matters is the order
  between limits, words and sizes, and that each of them is passed.
- `server_safety` has fewer workers than queue places. The other case is in
  `server_liveness`, and in the theorems, which are about every number of both.
- `WorkerReturns` has one exception: a client that goes away before the empty
  line leaves `requestReadhdrs` (`request.c:59`) reading the end of the stream
  for ever.
- `HeadersEndAtEmptyLine` is about requests as `client.c` sends them: every line
  but the empty one ends in LF alone, so that a line cut at the end of the line
  buffer leaves nothing that looks empty. With lines that end in CR LF it could.
- `ResponseComplete` exempts a server or a CGI program that ended early: the
  client takes the end of the stream for the end of the response.
- `ClientEnds` exempts a CGI program that stays stopped with the socket open.

Fairness. `FairSpec` of the server: a thread that can run does (WF), and a mutex
released again and again is not withheld for ever (SF, needed since a thread
competes with others and with spurious wakeups). Connections and spurious
wakeups are not assumed. That `requestHandle` ends is an assumption of `Server`;
`WorkerReturns` of `Exchange` shows when it holds. In `Smash` the shell takes its
steps, and a command that is not stopped moves its data and ends; commands that
run for ever are outside `PromptReturns`. Nothing is assumed of the user. In
`Exchange` the worker, the client and the CGI program run (WF each: one thread of
control that nothing else disables for ever), and CGI programs of other requests
end. No fault has to happen: resets, interrupts, exits, stops and resumptions are
possible at any time and never assumed.

Deadlock is not checked for `Smash` (the shell may have quit), for `Malloc3` (the
model stops at a faulty merge) nor for `Exchange` (it ends).

## 4. Proofs

For every number of threads, queue size, set of descriptors and number of
connections (`ServerProofs`; `ServerAssumption`: both numbers positive, -1 not a
descriptor):

- `TypeCorrect`, then `MutualExclusion` from it;
- `Capacity`: `QueueBound` is not inductive, as `insertReq` follows the test in
  a later step. `RoomBeforeInsert` is added: while main holds the mutex on its
  way there, nobody else changes the queues;
- `BusyIsTheWorkers`: the inductive form is a one-to-one matching of queue
  entries with workers in service. The entry need not be the worker's own: after
  a number is reused, a worker may remove the other's entry;
- `MainNotStranded` from the matching and mutual exclusion;
- `WorkersNotStranded`: counting the workers on their way to the queue.

From these, for the same constants (`ServerConnProofs`):

- `ConnectionsOwned`: `ConnInv` says that main, the queue and the workers that
  have not closed yet own different numbers, that every open number has an owner
  (`OwnedInv`), and that no connection is worked on by two parties (`ApartInv`).
  `DescriptorsOwned` alone is a statement about sets and would not exclude two
  owners of one number, whose first close breaks it. `RoomBeforeInsert` is needed
  where `insertReq` would drop a request;
- `HeadersExact`: `StatsInv` adds to `StatsPerThread` that each thread keeps its
  own number and that a request counts at most once as static or dynamic;
  `RepliesInv` says that connections still waiting are unanswered, and needs
  `ApartInv`: two owners could answer one connection twice;
- `ServerImplementsAdmission`: under the mapping of `ServerAdmission` each
  action is an action of `AdmissionSpec` or a stutter. The bound of the abstract
  server counts connections where the code counts queue entries; `ApartInv` and
  the matching of `BusyIsTheWorkers` make the two counts equal.

For every pool of nodes and limit (`ReqQProofs`): `ListInv` says that a sequence
of distinct nodes starts at `head`, ends at `tail`, holds exactly the live nodes
and is linked both ways, except for the `previous` of the first node, which is
not initialised. With `WalksRight`, where the walk of a loop is after k steps, it
gives `ListFaultFree`, `ListLinked` and, with the nodes read off as requests,
`ListRefinesQueue`.

For every heap and caller (`Malloc2Proofs`): `HeapTypeOK`, `CountersExact`,
`BytesExact`, `OneOwner` and `ContentsKept` are inductive together, and each
follows. `BytesExact` compares a counter with a sum over the list: an append
adds one term, a change of `is_free` or of an owner changes none or one. For
`ContentsKept` the bytes of one block at a time change (`put`), and by `OneOwner`
that is the block of the caller itself or a block nobody holds: `memset` and
`memcpy` reach no other caller's bytes.

For every number of orders and roots, every unit, metadata size smaller than a
unit, limit and word, every set of sizes and counts and any number of callers and
mapped blocks (`Malloc3Proofs`, on the lemmas of `Malloc3HeapProofs`), in every
state reached without a faulty merge:

- `HeapIsPartitioned`, `BlocksHaveOwners`, `FreeSpaceStaysUsable`, `DataStays`,
  the last one, and `RequestsHaveRoom`, where no product in `scalloc` and no sum in
  `srealloc` exceeds a word (`NoWrap`; it holds in `buddy`, and `buddy_calloc`
  shows a product that does);
- the inductive invariant is `Malloc3Inv`. `HeapOK` says that the blocks lie side
  by side, aligned and covering the heap (`Tiled`), and that each list holds the
  blocks of its order by address. `Owned` ties the blocks in use and the mapped
  ones to the callers one to one. `NoPairs` says that no free block has a free
  neighbour of its own size. `Idle` says that memory nobody holds stores no
  content of a caller: `smalloc` hands it out as it is;
- for each operation a lemma says what it makes of a heap: a split (`SplitFacts`),
  a merge of two halves (`JoinFacts`), marking (`MarkFacts`), the search
  (`ExactFacts`), and the two loops round by round (`CoalesceFacts`,
  `AbsorbFacts`). In the middle of `sfree` the freed block may have a free
  neighbour, so that the rounds keep the weaker `NoPairsBut` and the last round
  restores `NoPairs`. That the neighbour's address is that of a block at all
  (`NeighbourIsBlock`) follows from the alignment: an aligned block that began
  before that address and covered it would cover the freed block too;
- `FreeSpaceStaysUsable` is not a matter of one step: if an aligned free stretch
  lay in several blocks, the neighbour of the smallest of them would be in it,
  free and of the same size (`StretchFits`), against `NoPairs`;
- the sizes are powers of two, a recursive function (`pow2`); that they double,
  divide one another, and what flipping the bit of a size does to an address are
  lemmas too (`SizesDouble`, `PowersDivide`, `FlippedHalf`).

For any number of children, table size and limit on descriptors (`SmashProofs`;
the shell and `NoPid` are not children: `PidAssumption`):

- `StdoutSafe`: `StdoutInv` adds to the property that in a redirection descriptor
  1 is the file and `og_stdout_fdt` is what it was before, and that a command
  under a redirection comes back through `Restore`, whose failure sets `failed`;
- `SmashTyped`, `JobTableKept`, `JobsNotReaped`: one inductive invariant,
  `SmashInv`. `TableInv` is the state of the table; `CurInv` ties the child the
  shell waits for to the system call it is at, and says that the foreground pid
  is the shell's own or that child's; `CurListed` says that the child is in the
  table only when `fg` took it from there, under the id that `fg` remembers, as it
  is by this id that it is removed. The sweep is a recursive function over the
  list; a least position where its result is wrong is shown not to exist;
- `ChildrenNotLost` and `CtrlCSafe`, two action properties, from the same
  invariant.

For any number of processes and any weights (`WeightsProofs`): `WeightsInv` says
that every process has a parent that exists and is once in its list (`Family`),
and for each call in progress what it has read and what it holds from that
(`Walking`, `Adding`), in terms no step of another process can change. In the
middle of a round `Walking` knows of the last weight read only what the reads so
far have told, and only while none differed; a weight that became 0 is not the one
line 54 read, so that the division by zero implies `torn`. The sum has the
caller's weight in it exactly when it has passed the caller, as siblings are
distinct. `AncestorFound` and `SiblingsAdded` follow for calls that returned,
`WeightsTyped` beside them.

Induction over data is done with least counterexamples (`LeastNatural`): sums
over lists, the sweep of the job table, the rounds of `sfree` and `srealloc` and
the powers of two are recursive functions, whose existence, uniqueness and
recursion equations are lemmas. The references `SumOthers` (`Weights`) and
`bytesOf` (`Malloc2`) are written as recursive functions for that.

Only model-checked: liveness (`server_liveness`, `PromptReturns`, `WorkerReturns`,
`ClientEnds`), which is beyond the prover; the safety of `Exchange`; and
`StatsConserved` of `Malloc3Stats`, which adds up functions over sets with the folds of the library; that such a sum
does not depend on the order of its terms is an induction over sets that the
prover cannot do.

## 5. Disagreements found

- `bf` (`server.c:180`) leaves its wait at the first free slot; the assignment
  (PDF, page 8) asks for an empty queue and idle threads.
- `sfree` (`malloc_3.cpp:558`) compares `is_free` and not the size of a neighbour.
- `scalloc` (`malloc_3.cpp:512`) tests a product that may have wrapped.
- `PipeCommand` (`Commands.cpp:1495`) waits for the writer before it starts the
  reader.

## 6. Not modelled

- `malloc_1.cpp`: one call of sbrk, no state.
- `rio_readn` and `rio_readnb` (no caller); the remaining wrappers of `segel.c`
  (one system call and `unix_error` each); opening the listening socket;
  `requestGetFiletype` (the wording of a header); the pauses of `output.c`.
- Several connections at once in `Exchange`: what others do to this one is kept
  (`OtherForks`, `OtherEnds`, `ServerExits`).
- `cd` with its previous directory and the prompt of `chprompt`: strings that no
  other command reads. `chmod` is never dispatched. Text parsing in the shell.
- The shell after `pipe` failed in `PipeCommand`, or after `waitpid(-1)` took a job
  of the table there; processes outside the shell that get a pid it still knows.
- Tasks that exit during a walk in HW2: the walk then reads freed memory.
- In `malloc_3.cpp`, srealloc of mapped blocks (excluded by its comment), failures
  of sbrk and mmap (not checked by the code), and the heap after a faulty merge.
- What the bytes are that `srealloc` of `malloc_2.cpp` reads beyond a smaller old
  block: they are junk that nobody relies on, and the read does not fault.
- Memory that the server never frees and allocation failures in it; the test
  programs.
