---------------------------- MODULE ParallelUpdates ----------------------------
(***************************************************************************)
(* What of SALT runs in parallel: threads that meet at the one-time        *)
(* construction of the shared committer (build_shared_committer in         *)
(* salt/src/trie/trie.rs), and add_commitment_deltas, which sums the       *)
(* changes of nodes in chunks on the global rayon pool (the macros of      *)
(* salt-macros).                                                           *)
(*                                                                         *)
(* The pool is external: its workers take jobs in any order, and a worker  *)
(* that waits for jobs of its own takes others meanwhile, on top of its    *)
(* stack.  A caller outside the pool hands over the whole operation and    *)
(* sleeps.  LazyLock is external: one thread runs the initialization, the  *)
(* others sleep until it ends, and a panic in it poisons the lock.         *)
(***************************************************************************)
EXTENDS Integers, Sequences, FiniteSets, SequencesExt, FiniteSetsExt

CONSTANTS
  Workers,    \* the workers of the global pool
  Callers,    \* threads outside the pool that update a trie
  Touches,    \* jobs in the pool that create a StateRoot and nothing else
  PoolTasks,  \* jobs in the pool that update a trie
  Lists,      \* the lists of deltas considered: sequences of node ids
  MinBatch,   \* min_par_batch_size
  Threads,    \* num_threads!(): 10 times as many batches are made
  TableJobs,  \* the parts of the table that Committer::new builds in parallel
  MayPanic    \* may Committer::new panic?

ASSUME ParallelAssumption ==
  /\ MinBatch \in Nat \ {0} /\ Threads \in Nat \ {0} /\ TableJobs \in Nat \ {0}
  /\ MayPanic \in BOOLEAN

(* A thread is in the pool or outside, and every job is one of its own. *)
ASSUME DisjointAssumption ==
  /\ Workers \cap Callers = {} /\ Callers \cap PoolTasks = {}
  /\ Touches \cap (Callers \cup PoolTasks) = {}

Thread == Workers \cup Callers
Tasks == Callers \cup PoolTasks

VARIABLES
  deltas,    \* the list that the tasks add
  lazy,      \* SHARED_COMMITTER: [st, by]
  init,      \* the thread salt-committer-init: "none", "running", "panicked"
  tables,    \* the parts that its dedicated pool has yet to build
  queue,     \* the jobs of the global pool that nobody has taken
  stack,     \* what each thread is doing, innermost last
  plan,      \* the sorted deltas and the chunk ranges, per task
  chunked,   \* the results of the chunks that are done, per task
  outcome,   \* what became of each task
  aborted    \* the process was aborted

vars == <<deltas, lazy, init, tables, queue, stack, plan, chunked, outcome, aborted>>
building == <<lazy, init, tables, aborted>>
adding == <<deltas, plan, chunked, outcome>>

-------------------------------------------------------------------------------
(* add_commitment_deltas: the delta with index i counts 2 ^ i, and node n  *)
(* had the commitment 1000 n.                                              *)

par_batch_size(num_tasks) ==
  Max({MinBatch, (num_tasks + 10 * Threads - 1) \div (10 * Threads)})

OldCommitment(n) == 1000 * n

Sorted(list) == SortSeq([i \in DOMAIN list |-> [id |-> list[i], delta |-> 2 ^ i]],
                        LAMBDA x, y : x.id < y.id)

(* Variant of NodeBoundary: the chunks are as long as they should be. *)
NodeBoundaryExact(ds, from) == from

(* The next boundary that does not split the deltas of one node. *)
NodeBoundary(ds, from) ==
  CHOOSE b \in from .. Len(ds) :
    /\ b = Len(ds) \/ ds[b + 1].id # ds[b].id
    /\ \A c \in from .. b - 1 : ds[c + 1].id = ds[c].id

(* The boundaries of the chunks, from 0 to the length *)
Boundaries(ds, task_size) ==
  LET after[from \in 0 .. Len(ds) + task_size] ==
        IF from >= Len(ds) THEN {}
        ELSE LET b == NodeBoundary(ds, from)
             IN  IF b < Len(ds) THEN {b} \cup after[b + task_size] ELSE {}
  IN  SetToSortSeq({0, Len(ds)} \cup after[task_size], <)

create_node_aligned_chunks(ds, task_size) ==
  LET bounds == Boundaries(ds, task_size)
  IN  IF Len(ds) = 0 THEN <<<<0, 0>>>>
      ELSE [i \in 1 .. Len(bounds) - 1 |-> <<bounds[i], bounds[i + 1]>>]

(* accumulate_chunk_deltas: one change per run of deltas of a node *)
accumulate_chunk_deltas(ds, range) ==
  LET Add(acc, i) ==
        IF acc # << >> /\ Last(acc).id = ds[i].id
        THEN [acc EXCEPT ![Len(acc)].new = @ + ds[i].delta]
        ELSE Append(acc, [id |-> ds[i].id, old |-> OldCommitment(ds[i].id),
                          new |-> OldCommitment(ds[i].id) + ds[i].delta])
  IN  FoldLeft(Add, << >>, [i \in 1 .. range[2] - range[1] |-> range[1] + i])

(* What the operation prepares before its chunks run in parallel *)
Planned(list) ==
  LET ds == Sorted(list)
  IN  [ds |-> ds, ranges |-> create_node_aligned_chunks(ds, par_batch_size(Len(ds)))]

-------------------------------------------------------------------------------
Job(kind, task, chunk) == [kind |-> kind, task |-> task, chunk |-> chunk]
Frame(job, at) == [job |-> job, at |-> at]

Init ==
  /\ deltas \in Lists
  /\ lazy = [st |-> "new", by |-> "nobody"] /\ init = "none" /\ tables = 0 /\ aborted = FALSE
  /\ queue = {Job("touch", j, 0) : j \in Touches} \cup {Job("task", j, 0) : j \in PoolTasks}
  /\ stack = [t \in Thread |-> IF t \in Callers THEN <<Frame(Job("task", t, 0), "force")>> ELSE << >>]
  /\ plan = [k \in Tasks |-> [ds |-> << >>, ranges |-> << >>]]
  /\ chunked = [k \in Tasks |-> << >>]
  /\ outcome = [k \in Tasks \cup Touches |-> "none"]

Top(t) == Last(stack[t])
At(t, at) == stack[t] # << >> /\ Top(t).at = at
Go(t, at) == stack' = [stack EXCEPT ![t][Len(stack[t])].at = at]
Pop(t) == stack' = [stack EXCEPT ![t] = Front(@)]

(* Variant of CanTake: the thread that waits for the initialization waits  *)
(* as the pool does.                                                       *)
CanTakeJoining(t) == t \in Workers /\ (stack[t] = << >> \/ At(t, "wait") \/ At(t, "join"))

(* A worker takes a job when it has none, or while it waits in the pool. *)
CanTake(t) == t \in Workers /\ (stack[t] = << >> \/ At(t, "wait"))

TakeJob(t) ==
  /\ CanTake(t) /\ ~ aborted
  /\ \E job \in queue :
       /\ queue' = queue \ {job}
       /\ stack' = [stack EXCEPT ![t] =
                      Append(@, Frame(job, CASE job.kind \in {"touch", "task"} -> "force"
                                             [] job.kind = "op" -> "split"
                                             [] job.kind = "chunk" -> "chunk"))]
  /\ UNCHANGED <<building, adding>>

-------------------------------------------------------------------------------
(* The shared committer *)

Ended(t, how) ==
  /\ outcome' = [outcome EXCEPT ![Top(t).job.task] = how]
  /\ Pop(t)

(* StateRoot::new and rebuild dereference SHARED_COMMITTER. *)
ForceFirst(t) ==
  /\ At(t, "force") /\ lazy.st = "new" /\ ~ aborted
  /\ lazy' = [st |-> "running", by |-> t]
  /\ Go(t, "pool")
  /\ UNCHANGED <<init, tables, aborted, queue, adding>>

(* It is there, or the dereference panics because it is poisoned. *)
ForceAgain(t) ==
  /\ At(t, "force") /\ ~ aborted
  /\ \/ /\ lazy.st = "done" /\ Top(t).job.kind = "task"
        /\ Go(t, "update") /\ UNCHANGED outcome
     \/ /\ lazy.st = "done" /\ Top(t).job.kind = "touch"
        /\ Ended(t, "created")
     \/ /\ lazy.st = "poisoned"
        /\ Ended(t, "panicked")
  /\ UNCHANGED <<building, queue, deltas, plan, chunked>>

(* A pool of its own for the construction; abort_init if there is none *)
BuildPool(t) ==
  /\ At(t, "pool") /\ ~ aborted
  /\ \/ Go(t, "spawn") /\ UNCHANGED aborted
     \/ aborted' = TRUE /\ UNCHANGED stack
  /\ UNCHANGED <<lazy, init, tables, queue, adding>>

(* A thread of its own waits for that pool; abort_init if there is none. *)
SpawnInit(t) ==
  /\ At(t, "spawn") /\ ~ aborted
  /\ \/ Go(t, "join") /\ init' = "running" /\ tables' = TableJobs /\ UNCHANGED aborted
     \/ aborted' = TRUE /\ UNCHANGED <<stack, init, tables>>
  /\ UNCHANGED <<lazy, queue, adding>>

(* Variant of CanBuild: the tables are built by free workers of the global pool. *)
CanBuildOnGlobal == \E w \in Workers : CanTake(w)

(* The workers of the dedicated pool have nothing else to do. *)
CanBuild == init = "running"

BuildTable ==
  /\ CanBuild /\ init = "running" /\ tables > 0 /\ ~ aborted
  /\ tables' = tables - 1
  /\ UNCHANGED <<lazy, init, aborted, queue, stack, adding>>

BuildPanics ==
  /\ MayPanic /\ init = "running" /\ tables > 0 /\ ~ aborted
  /\ init' = "panicked"
  /\ UNCHANGED <<lazy, tables, aborted, queue, stack, adding>>

(* join: the committer, or the panic again, which poisons the lock *)
JoinInit(t) ==
  /\ At(t, "join") /\ ~ aborted
  /\ \/ /\ init = "running" /\ tables = 0
        /\ lazy' = [lazy EXCEPT !.st = "done"]
        /\ Go(t, "force")
        /\ UNCHANGED outcome
     \/ /\ init = "panicked"
        /\ lazy' = [lazy EXCEPT !.st = "poisoned"]
        /\ Ended(t, "panicked")
  /\ UNCHANGED <<init, tables, aborted, queue, deltas, plan, chunked>>

-------------------------------------------------------------------------------
(* add_commitment_deltas as an operation of the pool *)

(* Outside the pool the operation becomes a job, and the caller sleeps. *)
Enter(t) ==
  /\ At(t, "update") /\ ~ aborted
  /\ \/ t \in Workers /\ Go(t, "split") /\ UNCHANGED queue
     \/ /\ t \notin Workers /\ Go(t, "asleep")
        /\ queue' = queue \cup {Job("op", Top(t).job.task, 0)}
  /\ UNCHANGED <<building, adding>>

Running == <<[id |-> 0]>>

(* One job per chunk *)
Split(t) ==
  /\ At(t, "split") /\ ~ aborted
  /\ LET task == Top(t).job.task
         p == Planned(deltas)
     IN  /\ plan' = [plan EXCEPT ![task] = p]
         /\ chunked' = [chunked EXCEPT ![task] = [i \in DOMAIN p.ranges |-> Running]]
         /\ queue' = queue \cup {Job("chunk", task, i) : i \in DOMAIN p.ranges}
  /\ Go(t, "wait")
  /\ UNCHANGED <<building, deltas, outcome>>

DoChunk(t) ==
  /\ At(t, "chunk") /\ ~ aborted
  /\ LET job == Top(t).job
         p == plan[job.task]
     IN  chunked' = [chunked EXCEPT ![job.task][job.chunk] = accumulate_chunk_deltas(p.ds, p.ranges[job.chunk])]
  /\ Pop(t)
  /\ UNCHANGED <<building, queue, deltas, plan, outcome>>

(* All chunks are done; their results are put in the chunks' order. *)
Collect(t) ==
  /\ At(t, "wait") /\ ~ aborted
  /\ \A i \in DOMAIN chunked[Top(t).job.task] : chunked[Top(t).job.task][i] # Running
  /\ Ended(t, "updated")
  /\ UNCHANGED <<building, queue, deltas, plan, chunked>>

Wake(t) ==
  /\ At(t, "asleep") /\ outcome[Top(t).job.task] # "none" /\ ~ aborted
  /\ Pop(t)
  /\ UNCHANGED <<building, queue, adding>>

Step(t) ==
  \/ TakeJob(t)
  \/ ForceFirst(t) \/ ForceAgain(t) \/ BuildPool(t) \/ SpawnInit(t) \/ JoinInit(t)
  \/ Enter(t) \/ Split(t) \/ DoChunk(t) \/ Collect(t) \/ Wake(t)

Next == BuildTable \/ BuildPanics \/ \E t \in Thread : Step(t)

(* Threads run: the system schedules each of them, and a pool wakes its    *)
(* workers while there are jobs.                                           *)
Fairness == WF_vars(BuildTable) /\ \A t \in Thread : WF_vars(Step(t))

Spec == Init /\ [][Next]_vars /\ Fairness

-------------------------------------------------------------------------------
(* PROPERTY NothingOnTop                                                   *)
(* The thread that initializes the committer has nothing stacked upon the  *)
(* initialization: it never takes a job that would wait for the committer  *)
(* which only this thread can finish.                                      *)
NothingOnTop ==
  lazy.st = "running" => Top(lazy.by).at \in {"pool", "spawn", "join"}

(* PROPERTY EveryTaskEnds                                                  *)
(* Whichever thread comes first, in the pool or outside, with any jobs     *)
(* queued: each task ends, with its update or, if the construction         *)
(* panicked, with a panic; or the process was aborted.                     *)
EveryTaskEnds ==
  <>(aborted \/ (queue = {} /\ \A t \in Thread : stack[t] = << >>
                 /\ \A k \in DOMAIN outcome : outcome[k] # "none"))

(* Reference: one change per node, with the sum of its deltas *)
Summed ==
  LET nodes == SetToSortSeq(Range(deltas), <)
  IN  [i \in DOMAIN nodes |->
         [id |-> nodes[i], old |-> OldCommitment(nodes[i]),
          new |-> OldCommitment(nodes[i])
                    + MapThenSumSet(LAMBDA j : 2 ^ j, {j \in DOMAIN deltas : deltas[j] = nodes[i]})]]

(* PROPERTY EachNodeOnce                                                   *)
(* The results of the chunks, in order, have every node once, with all of  *)
(* its deltas, sorted by node: no node is in two chunks, which would both  *)
(* start from its old commitment.                                          *)
EachNodeOnce ==
  \A k \in Tasks : outcome[k] = "updated" =>
    FlattenSeq(chunked[k]) = Summed
-------------------------------------------------------------------------------
(* The inductive invariant behind NothingOnTop, and what the interleaving  *)
(* has to do with EachNodeOnce                                             *)

Jobs == [kind : {"touch", "task", "op", "chunk"}, task : Tasks \cup Touches, chunk : Nat]
Initializing == {"pool", "spawn", "join"}
Places == Initializing \cup {"force", "update", "split", "wait", "chunk", "asleep"}
Frames == [job : Jobs, at : Places]

(* Type invariant. *)
TypeOK ==
  /\ lazy \in [st : {"new", "running", "done", "poisoned"}, by : Thread \cup {"nobody"}]
  /\ queue \subseteq Jobs
  /\ stack \in [Thread -> Seq(Frames)]
  /\ plan \in [Tasks -> {[ds |-> << >>, ranges |-> << >>], Planned(deltas)}]
  /\ DOMAIN chunked = Tasks
  /\ outcome \in [Tasks \cup Touches -> {"none", "created", "panicked", "updated"}]

(* A job of a kind is at the places that its code has, with its own task. *)
Fits(job) == job.task \in (IF job.kind = "touch" THEN Touches ELSE Tasks)
FitsAt(job, at) ==
  /\ Fits(job)
  /\ at \in Initializing \cup {"force"} => job.kind \in {"task", "touch"}
  /\ at \in {"update", "asleep"} => job.kind = "task"
  /\ at \in {"split", "wait"} => job.kind \in {"task", "op"}
  /\ at = "chunk" => job.kind = "chunk"

JobsFit ==
  /\ \A job \in queue : Fits(job)
  /\ \A t \in Thread : \A i \in DOMAIN stack[t] : FitsAt(stack[t][i].job, stack[t][i].at)

(* Only the thread that the lock knows of initializes, on top of its stack. *)
OneInitializer ==
  /\ lazy.st = "running" => /\ lazy.by \in Thread /\ stack[lazy.by] # << >>
                            /\ Top(lazy.by).at \in Initializing
  /\ \A t \in Thread : \A i \in DOMAIN stack[t] :
       stack[t][i].at \in Initializing => lazy.st = "running" /\ lazy.by = t /\ i = Len(stack[t])

(* The operation of task k, which whoever holds it has yet to finish. *)
IsOperation(job, k) == job.kind \in {"task", "op"} /\ job.task = k
Holds(t, i, k) == IsOperation(stack[t][i].job, k) /\ stack[t][i].at # "asleep"

(* The operation of a task is in one place, and in none when it has ended. *)
OneHolder ==
  \A k \in Tasks :
    /\ \A t, u \in Thread : \A i \in DOMAIN stack[t], j \in DOMAIN stack[u] :
         Holds(t, i, k) /\ Holds(u, j, k) => t = u /\ i = j
    /\ \A t \in Thread : \A i \in DOMAIN stack[t] :
         Holds(t, i, k) => outcome[k] = "none" /\ \A job \in queue : ~ IsOperation(job, k)
    /\ \A job \in queue : IsOperation(job, k) => outcome[k] = "none"
    /\ \A job, other \in queue : IsOperation(job, k) /\ IsOperation(other, k) => job = other

(* What the i-th chunk of the deltas comes to when it runs alone. *)
Ranges == DOMAIN Planned(deltas).ranges
ChunkAlone(i) == accumulate_chunk_deltas(Planned(deltas).ds, Planned(deltas).ranges[i])

(* Task k has been split, and each of its chunks is running or done. *)
InChunks(k) ==
  /\ plan[k] = Planned(deltas)
  /\ chunked[k] = [i \in Ranges |-> chunked[k][i]]
  /\ \A i \in Ranges : chunked[k][i] \in {Running, ChunkAlone(i)}

(* However the chunks of all the tasks interleave, an update that has      *)
(* ended has for each of its chunks what that chunk comes to alone: it     *)
(* waited for all of them, and none was run for another plan or twice.     *)
AsIfAlone ==
  \A k \in Tasks : outcome[k] = "updated" => chunked[k] = [i \in Ranges |-> ChunkAlone(i)]

(* A chunk that is to be run, or a task that waits for its chunks *)
IsChunk(job) == InChunks(job.task) /\ job.chunk \in Ranges
ChunkAt(job, at) == (at = "chunk" => IsChunk(job)) /\ (at = "wait" => InChunks(job.task))

Chunked ==
  /\ \A job \in queue : job.kind = "chunk" => IsChunk(job)
  /\ \A t \in Thread : \A i \in DOMAIN stack[t] : ChunkAt(stack[t][i].job, stack[t][i].at)
  /\ AsIfAlone

Inductive == TypeOK /\ JobsFit /\ OneInitializer /\ OneHolder /\ Chunked
===============================================================================
