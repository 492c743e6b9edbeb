# Models of the Concurrency-In-Action programs

The repository holds one program per topic of a study of concurrent C++: mutex-based and lock-free containers,
a lock hierarchy, parallel algorithms, and small programs on memory orders, lazy initialisation, locks and futures.
The programs do not call each other, so the system is a collection of components, each with its own shared state and
its own callers. What they have in common is what they promise: a queue is an atomic FIFO queue, a stack an atomic
LIFO stack, a table an atomic map, a lock excludes and does not deadlock, a parallel algorithm returns what the
sequential one does, an assert of a memory-order program holds. Three abstract modules, `FifoQueue`, `LifoStack` and
`AtomicMap`, state the first three; every container but the list is shown to implement one of them.

## Inventory

| Component (source) | State | Operations | What is hard | Module |
|---|---|---|---|---|
| Fine-grained locking queue, ch. 6 | list with a dummy node, `head_mutex`, `tail_mutex`, `cond` | push, 2 try_pop, 2 wait_and_pop, empty | two locks over one list; notify outside the waiters' lock; a move that throws | `FineGrainedQueue` |
| Stack with split reference counts, ch. 7 | counted `head`, nodes with `internal_count` | push, pop | ABA, last user deletes, counts given back in any order | `SplitCountStack` |
| The same with custom memory orders, ch. 7 | and what each thread, the head and the counts know | push, pop | relaxed loads; the winner's swap and the readers of `next` against the delete | `CustomOrderStack` |
| Look-up table with a lock per bucket, ch. 6; `dns_cache`, ch. 3 | buckets, a shared_mutex each | value_for, add_or_update_mapping, remove_mapping, get_map | search and change in two steps; a snapshot over many locks | `LookupTable` |
| Hierarchical mutex, ch. 3 | `internal_lock`, `prev_hiearchy_val`, a thread_local level | lock, try_lock, unlock | deadlock; restoring the level | `HierarchicalMutex` |
| Hazard pointers, ch. 7 | global slot array, `nodes_to_reclaim`, thread_local slot | pop, thread exit | publication against a scan, slot by slot; reclaim list taken and put back | `HazardPointerStack` |
| Reclamation by counting pops, ch. 7 | `threads_in_pop`, `to_be_deleted` | pop, try_reclaim | claim before the second test of the counter | `CountedReclaimStack` |
| Leaking stack, ch. 7 | `head` | push, pop | compare-exchange loops | steps of `StackNodes` |
| Monitor stacks, ch. 3 and 6 | `m`, a std::stack | push, 2 pop, empty | a value that throws between top() and pop() | `MonitorStack` |
| Queue with split reference counts, ch. 7 | counted `head` and `tail`, two counters in each node | push, pop | claiming the dummy node; two external counters | `SplitCountQueue` |
| Queue with helping, ch. 7 | the same | push, pop, set_new_tail | helpers finish a suspended push | `HelpingQueue` |
| List with a lock per node, ch. 6 | nodes with a mutex each | push_front, for_each, find_first_if, remove_if, destructor | hand-over-hand walks beside deletion | `ThreadsafeList` |
| Monitor queues, ch. 4 and 6; preparing and processing threads, ch. 4 | `m`, `data_queue`, `cond` | push, 4 pops, empty | lost notifications, exceptions after a wakeup | `MonitorQueue` |
| Parallel accumulate (3 versions), ch. 2 and 8 | blocks, threads, futures | one call | division into blocks; exceptions while threads run | `ParallelAccumulate` |
| Quick sort: pool of ch. 8, `std::async` and sequential of ch. 4 | stack of chunks, promises, `threads`, `end_of_data` | one call | waiting threads that help; the unprotected vector | `ParallelQuickSort` |
| Memory-order programs, ch. 5 | a few atomics and plain variables | the threads of each file | which write a load may return; release sequences, fences, transitivity | `SmallPrograms` |
| Lazy initialisation and locking guidelines, ch. 3 | a pointer and its resource; two mutexes; protected data | the threads of each file | a test outside the lock; lock order; a lock that is never taken | `SmallPrograms` |
| Promises, futures, packaged tasks, ch. 4 | a shared state, a task queue | the threads of each file | a promise set twice; exceptions that leave a thread | `SmallPrograms` |

`PROJECT.json` lists every file, the ones that are not modelled too.

## How the models are written

A step is what one thread does between two points where another thread can see it: one atomic operation, one access
to a shared node, or what is done under a mutex. `pc[t]` names the place in the code. A node is an address; deleting
it makes the address available to a later `new`, which is what makes ABA and use-after-free visible. History
variables (`chain`, `stack`, `queue`, `list`, `due`, `lost`) are read by no guard. Each module's comments name what it
leaves out. Lines that do not compile (`for (T const& fut : futures)`, `joiner (futures)`, `(*nextNode)->data`,
`++neo_counter`, `value_for` that returns `add_or_update_mapping`) are read as what they are evidently meant to be.

* `FineGrainedQueue`: `LockTail/Store/Advance/Notify` are push, `LockHead/Check*/Sleep/Unlink/Return` the pops;
  `SpuriousWake` and `MoveThrows` may happen at any time they can.
* `CustomOrderStack` adds to each step of `SplitCountStack` what that step's memory order passes on: the sets of
  accesses a thread, the head and a node's count carry. It changes no step.
* `LookupTable`: `Hasher` and `NumBuckets` are constants; `LockBucket/FindEntry` come before `ValueFor`,
  `AddOrUpdate` or `RemoveMapping`, under a shared or an exclusive lock; `LockNextBucket/CopyBucket` are get_map, which
  takes effect when it has the last lock. `CacheCalls` are the calls of `dns_cache`, which is a table of one bucket.
* `StackNodes` holds the memory and the push of the two reclaiming stacks, whose files have only pop(); it is the
  leaking stack's. `HazardPointerStack` and `CountedReclaimStack` extend it.
* `CountedQueueNodes` holds nodes, counts and pop() of the two lock-free queues; `SplitCountQueue` and `HelpingQueue`
  extend it with their push. The variable `cast` fixes at the start which threads push and which pop; nothing else
  of a call depends on it. The files give the queues no constructor: they start with one dummy node. node() leaves
  `data` uninitialised: a new node has any member of `FreshData`, which is null or something left over that no call
  has pushed. In `HelpingQueue`, `SetTailHelped` is line 52 as the file has it, an assignment whose value is true, so a
  push that finds tail moved goes on ("free again") to free the external counter, like the one that moved it.
* `ThreadsafeList`: `Call` takes the head's lock, `LockNext/Pass/Visit` go along the list, `Test/Unlink/UnlockTrash/
  DeleteTrash` remove. insert() does not compile, and is left out.
* `MonitorQueue`, `MonitorStack`, `ParallelAccumulate` and `ParallelQuickSort` have a variable or a set of calls,
  chosen in Init, for the programs that differ in a few lines.
* `CppThreads` is the C++ memory model as far as the small programs use it, and marked external in the map; a program
  is data for it: `SmallPrograms` gives, per thread of each file, the sequence of its atomic and plain accesses,
  locks, branches and asserts, 28 programs in all. Which write a load returns, and who races with whom, follows from
  the orders in the code.

**Memory.** `CustomOrderStack` and `CppThreads` keep happens-before, and show or refute data races. The other modules
are sequentially consistent: the files use the default order, or a mutex, or acquire/release pairs on every operation
that hands a node over; for them the absence of a formal data race is not shown.

**Composition.** Nothing is shared between two components, so composing them step by step would only multiply their
states. `MCStacks`, `MCCountedQueues`, `MCParallelAlgorithms`, `MCAlgorithmsAndPrograms` and `MCMutexes` instantiate
several components and choose in Init which one runs: where they promise the same a property says it of each of them
("are these atomic stacks?"), and otherwise the variables of the others stay as they are.

## What is checked

`MC*.tla` and `MC*.cfg` instantiate the modules. All runs of containers have three callers.

| Run | Shows | Bounds |
|---|---|---|
| `fine_grained_queue` | the list between the two locks stays intact, no pop takes the dummy, no push is lost even if a move throws, refinement of `FifoQueue`, no deadlock | 5 nodes, 2 values |
| `fine_grained_queue_lost_wakeup` (violation) | a wakeup is lost: see findings | 1 call a thread, no spurious wakeup |
| `custom_order_stack` | under the custom orders, and so under stronger ones: no use after free, no leak, nodes are visible to those who dereference them, the swap of a node's data comes before its delete, refinement of `LifoStack` | 2 nodes, external counts to 3 (`MaxCount`) |
| `custom_order_reads` (violation) | a read of `next` does not come before the delete: see findings | the same |
| `lookup_table` | a key never has two entries, refinement of `AtomicMap` with get_map as a snapshot, no deadlock | 3 keys in 2 buckets, two sharing one; a hash beyond the number of buckets |
| `mutexes_and_monitors` | hierarchical mutex: no deadlock, levels restored, unlocks in order, every lock() returns. Monitor queues: `FifoQueue`; nobody sleeps beside data unless a notified call has thrown | 3 mutexes, two of one level, 3 locks a thread (`MaxCalls`); 2 items in a queue (`MaxItems`), 2 values |
| `stacks` | hazard pointers, counting and mutex stacks: no node a pop may read is deleted; none is lost or deleted twice; all are `LifoStack` | 3 nodes; 3 slots of which one may be another stack's, so that a pop may find none free; 2 items under a mutex |
| `counted_queues` | both queues are `FifoQueue`, counts balance, no use after free, no leak; the dummy's data is a lock; helping leaves no trace. The queue with helping up to where it goes astray (`Astray`, below) | 4 nodes, `MaxCount` 4; one producer and consumers, or producers only; a new node's data null or left over |
| `helping_queue_frees_twice` (violation) | producers only, on the queue with helping: see findings | 4 nodes, one value |
| `split_count_queue_stale_push` (violation) | several producers beside consumers: see findings | 3 nodes, one value, new nodes' data null |
| `threadsafe_list` | overlapping walks are atomic in the order they lock head, no walk reaches a deleted node, every walk ends | 3 nodes, 2 values |
| `algorithms_and_programs` | sorts: the sorted permutation of the input. Accumulate: a returned sum is whole and in order for every division into blocks. Every call ends and leaves no thread; the joiner version survives every exception. Small programs: asserts hold, plain variables are not raced for, initialisation happens once, all threads end, in every execution of the memory model | 3 elements with every order and equality, 0 to 2 processors; up to 9 elements, 2 a thread (`PerThread`, 25 in the code), 0 to 4 processors, every set of throwing elements. The programs as written, but 3 items of the release sequence's 20; its consumers stop when they have counted down to -3 (`Lowest`), and the GUI thread takes two turns |

The exceptions that the properties of the small programs make are lists in `SmallPrograms` (`MayFail`, `Unprotected`,
`Escaping`, `Endless`), each entry with the line of the file that announces it or the reason below.

Symmetry is used for threads, nodes and values in the runs that check safety and refinement only. CHECK_DEADLOCK is
FALSE in the lock-free runs, which stop when the pool of addresses or `MaxCount` is used up, in `mutexes_and_monitors`
and the lost-wakeup run, whose threads stop after their last call, and in
`algorithms_and_programs`, whose programs end; there `CallsEnd` and `EveryThreadEnds` say who may stop, and where.
The others check deadlock.

### Why these bounds

The lock-free structures fail with two threads at one node and a third that deletes or reallocates it, which three
threads and two to four addresses allow; two values tell a repeated or swapped pop from a right one. The queue with
two mutexes has a dummy, a node in each thread's hands and one more, so that push and pop meet at every length from
zero to four. The table has two keys that compete for a bucket and one apart. The list needs a node before, a node
removed and a node after. The lock-free queues need a dummy, a successor, a helper's node and a deleted one. Two
elements to a thread give blocks of zero, one and two elements and a longer last one. Where a proof exists (below) no
bound matters for what it states.

### Fairness

Safety needs none. The hierarchical mutex and the lost-wakeup run assume that a thread that can go on with its call does
(weak fairness of each thread's own steps, which an operating system gives) with a bounded number of calls, since a
`std::mutex` promises no order among its waiters. `threadsafe_list` needs no bound: walks cannot overtake, so a walk
behind another is only ever delayed by those already in front of it. The monitor queues assume that a thread that wants
the mutex gets it in the end. `CallsEnd` assumes that every thread of an algorithm is given processor time.
`EveryThreadEnds` assumes only that some thread of a small program that can go on does, and that a store becomes visible
in the end: a loop that waits is one step, so the steps of a program are finitely many. New calls, spurious
wakeups and exceptions are never assumed to happen. Nothing is claimed to terminate in the lock-free structures: a
single call may retry for ever.

## Findings

* **Lost wakeup** (`fine_grained_queue_lost_wakeup`): push() notifies without ever holding `head_mutex`; it can fall
  between a waiter's test and its sleep, and the waiter sleeps beside data.
* **Stale push** (`split_count_queue_stale_push`): with several producers beside consumers a push can claim a node
  that has been popped since it read tail, because pop() sets the node's data back to null; the list is then cut.
* **Second release** (`helping_queue_frees_twice`): `if (old_tail.ptr = current_tail_ptr)` in set_new_tail (helping
  queue, line 52) assigns where the comments around it compare (lines 48 to 50), and is always true. A push whose
  exchange of tail failed because a helper moved it frees the old tail's external counter a second time, and never
  reaches the release_ref of line 56. With three producers and no consumer, two of them at the first dummy node: the
  one helps, moves tail and frees that node's counter, the other comes late and frees it again, and the node is deleted
  while head still leads to it. From there on nothing is left to check; `Astray` is true when a push is about to do
  this, and `counted_queues` and the theorems speak of the queue with helping until then.
* **Unordered read** (`custom_order_reads`): a pop that loses a node has read its `next` (line 58) and leaves by a
  relaxed fetch_add; the pop that deletes the node acquires nothing from that, so the read and the delete race.

Seen while modelling, and without a run of their own:

* The queue with helping has the stale push too.
* A pop of the empty `CountedReclaimStack` chains nullptr when another pop is running (line 44) and dereferences it in
  chain_pending_nodes: the model goes to `crashed` and stops. The stacks with hazard pointers keep a node that the
  last pop found hazardous for ever (line 153): `NoLeak` counts it as waiting for a pop.
* node() of the queues leaves `data` uninitialised before C++20 (the project is built as C++14 and 17). In the queue
  without help a dummy node whose data does not read as null is never claimed, and every push tries for ever; no safety
  property fails. In the queue with help every push takes such a dummy for claimed and helps a push there is not: tail
  then passes a node nobody has put a value in, which a pop would return. The model goes `Astray` where tail has come
  to such a node. Likewise the defaulted constructor of the stack with split reference counts (line 40) leaves `head`
  uninitialised; Init takes it to be null.
* The queues' counters have 30 and 2 bits (line 17); `MaxCount` keeps the model away from the first limit, and
  `TypeOK` shows the second is never passed, but by the second release above. A push suspended between its two
  exchanges (line 73) makes the others spin: the queue with helping exists because of that.
* parallel_accum of "choose num threads at run time.cpp" divides by zero for an empty range on known hardware, and an
  exception in its threads, or in the caller's block of the version with futures, ends the program.
* `sorter::threads` is read and grown by several threads without a lock, and a thread runs before push_back() has
  stored it: with one helper thread two threads can already meet there. The model stops (`raced`) at that point.
* In the monitor queues a call that throws after a notification leaves the others asleep beside the item (its comment
  says so); this is the exception `WaitersServed` makes. The catch block of try_pop() that would notify is never
  entered, since copying a shared_ptr does not throw.
* The copy constructors of the chapter 6 stack (line 19) and the chapter 4 queue lock the mutex of the object under
  construction instead of the other's.
* "Acquire release allow transitive synchronization.cpp" stores 71 in `arr[2]` (line 12) and asserts 91 (line 27).
* getLock of "Transfer lock ownership using unique.cpp" constructs its lock with `defer_lock` (line 21): nobody ever
  locks it, and process_data (line 27) races. gui_thread tests `Tasks.empty ()` before it locks (line 18).
* "Saving exception for future.cpp" sets an exception twice (line 36), which throws out of main, and sqrt_promise lets
  its exception escape, though comments (lines 28, 34, 51) have the future deliver it: both end the program, as does
  get() of the packaged task's exception in main, where nothing catches it.
  `EveryThreadEnds` takes that for the end of these three programs (`Escaping`), and does not object to it.
* Nobody sets the promise of line 34 in "Use Shared_future for wait() in many thread.cpp": func1 and func2 (lines 52,
  53) wait for ever. The consumers of the release sequence loop for ever (line 23), so main's joins (lines 40, 41) never
  return, and `countNum` would wrap around in the end. `EveryThreadEnds` excepts these threads (`Endless`).

## What is proved

For every value of the constants, TLAPS checks, in `*Proofs.tla`:

* `FineGrainedQueueProofs`: `TypeOK`, `ListIntact`, `PoppedHasData`, `NothingLost` and `IsFifo`, the refinement of
  `FifoQueue`. `ListIntact` is not inductive: the invariant adds who owns the nodes outside the list (`Ownership`), that
  each mutex is held exactly by the thread between its two steps (`Locked`), and what push and pop know at each place
  (`PushLocal`, `PopLocal`). `NothingLost` says of the history variable `chain`, the list as the pushes and pops there were
  should leave it, that it is what the pointers lead through; `ChainOK` adds that no node is in it twice. A push maps
  to the abstract one where tail moves, a pop where head moves (that the thread had no result before is `Undecideds`),
  and each of the other steps to a stutter. One lemma per action.
* `SplitCountStackProofs`: `TypeOK`, `NoUseAfterFree`, `CountsBalance`, `NoLeak`, the list invariant `ListIsStack`, and
  `IsLifo`, the refinement of `LifoStack`. `CountsBalance` speaks of linked nodes; the invariant adds the same equation
  for a node taken off but not yet settled (`TakenNodes`) and for one that is only being left (`LooseNodes`), so that
  a count that reaches zero is known to be the last user's. The threads are assumed finite (a count is a Cardinality).
  In the same module, for the stack with the custom memory orders: every behaviour of it is one of `SplitCountStack`
  (`Refines`), hence `NoUseAfterFree`, `NoLeak` and `IsLifo` hold of it; and `NodesAreVisible` and `SwapBeforeDelete`,
  whose invariant `OInv` says that the construction of a linked node is known to whoever has acquired head and released
  with it (`MadeKnown`), and that the winner's swap is released with the count until the last user takes it over
  (`SwapKnown`).
* `LookupTableProofs`: `OneEntryPerKey` and `IsMap`, the refinement of `AtomicMap`, for any number of buckets and any
  hash. The invariant adds that a bucket locked exclusively has no reader (`Exclusive`) and what each call knows under
  its lock (`ThreadOK`): the place of the entry it found, and, for get_map, that what it copied is what the buckets it
  has locked hold. Assumed of the constants: `BucketsAndNones`.
* `ThreadsafeListProofs`: `NoUseAfterFree`. A remover may delete a node because nobody else can reach it (`Private`); that
  follows since it holds the node and the one before (`Locked`), a node has only one before it (`OneBefore`), and a walk
  refers only to nodes it holds (`Locals`).
  In the same module, `WalksAreAtomic`. The list as of the last walk to lock head is the history variable `list`,
  kept as the function from a set S of values to the list without S (`Front`, `Without` are pointwise; `list[{}]` is
  the whole list). The invariant `WInv` gives every node such a list, what the next walk to come to it will
  meet behind it: that of its successor with the successor's value in front, less what a removal at the node is to
  remove. A step then changes it only at nodes the thread has locked, and no induction along the list is needed.
  Assumed of the constants: `PredicatesOfValues`.
* `StacksProofs`: all four properties of `MCStacks`, that is, of the stacks with hazard pointers, with a count of the
  pops and with a mutex. What both of the first need is `ListIsStack` (the history variable is the list from head) and
  that every node has one keeper: the stack, the list of nodes to delete, or one thread.
  With hazard pointers (`HInv`) the argument is `Protected`: the slot of a pop about to read a node names it since
  before head was last seen to be that node, so that whoever has popped it since is, in its scan, not yet past that
  slot and not yet at its delete. The slots are looked at one by one while others change them, and that is enough.
  With a count of the pops (`CInv`) it is `Spared`: a node that a pop may read is not among those that a thread will
  delete (`Doomed`). A pop's own node is doomed when it has found itself alone, when nobody else can be reading it; a
  list it has claimed only by the second look at the counter. What the lists are is said by `Path`, the nodes in every
  set closed under `next`, so that no induction is needed: the lemmas show how a path changes when a node is taken
  from its front, or a list is put before another. `Listed` says that no two nodes of one share their `next`, so a
  node deleted is not met again. That the thread is the only one counted is a fact about a Cardinality, and the
  threads are assumed finite (`ThreadsFinite`).
  `StacksAreLifo`: a push maps to the abstract one where head moves to its node, a pop where head moves on, a pop that
  finds nothing where it reads a null head; under a mutex, where the std::stack changes. `MCStacks` fixes
  the bound under a mutex at two items, so the theorem speaks of that; the proof nowhere uses it.
* `CountedQueueProofs`: the seven properties of `counted_queues`, of `BothSpec`: for both queues, the one with helping
  until it goes astray, any number of threads and addresses, any `MaxCount`, and whatever node() leaves in `data`. One
  hypothesis is named in each theorem, `CorrectUses`: nobody pops, or one thread pushes. The stale push shows what
  fails in the other uses, so it cannot be left out; the code does not provide for it, its callers have to. Of the queue
  with helping the theorems say that nothing else is wrong with it before the late push of line 52 or a left-over
  dummy: the state in which one of these is about to happen satisfies every property still.
  `CountsBalance` is not inductive: it speaks of the nodes in the list, and a node is left by pops that know nothing of
  each other. `Balanced` counts shares instead. A node has at most two: the pointer through which pops come to it (head
  or the next before it) and the one for pushes (tail). A share is the pointer itself or, after a compare-exchange has
  replaced it, the one thread that did and has yet to free its external counter (`Passed` says it is one). Of every
  allocated node that a tail has come to, `external` is the number of its shares, `internal` and what its shares have
  counted add up to the threads that use it, and not both are zero. So the step that makes both zero is the last
  user's, and it may delete the node. `FreshNodes` says the same of nodes tail has not come to: nobody can be there.
  `Pushes` gives what makes a push's steps safe: it is still at the dummy node, since the only pusher moves tail or
  no pop takes nodes away. The proof of each step shows which share or user it adds or takes (`BalanceKept` is the case
  of neither), and sums over sets of takers become values because a share has one taker.
  For `IsFifo` the invariant `AtHead` is added: a pop whose node is still in the list is at the node head leads to. A
  push maps to the abstract one where tail moves, whichever thread moves it, a pop where head moves on, and a pop that
  finds nothing where it compares its node with tail.
  Both invariants were checked by TLC on the instance of `counted_queues` before the proof.
* `MutexesProofs`: of the hierarchical mutex, `TypeOK`, `LocalIsLowest`, `NoDeadlock`, `UnlocksInOrder`. The
  strengthening is `Chain`: `prev` leads from each mutex held to the next higher one. Deadlock freedom follows by
  well-founded descent of the levels waited for. Of the monitor queues, `IsFifo` (`MonitorsAreFifo`), for any number of
  threads and any values: a push maps to the abstract one where data_queue grows, a pop or a look at an empty queue
  to where it reads data_queue, and a sleep, a wake-up and a throw to stutters; `QueueInv` says at which places of a
  call its result is still undecided.
* `ParallelAlgorithmsProofs`, accumulate: `SumIsWhole` and `EndsAlone`, for every length, number of processors and of
  elements to a thread, set of additions that throw and failing start of a thread. `AccInv` has two cases, no thread
  started (`Untouched`) or the range divided: the blocks follow each other evenly and a thread that has ended without
  throwing has the sum of its own (`Divided`), the last block is the caller's (`LastAdded`), what has been added up is a
  prefix of the range without a throwing element (`PartsAdded`, `AllAdded`), and whom the caller has joined by then
  (`Waited`). A sum is kept as the sequence of what went into it, so two blocks next to each other make one
  (`Adjacent`) and no induction is needed.
  Quick sort: `SortsInput`, for every finite set of elements, any keys, and any number of processors, in all three
  versions. `SortInv` describes the stacks of open calls.
  What is to be returned: the pivot, the data not partitioned yet, the result so far and the lower half of a call are
  together the elements of the chunk, or of the higher half, it was made for (`Linked`), all in order where they need to be
  (`FrameOK`). What is in one place only: an element still to be partitioned is in one open call or in one waiting
  chunk (`ApartCalls`, `ApartChunks`) and has never been a pivot (`Fresh`), so that giving its name to a chunk and
  replacing what `lower` holds for it disturbs nobody; a chunk waits, or is in one call, or is ready (`OnceChunks`,
  `OnceTaken`, `OnceCalls`). And what a ready future says: it holds its chunk in order, and the chunks of all elements in
  it are ready too (`Results`). So when the whole input is ready every chunk is, and none can be waiting or in a call.
  The steps are proved by what they do to a stack of calls, whichever thread's it is and whatever lies below: the call on
  top changes, calls, or returns (`StepKeeps`, `CallHigherKeeps`, `PartitionKeeps`, `TakeChunkKeeps`, `DeliverReady`,
  `DeliverHigher`). Both invariants were checked by TLC on the instance of the parallel algorithms before the proof.

The assumptions are the named ASSUMEs of the modules (the none-values are no threads, nodes or values; levels and
bounds are natural numbers, keys integers; the elements and threads of a sort are finite and the threads enough for
one to an element; where users are counted, the threads are finite, `ThreadsFinite`; what a new node may hold is no pushed
value, `FreshIsNoValue`), which every run evaluates, and in `CountedQueueProofs` the hypothesis above. Only model-checked: the small programs (`AssertionsHold`, `RaceFree`,
`OnceOnly`: each is a fixed program of a few threads, and the run visits all of its states), and all liveness
(`LocksReturn`, `WalksEnd`, `WaitersServed`, `CallsEnd`, `EveryThreadEnds`: fairness and ENABLED are out of the
prover's reach).

## Not modelled

* The stack over an atomic shared_ptr does not compile, and the loop of its pop lacks the negation before its
  compare_exchange (line 35): what it would do is left to guess. The linked list of chapter 3 is unfinished, and the
  list of chapter 6 supersedes it; insert() of the latter does not compile.
* The files that call single functions of the atomics library, the thread basics, the granularity comparison and
  "Using mutex in c++.cpp": one thread, or one critical section, with nothing to go wrong between two steps.
* process_connection (chapter 4) is a loop of one thread over undeclared queues. Copy constructors, destructors that
  run when nobody uses the object, and a comparison that throws in the parallel sort are left out.
* Running out of threads: the pool of the sort starts one for every call when the number of processors is unknown, and
  the model has enough for its elements (`EnoughHelpers`).
* A signed external count overflows after 2^31 pops of an empty stack with split reference counts (line 34), and the
  crash and race states named above end a model where the code's behaviour is undefined.
