---------------------------- MODULE SmallPrograms ----------------------------
(***************************************************************************)
(* The small programs of chapters 3, 4 and 5, for CppThreads to run: a thread   *)
(* is the sequence of its accesses to what it shares, and a program the         *)
(* threads it starts, main last.  What main does before it starts them is in      *)
(* Starts.  true and false are 1 and 0, and so are a pointer that is set and       *)
(* nullptr.                                                                        *)
(***************************************************************************)
EXTENDS Integers, Sequences, TLC

\* The instructions.  `from` is the set of values the instruction waits for.
AnyValue == Int
Load(l, from, order) == [op |-> "load", loc |-> l, from |-> from, order |-> order]
Store(l, v, order)   == [op |-> "store", loc |-> l, value |-> v, order |-> order]
\* A read-modify-write that waits for a value in the domain of f, and applies f to it.
Modify(l, f, order)  == [op |-> "modify", loc |-> l, f |-> f, order |-> order]
Fence(order)         == [op |-> "fence", order |-> order]
\* Plain accesses; a dependent one follows the pointer the last load has read.
Get(l)               == [op |-> "get", loc |-> l, dependent |-> FALSE]
GetDependent(l)      == [op |-> "get", loc |-> l, dependent |-> TRUE]
Put(l, v)            == [op |-> "put", loc |-> l, value |-> v]
\* Mutexes: one, or several by std::lock.
Lock(ms)             == [op |-> "lock", locs |-> ms]
Unlock(m)            == Store(m, 0, "release")
\* if the value read last is in s, go on at instruction i.
Branch(s, i)         == [op |-> "branch", from |-> s, to |-> i]
Check(l, s)         == [op |-> "check", loc |-> l, from |-> s]
Join                 == [op |-> "join"]
\* An exception that nobody catches.
Throw                == [op |-> "throw"]

True == {1}
\* A member of a condition: `++z`, and the assert of main that z is not 0.
Increment(l)  == Modify(l, [v \in 0..1 |-> v + 1], "seq_cst")
NotZero(l)    == <<Join, Load(l, AnyValue, "seq_cst"), Check(l, {1, 2})>>
\* if (l.load (order)) ++z, as instructions i and after of its thread.
CountIf(test, i) == <<test, Branch({0}, i + 3), Increment("z")>>

-----------------------------------------------------------------------------
(* "Acquire Release imposed ordering on Relaxed Operations.cpp" *)

WriteXThenY == <<Store("x", 1, "relaxed"), Store("y", 1, "release")>>
ReadYThenX  == <<Load("y", True, "acquire")>> \o CountIf(Load("x", AnyValue, "relaxed"), 2)
AcquireRelease == <<WriteXThenY, ReadYThenX, NotZero("z")>>

WriteX      == <<Store("x", 1, "release")>>
WriteY      == <<Store("y", 1, "release")>>
ReadXThenY  == <<Load("x", True, "acquire")>> \o CountIf(Load("y", AnyValue, "acquire"), 2)
WrongRelationship == <<WriteX, WriteY, ReadXThenY, ReadYThenX, NotZero("z")>>

(* "Sequential consistency implies a total ordering ....cpp" *)

TotalWriteX     == <<Store("x", 1, "seq_cst")>>
TotalWriteY     == <<Store("y", 1, "seq_cst")>>
TotalReadXThenY == <<Load("x", True, "seq_cst")>> \o CountIf(Load("y", AnyValue, "seq_cst"), 2)
TotalReadYThenX == <<Load("y", True, "seq_cst")>> \o CountIf(Load("x", AnyValue, "seq_cst"), 2)
TotalOrder == <<TotalWriteX, TotalWriteY, TotalReadXThenY, TotalReadYThenX, NotZero("z")>>

(* "Uses Fence to impose order.cpp" *)

\* The file's own mutant: faulty_write_x_then_y, its fence before both stores.
FaultyFenceWriter == <<Fence("release"), Store("x", 1, "relaxed"), Store("y", 1, "relaxed")>>
FenceWriter       == <<Store("x", 1, "relaxed"), Fence("release"), Store("y", 1, "relaxed")>>
FenceReader       == <<Load("y", True, "acquire"), Fence("acquire")>>
                        \o CountIf(Load("x", AnyValue, "relaxed"), 3)
Fences == <<FenceWriter, FenceReader, NotZero("z")>>

(* "Enforcing ordering on non-atomic - Usage of atomic irl.cpp" *)

PlainWriter == <<Put("x", 1), Fence("release"), Store("y", 1, "relaxed")>>
PlainReader == <<Load("y", True, "relaxed"), Fence("acquire")>> \o CountIf(Get("x"), 3)
PlainFences == <<PlainWriter, PlainReader, NotZero("z")>>

(* "Acquire release allow transitive synchronization.cpp": arr[1], arr[3] and arr[4] *)
(* are as arr[0].                                                                    *)

Fill    == <<Store("arr0", 42, "relaxed"), Store("arr2", 71, "relaxed")>>
Compare == <<Load("arr0", AnyValue, "relaxed"), Check("arr0", {42}),
             Load("arr2", AnyValue, "relaxed"), Check("arr2", {91})>>
Relay   == <<Load("sync1", True, "acquire"), Store("sync2", 1, "release")>>
Transitive == <<Fill \o <<Store("sync1", 1, "release")>>, Relay,
                <<Load("sync2", True, "acquire")>> \o Compare>>
TransitiveRmw == <<Fill \o <<Store("sync", 1, "release")>>,
                   <<Modify("sync", (1 :> 2), "acq_rel")>>,
                   <<Load("sync", {2}, "acquire")>> \o Compare>>

(* "Memory Order Consume to synchronize data - Don't do it.cpp" *)

CreateX == <<Put("dump", 42), Store("val", 99, "relaxed"), Store("point", 1, "release")>>
UseX    == <<Load("point", True, "consume"), GetDependent("dump"), Check("dump", {42}),
             Load("val", AnyValue, "relaxed"), Check("val", {99})>>
Consume == <<CreateX, UseX, <<Join>> >>

(* "Reading value from a queue with atomic operation - Release Sequence.cpp", with *)
(* Items of its 20 items, of which the consumers' endless loops count down to Lowest. *)

Items  == 3
Lowest == -3
PopulateQueue == <<Put("queue_data", 1), Store("countNum", Items, "release")>>
FetchSub(l, order) == Modify(l, [v \in (Lowest + 1)..Items |-> v - 1], order)
ConsumeQueueItem == <<FetchSub("countNum", "acquire"), Branch(Lowest..0, 1),
                      Get("queue_data"), Check("queue_data", {1}), Branch(AnyValue, 1)>>
ReleaseSequence  == <<PopulateQueue, ConsumeQueueItem, ConsumeQueueItem, <<Join>> >>

(* "Reading and writting variables from different thread ....cpp" *)

DataReady == <<<<Load("data_ready", True, "seq_cst"), Get("dataVec"), Check("dataVec", {42})>>,
               <<Put("dataVec", 42), Store("data_ready", 1, "seq_cst")>> >>

(* "Using atomic_flag to create a spin lock.cpp": two threads that use it. *)

SpinLock   == Modify("flag", (0 :> 1), "acquire")
\* Mutant: unlock does not release.
ClearRelaxed == Store("flag", 0, "relaxed")
SpinUnlock   == Store("flag", 0, "release")
SpinUser   == <<SpinLock, Get("data"), Put("data", 1), SpinUnlock>>
SpinLocks  == <<SpinUser, SpinUser>>

-----------------------------------------------------------------------------
(* "Protect data during initialization - Lazy init.cpp": two threads, each of which *)
(* comes to use the resource.                                                        *)

Create == <<Put("resource", 1), Put("ptr", 1)>>
UseIt  == <<Get("ptr"), Check("ptr", {1}), Get("resource"), Check("resource", {1})>>

LazyFirst == <<Lock({"m"}), Get("ptr"), Branch({1}, 6)>> \o Create \o <<Unlock("m")>> \o UseIt

\* Mutant: it does not look again under the lock.
LockedOnce    == <<Get("ptr"), Branch({1}, 7), Lock({"m"})>>
                    \o Create \o <<Unlock("m")>> \o UseIt
DoubleLocking == <<Get("ptr"), Branch({1}, 9), Lock({"m"}), Get("ptr"), Branch({1}, 8)>>
                    \o Create \o <<Unlock("m")>> \o UseIt

\* call_once, and a static local: 1 while the first thread is at it, 2 from then on.
Once == <<Modify("flag", (0 :> 1) @@ (2 :> 2), "acquire"), Branch({2}, 6)>> \o Create
           \o <<Store("flag", 2, "release")>> \o UseIt
ThreadSafeLazy == <<Once, Once>>
SendAndReceive == <<Once, Once>>
StaticInstance == <<Once, Once>>

(* "guideline to prevent deadlocks.cpp" and "unique lock.cpp": swap (a, b) and swap (b, a). *)

\* Mutant: one after the other, the deadlock the comment shows.
OneByOne(l, r)    == <<Lock({l}), Lock({r})>>
LockBoth(l, r)    == <<Lock({l, r})>>
SwapData(l, r)    == LockBoth(l, r) \o <<Get("lhs"), Get("rhs"), Put("lhs", 1), Put("rhs", 1),
                                        Unlock(r), Unlock(l)>>
Swaps == <<SwapData("m1", "m2"), SwapData("m2", "m1")>>

(* "Transfer lock ownership using unique.cpp": getLock constructs the lock with     *)
(* defer_lock and nobody locks it, and so process_data has no lock.                 *)

GetLock     == <<>>
ProcessData == GetLock \o <<Get("data"), Put("data", 1)>>
Gateway     == <<ProcessData, ProcessData>>

(* "Don't pass locked reference or pointer outside the lock in any way.cpp": another *)
(* thread is in process_data.                                                        *)

Protected == <<Lock({"m"}), Get("data"), Put("data", 1), Unlock("m")>>
Escape    == <<Lock({"m"}), Put("unprotected", 1), Unlock("m"), Get("unprotected"), Put("data", 1)>>
Escapes   == <<Protected, Escape>>

(* "Locking at correct granularity.cpp" *)

GetAndProcess == <<Lock({"m"}), Get("file"), Unlock("m"), Lock({"m"}), Put("file", 1), Unlock("m")>>
Granularity   == <<GetAndProcess, GetAndProcess>>

-----------------------------------------------------------------------------
(* Chapter 4.  The shared state of a promise: 0 until it is ready, 1 with a value, 2  *)
(* with an exception; then every further set throws, in an instruction of its own.   *)

Ready == {1, 2}
Set(p, v)  == Modify(p, (0 :> v) @@ (1 :> 1) @@ (2 :> 2), "acq_rel")
Wait(p)    == Load(p, Ready, "acquire")
\* set_value and set_exception as instructions i and after.
SetOrThrow(p, v, i) == <<Set(p, v), Branch({0}, i + 3), Throw>>
\* get() in main, where nobody catches the exception it may throw.
GetResult(p, i)     == <<Wait(p), Branch({1}, i + 3), Throw>>

(* "Saving exception for future.cpp": square_root (-1) throws. *)

\* The promise of main: two times set_exception in the catch block.
MainPromise == << SetOrThrow("p", 2, 1) \o SetOrThrow("p", 2, 4) >>
\* A packaged_task passes the exception to the future.
PackagedTask == <<SetOrThrow("p", 2, 1), GetResult("p", 1) \o <<Join>> >>
\* sqrt_promise does not catch it, and so it leaves the thread.
SqrtPromise == << <<Throw>>, GetResult("p", 1) \o <<Join>> >>
Demonstrate == <<SetOrThrow("p", 1, 1), <<Wait("p"), Join>> >>

(* "Use Shared_future for wait() in many thread.cpp": p1 is set by its thread; the p *)
(* that two threads wait for has nobody who sets it.                                  *)

SingleFuture == << SetOrThrow("p1", 1, 1), <<Wait("p1")>> >>
SharedFuture == << <<Wait("p")>>, <<Wait("p")>>, <<Join>> >>

(* "Using future to return values from background task.cpp" *)

Answer == << <<Put("result", 42)>> \o SetOrThrow("p", 1, 2),
             GetResult("p", 1) \o <<Get("result"), Check("result", {42})>> >>

(* "Using packaged_task to wrap future and pass task between threads.cpp": one task is *)
(* posted; the loop of gui_thread takes at most two turns, and then only waits for the   *)
(* message that ends it.                                                               *)

PostTask == <<Lock({"m"}), Put("Tasks", 1), Unlock("m")>>
Turn(i)  == <<Load("shutdown", AnyValue, "acquire"), Branch({1}, 22),
              Get("Tasks"), Branch({0}, i + 10), Lock({"m"}), Get("Tasks"), Check("Tasks", {1}),
              Put("Tasks", 0), Unlock("m"), Set("p", 1)>>
GuiThread == Turn(1) \o Turn(11) \o <<Load("shutdown", {1}, "acquire")>>
\* gui_shutdown_msg_received, of which there is only the declaration.
GuiWindow == <<Store("shutdown", 1, "release")>>
GuiTasks  == <<GuiThread, PostTask, GuiWindow>>

-----------------------------------------------------------------------------
Programs ==
    [acquire_release |-> AcquireRelease, wrong_relationship |-> WrongRelationship,
     total_order |-> TotalOrder, fences |-> Fences, plain_fences |-> PlainFences,
     transitive |-> Transitive, transitive_rmw |-> TransitiveRmw, consume |-> Consume,
     release_sequence |-> ReleaseSequence, data_ready |-> DataReady, spin_lock |-> SpinLocks,
     lazy_first |-> <<LazyFirst, LazyFirst>>, double_locking |-> <<DoubleLocking, DoubleLocking>>,
     call_once |-> ThreadSafeLazy, connection |-> SendAndReceive, static_local |-> StaticInstance,
     swap |-> Swaps, gateway |-> Gateway, escape |-> Escapes, granularity |-> Granularity,
     main_promise |-> MainPromise, packaged_task |-> PackagedTask, sqrt_promise |-> SqrtPromise,
     demonstrate |-> Demonstrate, single_future |-> SingleFuture, shared_future |-> SharedFuture,
     answer |-> Answer, gui_tasks |-> GuiTasks]

\* The locations a program uses; all are 0 at first.
LocationsOf(i) == IF i.op \in {"load", "store", "modify", "get", "put"} THEN {i.loc}
                  ELSE IF i.op = "lock" THEN i.locs ELSE {}
Used(p)  == UNION {UNION {LocationsOf(thread[i]) : i \in DOMAIN thread} :
                   thread \in {Programs[p][t] : t \in DOMAIN Programs[p]}}
Starts   == [p \in DOMAIN Programs |-> [l \in Used(p) |-> 0]]

-----------------------------------------------------------------------------
(* What the files give up themselves, or do without saying so. *)

\* The asserts that may fail: "in this case this assert could fail" (wrong_relationship,
\* line 54), "The assert here may fire" (consume, line 33), "Interact on resources that
\* hasn't finished creating is bad" (double locking, line 35); and arr[2], which is
\* stored as 71 and compared with 91.
MayFail == [wrong_relationship |-> {"z"}, consume |-> {"val"},
            double_locking |-> {"resource"}, transitive |-> {"arr2"}, transitive_rmw |-> {"arr2"}]

\* Data races: the documented misuses (a test outside the lock, a pointer that leaves
\* it), the gateway, whose getLock does not lock, and gui_thread, which tests
\* Tasks.empty () outside the lock (line 18).
Unprotected == {"double_locking", "escape", "gateway", "gui_tasks"}

\* An exception ends the program.
Escaping == {"main_promise", "packaged_task", "sqrt_promise"}

\* Threads that do not end: the consumers of the release sequence never leave
\* `while (true)` (line 23), and main never joins them; two threads wait for the promise
\* of line 34 of the shared future, which nobody sets.
Endless == [release_sequence |-> {2, 3, 4}, shared_future |-> {1, 2, 3}]
=============================================================================
