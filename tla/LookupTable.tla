----------------------------- MODULE LookupTable -----------------------------
(***************************************************************************)
(* threadsafe_lookup_table of "Chapter 6 - Thread safe look up table with lock *)
(* - fine grained.cpp": a vector of buckets, each a list of pairs behind a        *)
(* shared_mutex of its own.  With one bucket, and without removals and get_map,    *)
(* it is the dns_cache of "Chapter 3 - Protect read write data with share lock     *)
(* (rare update data).cpp".                                                        *)
(*                                                                              *)
(* Slips that do not compile are read as what they stand for: the table's           *)
(* value_for returns add_or_update_mapping (...), which returns nothing (line 102:    *)
(* its bucket's value_for here), and get_map uses `.` for the unique_ptr's `->` and    *)
(* `mutex` for `m`.                                                                     *)
(***************************************************************************)
EXTENDS Integers, Sequences, SequencesExt

CONSTANTS Thread,      \* the calling threads
          Key, Value,
          NumBuckets,  \* num_buckets
          Hasher,      \* the hash of each key
          Default,     \* the default_value callers pass
          NoThread,    \* the owner of a mutex nobody holds exclusively
          NoKey,       \* the key of a call that has none
          NoValue      \* no value

\* What is assumed of the constants.
BucketsAndNones == /\ NumBuckets \in Nat \ {0} /\ Hasher \in [Key -> Nat]
                   /\ NoThread \notin Thread /\ NoValue \notin Value \cup {Default}

VARIABLES buckets,   \* the data of each bucket
          writer,    \* who holds the mutex m of each bucket exclusively
          readers,   \* who holds it shared
          call,      \* each thread's current function
          at,        \* where it is in it
          key, new,  \* its arguments
          found,     \* found_entry: the place in the list, 0 for end ()
          i,         \* get_map's loop variable
          res        \* the result of value_for or get_map, while it is built

mutexes == <<writer, readers>>
locals  == <<key, new, found, i, res>>
vars    == <<buckets, mutexes, call, at, locals>>

Bucket        == 0 .. NumBuckets - 1
get_bucket(k) == Hasher[k] % NumBuckets
EmptyMap      == [k \in Key |-> NoValue]
Goto(t, l)    == at' = [at EXCEPT ![t] = l]

Init == /\ buckets = [b \in Bucket |-> <<>>]
        /\ writer = [b \in Bucket |-> NoThread]
        /\ readers = [b \in Bucket |-> {}]
        /\ call = [t \in Thread |-> "none"]
        /\ at = [t \in Thread |-> "idle"]
        /\ key = [t \in Thread |-> NoKey]
        /\ new = [t \in Thread |-> NoValue]
        /\ found = [t \in Thread |-> 0]
        /\ i = [t \in Thread |-> 0]
        /\ res = [t \in Thread |-> NoValue]

-----------------------------------------------------------------------------
(* The shared_mutex. *)

Lock(t, b) == /\ writer[b] = NoThread /\ readers[b] = {}
              /\ writer' = [writer EXCEPT ![b] = t]
              /\ UNCHANGED readers

LockShared(t, b) == /\ writer[b] = NoThread
                    /\ readers' = [readers EXCEPT ![b] = @ \cup {t}]
                    /\ UNCHANGED writer

\* The guards go out of scope, and so do the local variables.
Return(t) ==
    /\ at[t] = "return"
    /\ Goto(t, "idle")
    /\ writer' = [b \in Bucket |-> IF writer[b] = t THEN NoThread ELSE writer[b]]
    /\ readers' = [b \in Bucket |-> readers[b] \ {t}]
    /\ call' = [call EXCEPT ![t] = "none"]
    /\ key' = [key EXCEPT ![t] = NoKey]
    /\ new' = [new EXCEPT ![t] = NoValue]
    /\ found' = [found EXCEPT ![t] = 0]
    /\ i' = [i EXCEPT ![t] = 0]
    /\ res' = [res EXCEPT ![t] = NoValue]
    /\ UNCHANGED buckets

-----------------------------------------------------------------------------
(* value_for, add_or_update_mapping and remove_mapping *)

Call(t, c, k, v) ==
    /\ at[t] = "idle"
    /\ Goto(t, "lock")
    /\ call' = [call EXCEPT ![t] = c]
    /\ key' = [key EXCEPT ![t] = k]
    /\ new' = [new EXCEPT ![t] = v]
    /\ UNCHANGED <<buckets, mutexes, found, i, res>>

\* shared_lock in value_for, scoped_lock in the others.  Mutant: add_or_update_mapping
\* only takes a shared_lock.
SharedWhenAdding(t) == call[t] # "remove_mapping"
Shared(t)           == call[t] = "value_for"

LockBucket(t) ==
    /\ at[t] = "lock"
    /\ call[t] # "get_map"
    /\ IF Shared(t) THEN LockShared(t, get_bucket(key[t])) ELSE Lock(t, get_bucket(key[t]))
    /\ Goto(t, "find")
    /\ UNCHANGED <<buckets, call, locals>>

\* std::find_if: the first item with the key.
Entry(s, k) == SelectInSeq(s, LAMBDA item : item[1] = k)

FindEntry(t) ==
    /\ at[t] = "find"
    /\ found' = [found EXCEPT ![t] = Entry(buckets[get_bucket(key[t])], key[t])]
    /\ Goto(t, call[t])
    /\ UNCHANGED <<buckets, mutexes, call, key, new, i, res>>

ValueFor(t) ==
    /\ at[t] = "value_for"
    /\ res' = [res EXCEPT ![t] = IF found[t] = 0 THEN Default
                                 ELSE buckets[get_bucket(key[t])][found[t]][2]]
    /\ Goto(t, "return")
    /\ UNCHANGED <<buckets, mutexes, call, key, new, found, i>>

AddOrUpdate(t) ==
    /\ at[t] = "add_or_update_mapping"
    /\ LET b == get_bucket(key[t])
       IN  buckets' = [buckets EXCEPT ![b] =
                          IF found[t] = 0 THEN Append(@, <<key[t], new[t]>>)
                                          ELSE [@ EXCEPT ![found[t]][2] = new[t]]]
    /\ Goto(t, "return")
    /\ UNCHANGED <<mutexes, call, locals>>

RemoveMapping(t) ==
    /\ at[t] = "remove_mapping"
    /\ buckets' = [buckets EXCEPT ![get_bucket(key[t])] =
                      IF found[t] = 0 THEN @ ELSE RemoveAt(@, found[t])]
    /\ Goto(t, "return")
    /\ UNCHANGED <<mutexes, call, locals>>

-----------------------------------------------------------------------------
(* get_map *)

\* The guard of the next bucket.  Mutant: the mutexes are forgotten.
Unguarded(t) ==
    /\ at[t] = "lock" /\ call[t] = "get_map"
    /\ res' = [res EXCEPT ![t] = EmptyMap]
    /\ Goto(t, "copy")
    /\ UNCHANGED <<buckets, mutexes, call, key, new, found, i>>

LockNextBucket(t) ==
    /\ at[t] = "lock" /\ call[t] = "get_map"
    /\ Lock(t, i[t])
    /\ IF i[t] + 1 < NumBuckets
         THEN i' = [i EXCEPT ![t] = @ + 1] /\ UNCHANGED <<at, res>>
         ELSE /\ i' = [i EXCEPT ![t] = 0]
              /\ res' = [res EXCEPT ![t] = EmptyMap]
              /\ Goto(t, "copy")
    /\ UNCHANGED <<buckets, call, key, new, found>>

\* res.insert of every entry of the next bucket: of two with the same key, the first.
CopyBucket(t) ==
    /\ at[t] = "copy"
    /\ LET entries == buckets[i[t]]
       IN  res' = [res EXCEPT ![t] =
                     [k \in Key |-> IF @[k] = NoValue /\ Entry(entries, k) # 0
                                      THEN entries[Entry(entries, k)][2] ELSE @[k]]]
    /\ IF i[t] + 1 < NumBuckets
         THEN i' = [i EXCEPT ![t] = @ + 1] /\ UNCHANGED at
         ELSE Goto(t, "return") /\ UNCHANGED i
    /\ UNCHANGED <<buckets, mutexes, call, key, new, found>>

-----------------------------------------------------------------------------
\* What any thread may call; of these, the first two are those of dns_cache:
\* find_entry and update_or_add_entry.
CacheCalls(t) == \E k \in Key : \/ Call(t, "value_for", k, NoValue)
                                \/ \E v \in Value : Call(t, "add_or_update_mapping", k, v)

TableCalls(t) == \/ CacheCalls(t)
                 \/ \E k \in Key : Call(t, "remove_mapping", k, NoValue)
                 \/ Call(t, "get_map", NoKey, NoValue)

Proceed(t) == \/ LockBucket(t) \/ FindEntry(t)
              \/ ValueFor(t) \/ AddOrUpdate(t) \/ RemoveMapping(t)
              \/ LockNextBucket(t) \/ CopyBucket(t) \/ Return(t)

Next == \E t \in Thread : TableCalls(t) \/ Proceed(t)

Spec == Init /\ [][Next]_vars

-----------------------------------------------------------------------------
(* Properties *)

\* find_entry_for, and the push_back after it, leave one entry to a key, in the bucket
\* of that key: a removal or an update then reaches all there is.
OneEntryPerKey ==
    \A b \in Bucket : /\ \A e \in Range(buckets[b]) : get_bucket(e[1]) = b
                      /\ \A m, n \in DOMAIN buckets[b] :
                            buckets[b][m][1] = buckets[b][n][1] => m = n

\* The map the buckets make up.
Contents == [k \in Key |-> LET s == buckets[get_bucket(k)]
                           IN  IF Entry(s, k) = 0 THEN NoValue ELSE s[Entry(s, k)][2]]

\* A look-up takes effect when it reads the value, get_map when it holds every mutex.
Answer(t) == IF at[t] = "copy" THEN Contents ELSE res[t]

Atomic == INSTANCE AtomicMap WITH map <- Contents, answer <- [t \in Thread |-> Answer(t)],
                                  Undecided <- NoValue

\* Every operation is atomic, and get_map a snapshot of the whole table although other
\* buckets change until it has locked them (line 113: "all data 'at this point' in the
\* whole table").
IsMap == Atomic!Spec
=============================================================================
