-------------------------- MODULE LookupTableProofs --------------------------
(***************************************************************************)
(* The look-up table has one entry to a key and is an atomic map, proved for  *)
(* any threads, keys, values, number of buckets and hash.                      *)
(***************************************************************************)
EXTENDS LookupTable, WellFoundedInduction, SequenceTheorems, TLAPS

-----------------------------------------------------------------------------
(* A bucket: what find_entry_for finds, and what the operations make of it. *)

Entries   == Seq(Key \X Value)
Unique(s) == \A m, n \in DOMAIN s : s[m][1] = s[n][1] => m = n

\* The value of k in a bucket.
ValueIn(s, k) == IF Entry(s, k) = 0 THEN NoValue ELSE s[Entry(s, k)][2]

LEMMA EntryFinds ==
  ASSUME NEW s \in Entries, NEW k
  PROVE  \/ Entry(s, k) = 0 /\ \A n \in 1 .. Len(s) : s[n][1] # k
         \/ Entry(s, k) \in 1 .. Len(s) /\ s[Entry(s, k)][1] = k
<1> DEFINE I == {n \in 1 .. Len(s) : s[n][1] = k}
<1>1. Entry(s, k) = IF I # {} THEN Min(I) ELSE 0
  BY DEF Entry, SelectInSeq
<1>2. CASE I = {}
  BY <1>1, <1>2
<1>3. CASE I # {}
  <2>1. I \subseteq Nat
    BY DEF Entries
  <2>2. PICK x \in I : \A y \in I : ~ (<<y, x>> \in OpToRel(<, Nat))
    BY <1>3, <2>1, NatLessThanWellFounded, WFMin
  <2>3. ASSUME NEW y \in I, y < x
        PROVE  FALSE
    <3>1. x \in Nat /\ y \in Nat
      BY <2>1
    <3>2. <<y, x>> \in OpToRel(<, Nat)
      BY <2>3, <3>1 DEF OpToRel
    <3> QED BY <2>2, <3>2
  <2>4. Min(I) \in I
    <3>1. \A y \in I : x =< y
      BY <2>1, <2>3
    <3> QED BY <3>1 DEF Min
  <2> QED BY <1>1, <1>3, <2>4
<1> QED BY <1>2, <1>3

LEMMA EntryIs ==
  ASSUME NEW s \in Entries, Unique(s), NEW n \in 1 .. Len(s), NEW k, s[n][1] = k
  PROVE  Entry(s, k) = n /\ ValueIn(s, k) = s[n][2]
<1>1. Entry(s, k) = n
  BY EntryFinds DEF Unique, Entries
<1> QED BY <1>1 DEF ValueIn

\* Two buckets with the same items of a key have the same value for it.
LEMMA SameItems ==
  ASSUME NEW s \in Entries, NEW r \in Entries, Unique(s), Unique(r), NEW k,
         \A n \in 1 .. Len(s) : s[n][1] = k => \E m \in 1 .. Len(r) : r[m] = s[n],
         \A n \in 1 .. Len(r) : r[n][1] = k => \E m \in 1 .. Len(s) : s[m] = r[n]
  PROVE  ValueIn(r, k) = ValueIn(s, k)
<1>1. CASE Entry(s, k) = 0
  <2>1. Entry(r, k) = 0
    BY <1>1, EntryFinds
  <2> QED BY <1>1, <2>1 DEF ValueIn
<1>2. CASE Entry(s, k) # 0
  <2>1. PICK m \in 1 .. Len(r) : r[m] = s[Entry(s, k)]
    BY <1>2, EntryFinds
  <2>2. r[m][1] = k
    BY <1>2, <2>1, EntryFinds
  <2> QED BY <1>2, <2>1, <2>2, EntryIs DEF ValueIn
<1> QED BY <1>1, <1>2

LEMMA Appended ==
  ASSUME NEW s \in Entries, Unique(s), NEW k \in Key, NEW v \in Value, Entry(s, k) = 0,
         NEW r \in Entries, Len(r) = Len(s) + 1, r[Len(r)] = <<k, v>>,
         \A n \in 1 .. Len(s) : r[n] = s[n]
  PROVE  /\ Unique(r)
         /\ \A n \in 1 .. Len(r) : r[n][1] = k \/ \E m \in 1 .. Len(s) : s[m] = r[n]
         /\ ValueIn(r, k) = v
         /\ \A k2 : k2 # k => ValueIn(r, k2) = ValueIn(s, k2)
<1>1. /\ r \in Entries /\ Len(r) = Len(s) + 1 /\ r[Len(r)] = <<k, v>>
      /\ \A n \in 1 .. Len(s) : r[n] = s[n]
  OBVIOUS
<1>2. \A n \in 1 .. Len(s) : s[n][1] # k
  BY EntryFinds
<1>3. DOMAIN r = 1 .. Len(r) /\ DOMAIN s = 1 .. Len(s) /\ Len(s) \in Nat
  BY <1>1 DEF Entries
<1>4. Unique(r)
  <2> SUFFICES ASSUME NEW m \in 1 .. Len(r), NEW n \in 1 .. Len(r), r[m][1] = r[n][1]
               PROVE  m = n
    BY <1>3 DEF Unique
  <2>1. CASE m \in 1 .. Len(s) /\ n \in 1 .. Len(s)
    BY <1>1, <1>3, <2>1 DEF Unique
  <2>2. CASE m = Len(r) \/ n = Len(r)
    <3>1. r[m][1] = k /\ r[n][1] = k
      BY <1>1, <2>2
    <3>2. \A n2 \in 1 .. Len(s) : r[n2][1] # k
      BY <1>1, <1>2
    <3> QED BY <1>1, <1>3, <3>1, <3>2
  <2> QED BY <1>1, <1>3, <2>1, <2>2
<1>5. \A n \in 1 .. Len(r) : n = Len(r) \/ n \in 1 .. Len(s)
  BY <1>1, <1>3
<1>6. \A n \in 1 .. Len(s) : n \in 1 .. Len(r)
  BY <1>1, <1>3
<1>7. ValueIn(r, k) = v
  <2>1. Len(r) \in 1 .. Len(r) /\ r[Len(r)][1] = k /\ r[Len(r)][2] = v
    BY <1>1, <1>3
  <2> QED BY <1>4, <2>1, EntryIs
<1>8. ASSUME NEW k2, k2 # k
      PROVE  ValueIn(r, k2) = ValueIn(s, k2)
  <2>1. \A n \in 1 .. Len(r) : r[n][1] = k2 => \E m \in 1 .. Len(s) : s[m] = r[n]
    BY <1>1, <1>5, <1>8
  <2>2. \A n \in 1 .. Len(s) : s[n][1] = k2 => \E m \in 1 .. Len(r) : r[m] = s[n]
    BY <1>1, <1>6
  <2> QED BY <1>1, <1>4, <2>1, <2>2, SameItems
<1> QED BY <1>1, <1>4, <1>5, <1>7, <1>8

LEMMA Updated ==
  ASSUME NEW s \in Entries, Unique(s), NEW k \in Key, NEW v \in Value,
         NEW e \in 1 .. Len(s), s[e][1] = k,
         NEW r \in Entries, Len(r) = Len(s), r[e] = <<k, v>>,
         \A n \in 1 .. Len(s) : n # e => r[n] = s[n]
  PROVE  /\ Unique(r)
         /\ \A n \in 1 .. Len(r) : r[n][1] = k \/ \E m \in 1 .. Len(s) : s[m] = r[n]
         /\ ValueIn(r, k) = v
         /\ \A k2 : k2 # k => ValueIn(r, k2) = ValueIn(s, k2)
<1>4. DOMAIN r = 1 .. Len(r) /\ DOMAIN s = 1 .. Len(s)
  BY DEF Entries
<1>5. \A n \in 1 .. Len(s) : r[n][1] = s[n][1]
  OBVIOUS
<1>6. Unique(r)
  BY <1>4, <1>5 DEF Unique
<1>7. ValueIn(r, k) = v
  <2>1. r[e][1] = k /\ r[e][2] = v
    OBVIOUS
  <2> QED BY <1>6, <2>1, EntryIs
<1>8. ASSUME NEW k2, k2 # k
      PROVE  ValueIn(r, k2) = ValueIn(s, k2)
  <2>1. \A n \in 1 .. Len(s) : s[n][1] = k2 \/ r[n][1] = k2 => r[n] = s[n]
    BY <1>5, <1>8
  <2> QED BY <1>6, <2>1, SameItems
<1> QED BY <1>5, <1>6, <1>7, <1>8

LEMMA RemovedItems ==
  ASSUME NEW s \in Entries, NEW e \in 1 .. Len(s)
  PROVE  /\ RemoveAt(s, e) \in Entries /\ Len(RemoveAt(s, e)) = Len(s) - 1
         /\ \A n \in 1 .. Len(s) - 1 : RemoveAt(s, e)[n] = IF n < e THEN s[n] ELSE s[n + 1]
<1> DEFINE a == SubSeq(s, 1, e - 1)
           b == SubSeq(s, e + 1, Len(s))
<1>0. Len(s) \in Nat
  BY DEF Entries
<1>1. /\ a \in Entries /\ Len(a) = e - 1
      /\ \A n \in 1 .. e - 1 : a[n] = s[n]
  BY <1>0, SubSeqProperties DEF Entries
<1>2. /\ b \in Entries /\ Len(b) = Len(s) - e
      /\ \A n \in 1 .. Len(s) - e : b[n] = s[e + n]
  BY <1>0, SubSeqProperties DEF Entries
<1>3. RemoveAt(s, e) = a \o b
  BY DEF RemoveAt
<1> HIDE DEF a, b
<1>4. /\ a \o b \in Entries /\ Len(a \o b) = Len(s) - 1
      /\ \A n \in 1 .. Len(s) - 1 :
            (a \o b)[n] = IF n <= e - 1 THEN a[n] ELSE b[n - (e - 1)]
  <2>1. Len(a) + Len(b) = Len(s) - 1
    BY <1>0, <1>1, <1>2
  <2>2. /\ a \o b \in Entries /\ Len(a \o b) = Len(a) + Len(b)
        /\ \A n \in 1 .. Len(a) + Len(b) :
              (a \o b)[n] = IF n <= Len(a) THEN a[n] ELSE b[n - Len(a)]
    BY <1>1, <1>2, ConcatProperties DEF Entries
  <2> QED BY <1>1, <2>1, <2>2
<1>5. ASSUME NEW n \in 1 .. Len(s) - 1
      PROVE  (a \o b)[n] = IF n < e THEN s[n] ELSE s[n + 1]
  <2>1. CASE n < e
    <3>1. n \in 1 .. e - 1 /\ n <= e - 1
      BY <1>0, <2>1
    <3> QED BY <1>1, <1>4, <2>1, <3>1
  <2>2. CASE ~ (n < e)
    <3>1. n - (e - 1) \in 1 .. Len(s) - e /\ e + (n - (e - 1)) = n + 1 /\ ~ (n <= e - 1)
      BY <1>0, <2>2
    <3> QED BY <1>2, <1>4, <2>2, <3>1
  <2> QED BY <2>1, <2>2
<1> QED BY <1>3, <1>4, <1>5

LEMMA Removed ==
  ASSUME NEW s \in Entries, Unique(s), NEW k \in Key, NEW e \in 1 .. Len(s), s[e][1] = k,
         NEW r \in Entries, Len(r) = Len(s) - 1,
         \A n \in 1 .. Len(r) : r[n] = IF n < e THEN s[n] ELSE s[n + 1]
  PROVE  /\ Unique(r)
         /\ \A n \in 1 .. Len(r) : \E m \in 1 .. Len(s) : s[m] = r[n]
         /\ ValueIn(r, k) = NoValue
         /\ \A k2 : k2 # k => ValueIn(r, k2) = ValueIn(s, k2)
<1>1. Len(s) \in Nat /\ DOMAIN s = 1 .. Len(s)
  BY DEF Entries
<1>2. /\ Len(r) \in Nat /\ DOMAIN r = 1 .. Len(r)
      /\ \A n \in 1 .. Len(r) : r[n] = IF n < e THEN s[n] ELSE s[n + 1]
  BY DEF Entries
<1>3. \A n \in 1 .. Len(r) : \E m \in 1 .. Len(s) : m # e /\ s[m] = r[n]
  <2> TAKE n \in 1 .. Len(r)
  <2>1. CASE n < e
    <3>1. n \in 1 .. Len(s) /\ n # e
      BY <1>1, <1>2, <2>1
    <3> QED BY <1>2, <2>1, <3>1
  <2>2. CASE ~ (n < e)
    <3>1. n + 1 \in 1 .. Len(s) /\ n + 1 # e
      BY <1>1, <1>2, <2>2
    <3> QED BY <1>2, <2>2, <3>1
  <2> QED BY <2>1, <2>2
<1>4. \A n \in 1 .. Len(s) : n # e => \E m \in 1 .. Len(r) : r[m] = s[n]
  <2> SUFFICES ASSUME NEW n \in 1 .. Len(s), n # e
               PROVE  \E m \in 1 .. Len(r) : r[m] = s[n]
    OBVIOUS
  <2>1. CASE n < e
    <3>1. n \in 1 .. Len(r)
      BY <1>1, <1>2, <2>1
    <3> QED BY <1>2, <2>1, <3>1
  <2>2. CASE n > e
    <3>1. n - 1 \in 1 .. Len(r) /\ ~ (n - 1 < e) /\ (n - 1) + 1 = n
      BY <1>1, <1>2, <2>2
    <3> QED BY <1>2, <3>1
  <2> QED BY <1>1, <2>1, <2>2
<1>5. Unique(r)
  <2> SUFFICES ASSUME NEW m \in 1 .. Len(r), NEW n \in 1 .. Len(r), r[m][1] = r[n][1]
               PROVE  m = n
    BY <1>2 DEF Unique
  <2> DEFINE from(x) == IF x < e THEN x ELSE x + 1
  <2>1. /\ from(m) \in 1 .. Len(s) /\ from(n) \in 1 .. Len(s)
        /\ r[m] = s[from(m)] /\ r[n] = s[from(n)]
    BY <1>1, <1>2
  <2>2. from(m) = from(n)
    <3>1. s[from(m)][1] = s[from(n)][1]
      BY <2>1
    <3> HIDE DEF from
    <3> QED BY <1>1, <2>1, <3>1 DEF Unique
  <2> QED BY <1>1, <1>2, <2>2
<1>6. \A n \in 1 .. Len(s) : n # e => s[n][1] # k
  BY <1>1 DEF Unique
<1>7. ValueIn(r, k) = NoValue
  <2>1. \A n \in 1 .. Len(r) : r[n][1] # k
    BY <1>3, <1>6
  <2> QED BY <1>2, <2>1, EntryFinds DEF ValueIn
<1>8. ASSUME NEW k2, k2 # k
      PROVE  ValueIn(r, k2) = ValueIn(s, k2)
  <2>1. \A n \in 1 .. Len(s) : s[n][1] = k2 => n # e
    BY <1>1, <1>8
  <2>2. \A n \in 1 .. Len(s) : s[n][1] = k2 => \E m \in 1 .. Len(r) : r[m] = s[n]
    BY <1>4, <2>1
  <2>3. \A n \in 1 .. Len(r) : r[n][1] = k2 => \E m \in 1 .. Len(s) : s[m] = r[n]
    BY <1>3
  <2> QED BY <1>5, <2>2, <2>3, SameItems
<1> QED BY <1>3, <1>5, <1>7, <1>8

-----------------------------------------------------------------------------
(* The strengthening.  What a thread has found, or copied, stays true for as long as *)
(* it holds the mutex it found it under.                                             *)

KeyCalls == {"value_for", "add_or_update_mapping", "remove_mapping"}
Places   == KeyCalls \cup {"idle", "lock", "find", "copy", "return"}
Answers  == {NoValue, Default} \cup Value \cup [Key -> Value \cup {NoValue}]

TypeOK == /\ buckets \in [Bucket -> Entries]
          /\ writer \in [Bucket -> Thread \cup {NoThread}]
          /\ readers \in [Bucket -> SUBSET Thread]
          /\ call \in [Thread -> KeyCalls \cup {"none", "get_map"}]
          /\ at \in [Thread -> Places]
          /\ key \in [Thread -> Key \cup {NoKey}]
          /\ new \in [Thread -> Value \cup {NoValue}]
          /\ found \in [Thread -> Nat]
          /\ i \in [Thread -> Bucket]
          /\ res \in [Thread -> Answers]

\* A mutex that is held exclusively is not held shared.
Exclusive == \A b \in Bucket : writer[b] # NoThread => readers[b] = {}

Holds(t, b) == IF Shared(t) THEN t \in readers[b] ELSE writer[b] = t

\* A thread in a call about one key.
KeyCallOK(t) ==
    /\ at[t] = "lock" /\ call[t] # "get_map" => call[t] \in KeyCalls /\ key[t] \in Key
    /\ at[t] \in KeyCalls \cup {"find"} =>
          call[t] \in KeyCalls /\ key[t] \in Key /\ Holds(t, get_bucket(key[t]))
    /\ at[t] \in KeyCalls =>
          call[t] = at[t] /\ found[t] = Entry(buckets[get_bucket(key[t])], key[t])
    /\ call[t] = "add_or_update_mapping" => new[t] \in Value

\* A thread in get_map has locked the buckets before i, or all, and copied those before i.
GetMapOK(t) ==
    /\ at[t] = "lock" /\ call[t] = "get_map" => \A b \in Bucket : b < i[t] => writer[b] = t
    /\ at[t] = "copy" =>
          /\ call[t] = "get_map"
          /\ \A b \in Bucket : writer[b] = t
          /\ res[t] = [k \in Key |-> IF get_bucket(k) < i[t] THEN Contents[k] ELSE NoValue]

\* A thread that has not decided has no result, and a new call starts at the first bucket.
UndecidedOK(t) == /\ at[t] \notin {"copy", "return"} => res[t] = NoValue
                  /\ at[t] = "idle" => i[t] = 0
                  /\ call[t] # "get_map" => i[t] = 0

ThreadOK(t) == KeyCallOK(t) /\ GetMapOK(t) /\ UndecidedOK(t)

IInv == TypeOK /\ Exclusive /\ OneEntryPerKey /\ \A t \in Thread : ThreadOK(t)

-----------------------------------------------------------------------------
(* Facts about the state *)

LEMMA BucketOfKey ==
  ASSUME BucketsAndNones, NEW k \in Key
  PROVE  get_bucket(k) \in Bucket
BY DEF BucketsAndNones, get_bucket, Bucket

LEMMA ContentsOf == Contents = [k \in Key |-> ValueIn(buckets[get_bucket(k)], k)]
BY DEF Contents, ValueIn

LEMMA BucketUnique ==
  ASSUME IInv, NEW b \in Bucket
  PROVE  buckets[b] \in Entries /\ Unique(buckets[b])
BY DEF IInv, TypeOK, OneEntryPerKey, Unique

\* Whoever changes a bucket holds it alone.
LEMMA Alone ==
  ASSUME BucketsAndNones, IInv, NEW t \in Thread, NEW u \in Thread, NEW b \in Bucket,
         writer[b] = t, Holds(u, b)
  PROVE  u = t
BY DEF IInv, Exclusive, Holds, BucketsAndNones

\* What holds of thread u is not disturbed by a step of t.
LEMMA OthersKeep ==
  ASSUME BucketsAndNones, IInv, NEW t \in Thread, NEW u \in Thread, u # t,
         /\ at'[u] = at[u] /\ call'[u] = call[u] /\ key'[u] = key[u] /\ new'[u] = new[u]
         /\ found'[u] = found[u] /\ i'[u] = i[u] /\ res'[u] = res[u],
         \A b \in Bucket : /\ writer[b] = u => writer'[b] = u
                           /\ u \in readers[b] => u \in readers'[b]
                           /\ buckets'[b] = buckets[b] \/ writer[b] = t
  PROVE  ThreadOK(u)'
<1>1. \A b \in Bucket : Holds(u, b) => Holds(u, b)' /\ buckets'[b] = buckets[b]
  BY Alone DEF Holds, Shared
<1>2. KeyCallOK(u)'
  <2>1. key[u] \in Key => get_bucket(key[u]) \in Bucket
    BY BucketOfKey
  <2> QED BY <1>1, <2>1 DEF IInv, ThreadOK, KeyCallOK, get_bucket
<1>3. GetMapOK(u)'
  <2>1. ASSUME at[u] = "copy"
        PROVE  Contents' = Contents
    <3>0. \A b \in Bucket : writer[b] = u
      BY <2>1 DEF IInv, ThreadOK, GetMapOK
    <3>1. \A b \in Bucket : buckets'[b] = buckets[b]
      BY <3>0
    <3> QED BY <3>1, BucketOfKey, ContentsOf DEF Contents, get_bucket
  <2>2. GetMapOK(u)
    BY DEF IInv, ThreadOK
  <2> QED BY <2>1, <2>2 DEF GetMapOK
<1>4. UndecidedOK(u)'
  BY DEF IInv, ThreadOK, UndecidedOK
<1> QED BY <1>2, <1>3, <1>4 DEF ThreadOK

-----------------------------------------------------------------------------
(* The invariant *)

LEMMA InitIInv == BucketsAndNones /\ Init => IInv
<1> SUFFICES ASSUME BucketsAndNones, Init PROVE IInv
  OBVIOUS
<1>1. 0 \in Bucket /\ <<>> \in Entries /\ DOMAIN <<>> = {}
  BY DEF Bucket, BucketsAndNones, Entries
<1>2. TypeOK
  BY <1>1 DEF Init, TypeOK, Places, KeyCalls, Answers
<1>3. OneEntryPerKey
  BY <1>1 DEF Init, OneEntryPerKey, Range
<1>4. Exclusive /\ \A t \in Thread : ThreadOK(t)
  BY DEF Init, Exclusive, ThreadOK, KeyCallOK, GetMapOK, UndecidedOK, KeyCalls
<1> QED BY <1>2, <1>3, <1>4 DEF IInv

\* The parts about the buckets hold as long as they do not change.
LEMMA BucketsKept ==
  ASSUME OneEntryPerKey, UNCHANGED buckets
  PROVE  OneEntryPerKey'
BY DEF OneEntryPerKey, Range, get_bucket

LEMMA CallKeeps ==
  ASSUME BucketsAndNones, IInv, NEW t \in Thread, TableCalls(t)
  PROVE  IInv'
<1>1. PICK c \in KeyCalls \cup {"get_map"}, k \in Key \cup {NoKey}, v \in Value \cup {NoValue} :
         /\ Call(t, c, k, v)
         /\ c \in KeyCalls => k \in Key
         /\ c = "add_or_update_mapping" => v \in Value
  BY DEF TableCalls, CacheCalls, KeyCalls
<1>2. TypeOK'
  BY <1>1 DEF IInv, TypeOK, Call, Goto, mutexes, Places
<1>3. Exclusive' /\ OneEntryPerKey'
  BY <1>1, BucketsKept DEF IInv, Exclusive, Call, mutexes
<1>4. ThreadOK(t)'
  <2>1. /\ at'[t] = "lock" /\ call'[t] = c /\ key'[t] = k /\ new'[t] = v
        /\ res'[t] = NoValue /\ i'[t] = 0
    BY <1>1 DEF IInv, TypeOK, Call, Goto, ThreadOK, UndecidedOK
  <2>2. \A b \in Bucket : ~ (b < 0)
    BY DEF Bucket, BucketsAndNones
  <2> QED BY <1>1, <2>1, <2>2 DEF ThreadOK, KeyCallOK, GetMapOK, UndecidedOK, KeyCalls
<1>5. ASSUME NEW u \in Thread, u # t PROVE ThreadOK(u)'
  BY <1>1, <1>5, OthersKeep DEF IInv, TypeOK, Call, Goto, mutexes
<1> QED BY <1>2, <1>3, <1>4, <1>5 DEF IInv

LEMMA LockKeeps ==
  ASSUME BucketsAndNones, IInv, NEW t \in Thread, LockBucket(t)
  PROVE  IInv'
<1> DEFINE b == get_bucket(key[t])
<1>1. /\ key[t] \in Key /\ call[t] \in KeyCalls /\ b \in Bucket /\ at[t] = "lock"
      /\ UNCHANGED <<buckets, call, key, new, found, i, res>>
      /\ at' = [at EXCEPT ![t] = "find"]
  BY BucketOfKey DEF IInv, ThreadOK, KeyCallOK, LockBucket, Goto, locals
<1>2. IF Shared(t)
      THEN writer[b] = NoThread /\ writer' = writer /\ readers' = [readers EXCEPT ![b] = @ \cup {t}]
      ELSE writer[b] = NoThread /\ readers[b] = {} /\ readers' = readers
              /\ writer' = [writer EXCEPT ![b] = t]
  BY DEF LockBucket, Lock, LockShared
<1>3. TypeOK'
  BY <1>1, <1>2 DEF IInv, TypeOK, Places
<1>4. Exclusive'
  BY <1>1, <1>2 DEF IInv, TypeOK, Exclusive
<1>5. ThreadOK(t)'
  <2>1. Holds(t, b)'
    BY <1>1, <1>2 DEF IInv, TypeOK, Holds, Shared
  <2> QED BY <1>1, <2>1 DEF IInv, TypeOK, ThreadOK, KeyCallOK, GetMapOK, UndecidedOK,
                            KeyCalls, Places, get_bucket
<1>6. ASSUME NEW u \in Thread, u # t PROVE ThreadOK(u)'
  <2>1. \A b2 \in Bucket : /\ writer[b2] = u => writer'[b2] = u
                           /\ u \in readers[b2] => u \in readers'[b2]
    BY <1>1, <1>2 DEF IInv, TypeOK, BucketsAndNones
  <2> QED BY <1>1, <1>6, <2>1, OthersKeep DEF IInv, TypeOK
<1> QED BY <1>1, <1>3, <1>4, <1>5, <1>6, BucketsKept DEF IInv

LEMMA FindKeeps ==
  ASSUME BucketsAndNones, IInv, NEW t \in Thread, FindEntry(t)
  PROVE  IInv'
<1> DEFINE b == get_bucket(key[t])
<1>1. /\ key[t] \in Key /\ call[t] \in KeyCalls /\ b \in Bucket /\ at[t] = "find"
      /\ Holds(t, b)
      /\ UNCHANGED <<buckets, writer, readers, call, key, new, i, res>>
      /\ at' = [at EXCEPT ![t] = call[t]]
      /\ found' = [found EXCEPT ![t] = Entry(buckets[b], key[t])]
  BY BucketOfKey DEF IInv, ThreadOK, KeyCallOK, FindEntry, Goto, mutexes
<1>2. Entry(buckets[b], key[t]) \in Nat
  <2>1. buckets[b] \in Entries /\ Len(buckets[b]) \in Nat
    BY <1>1, BucketUnique DEF Entries
  <2> QED BY <2>1, EntryFinds
<1>3. TypeOK'
  BY <1>1, <1>2 DEF IInv, TypeOK, Places, KeyCalls
<1>4. Exclusive'
  BY <1>1 DEF IInv, Exclusive
<1>5. ThreadOK(t)'
  <2>1. KeyCallOK(t)'
    BY <1>1 DEF IInv, TypeOK, ThreadOK, KeyCallOK, KeyCalls, Holds, Shared, get_bucket
  <2>2. GetMapOK(t)' /\ UndecidedOK(t)'
    BY <1>1 DEF IInv, TypeOK, ThreadOK, GetMapOK, UndecidedOK, KeyCalls
  <2> QED BY <2>1, <2>2 DEF ThreadOK
<1>6. ASSUME NEW u \in Thread, u # t PROVE ThreadOK(u)'
  BY <1>1, <1>6, OthersKeep DEF IInv, TypeOK
<1> QED BY <1>1, <1>3, <1>4, <1>5, <1>6, BucketsKept DEF IInv

LEMMA ValueForKeeps ==
  ASSUME BucketsAndNones, IInv, NEW t \in Thread, ValueFor(t)
  PROVE  /\ IInv'
         /\ res' = [res EXCEPT ![t] = IF Contents[key[t]] = NoValue THEN Default
                                                                    ELSE Contents[key[t]]]
<1> DEFINE b == get_bucket(key[t])
<1>1. /\ key[t] \in Key /\ b \in Bucket /\ at[t] = "value_for" /\ call[t] = "value_for"
      /\ UNCHANGED <<buckets, writer, readers, call, key, new, found, i>>
      /\ at' = [at EXCEPT ![t] = "return"] /\ i[t] = 0
      /\ res' = [res EXCEPT ![t] = IF Entry(buckets[b], key[t]) = 0 THEN Default
                                   ELSE buckets[b][Entry(buckets[b], key[t])][2]]
  BY BucketOfKey DEF IInv, ThreadOK, KeyCallOK, UndecidedOK, ValueFor, Goto, mutexes, KeyCalls
<1>2. Entry(buckets[b], key[t]) # 0 => buckets[b][Entry(buckets[b], key[t])][2] \in Value
  BY <1>1, BucketUnique, EntryFinds DEF Entries
<1>3. Contents[key[t]] = ValueIn(buckets[b], key[t])
  BY <1>1, ContentsOf
<1>4. res' = [res EXCEPT ![t] = IF Contents[key[t]] = NoValue THEN Default
                                                               ELSE Contents[key[t]]]
  BY <1>1, <1>2, <1>3 DEF ValueIn, BucketsAndNones
<1>5. TypeOK'
  <2>1. res' \in [Thread -> Answers]
    BY <1>1, <1>2 DEF IInv, TypeOK, Answers
  <2> QED BY <1>1, <2>1 DEF IInv, TypeOK, Places
<1>6. ThreadOK(t)'
  BY <1>1 DEF IInv, TypeOK, ThreadOK, KeyCallOK, GetMapOK, UndecidedOK, KeyCalls
<1>7. ASSUME NEW u \in Thread, u # t PROVE ThreadOK(u)'
  BY <1>1, <1>7, OthersKeep DEF IInv, TypeOK
<1> QED BY <1>1, <1>4, <1>5, <1>6, <1>7, BucketsKept DEF IInv, Exclusive

-----------------------------------------------------------------------------
(* A change of a bucket *)

\* The thread that holds a bucket changes it, so that k is mapped to v.
Changes(t, k, v) ==
    /\ k \in Key /\ writer[get_bucket(k)] = t
    /\ buckets' \in [Bucket -> Entries]
    /\ \A b \in Bucket : b # get_bucket(k) => buckets'[b] = buckets[b]
    /\ Unique(buckets'[get_bucket(k)])
    /\ \A n \in 1 .. Len(buckets'[get_bucket(k)]) :
          get_bucket(buckets'[get_bucket(k)][n][1]) = get_bucket(k)
    /\ Contents' = [Contents EXCEPT ![k] = v]

LEMMA ItemsInBucket ==
  ASSUME IInv, NEW b \in Bucket, NEW n \in 1 .. Len(buckets[b])
  PROVE  get_bucket(buckets[b][n][1]) = b
BY BucketUnique DEF IInv, OneEntryPerKey, Range, Entries

\* To show that a bucket changes so, it is enough to look at the bucket.
LEMMA BucketChanges ==
  ASSUME BucketsAndNones, IInv, NEW t \in Thread, NEW k \in Key, NEW v, NEW r \in Entries,
         writer[get_bucket(k)] = t,
         buckets' = [buckets EXCEPT ![get_bucket(k)] = r],
         Unique(r),
         \A n \in 1 .. Len(r) :
            r[n][1] = k \/ \E m \in 1 .. Len(buckets[get_bucket(k)]) :
                              buckets[get_bucket(k)][m] = r[n],
         ValueIn(r, k) = v,
         \A k2 : k2 # k => ValueIn(r, k2) = ValueIn(buckets[get_bucket(k)], k2)
  PROVE  Changes(t, k, v)
<1>1. get_bucket(k) \in Bucket
  BY BucketOfKey
<1>2. /\ buckets' \in [Bucket -> Entries]
      /\ buckets'[get_bucket(k)] = r
      /\ \A b \in Bucket : b # get_bucket(k) => buckets'[b] = buckets[b]
  BY <1>1 DEF IInv, TypeOK
<1>3. \A n \in 1 .. Len(r) : get_bucket(r[n][1]) = get_bucket(k)
  BY <1>1, ItemsInBucket
<1>4. Contents' = [Contents EXCEPT ![k] = v]
  <2>1. Contents' = [k2 \in Key |-> ValueIn(buckets'[get_bucket(k2)], k2)]
    BY DEF Contents, ValueIn, get_bucket
  <2>2. \A k2 \in Key : ValueIn(buckets'[get_bucket(k2)], k2)
                           = IF k2 = k THEN v ELSE ValueIn(buckets[get_bucket(k2)], k2)
    <3> TAKE k2 \in Key
    <3>1. get_bucket(k2) \in Bucket
      BY BucketOfKey
    <3>2. CASE k2 = k
      BY <1>2, <3>2
    <3>3. CASE k2 # k /\ get_bucket(k2) = get_bucket(k)
      BY <1>2, <3>3
    <3>4. CASE k2 # k /\ get_bucket(k2) # get_bucket(k)
      BY <1>2, <3>1, <3>4
    <3> QED BY <3>2, <3>3, <3>4
  <2> QED BY <2>1, <2>2, ContentsOf
<1> QED BY <1>2, <1>3, <1>4 DEF Changes

\* A change keeps the invariant.
LEMMA ChangeKeeps ==
  ASSUME BucketsAndNones, IInv, NEW t \in Thread, NEW v, Changes(t, key[t], v),
         call[t] # "get_map", at[t] # "copy",
         at' = [at EXCEPT ![t] = "return"],
         UNCHANGED <<writer, readers, call, key, new, found, i, res>>
  PROVE  IInv'
<1>1. TypeOK'
  BY DEF IInv, TypeOK, Changes, Places
<1>2. OneEntryPerKey'
  <2> SUFFICES ASSUME NEW b \in Bucket
               PROVE  /\ \A e \in Range(buckets'[b]) : get_bucket(e[1]) = b
                      /\ \A m, n \in DOMAIN buckets'[b] :
                            buckets'[b][m][1] = buckets'[b][n][1] => m = n
    BY DEF OneEntryPerKey, get_bucket
  <2>1. CASE b = get_bucket(key[t])
    <3>1. DOMAIN buckets'[b] = 1 .. Len(buckets'[b])
      BY DEF Changes, Entries
    <3> QED BY <2>1, <3>1 DEF Changes, Unique, Range
  <2>2. CASE b # get_bucket(key[t])
    BY <2>2 DEF Changes, IInv, OneEntryPerKey
  <2> QED BY <2>1, <2>2
<1>3. ThreadOK(t)'
  BY DEF IInv, TypeOK, ThreadOK, KeyCallOK, GetMapOK, UndecidedOK, KeyCalls
<1>4. ASSUME NEW u \in Thread, u # t PROVE ThreadOK(u)'
  <2>1. \A b \in Bucket : buckets'[b] = buckets[b] \/ writer[b] = t
    BY DEF Changes
  <2> QED BY <1>4, <2>1, OthersKeep DEF IInv, TypeOK
<1> QED BY <1>1, <1>2, <1>3, <1>4 DEF IInv, Exclusive

LEMMA AddChanges ==
  ASSUME BucketsAndNones, IInv, NEW t \in Thread, AddOrUpdate(t)
  PROVE  Changes(t, key[t], new[t]) /\ new[t] \in Value
<1> DEFINE b == get_bucket(key[t])
           s == buckets[b]
           e == Entry(s, key[t])
<1>1. /\ key[t] \in Key /\ b \in Bucket /\ at[t] = "add_or_update_mapping"
      /\ new[t] \in Value /\ writer[b] = t /\ found[t] = e
  BY BucketOfKey DEF IInv, ThreadOK, KeyCallOK, AddOrUpdate, KeyCalls, Holds, Shared
<1>2. s \in Entries /\ Unique(s)
  BY <1>1, BucketUnique
<1>3. CASE e = 0
  <2> DEFINE r == Append(s, <<key[t], new[t]>>)
  <2>1. buckets' = [buckets EXCEPT ![b] = r]
    BY <1>1, <1>3 DEF AddOrUpdate
  <2>2. /\ r \in Entries /\ Len(r) = Len(s) + 1 /\ r[Len(r)] = <<key[t], new[t]>>
        /\ \A n \in 1 .. Len(s) : r[n] = s[n]
    BY <1>1, <1>2 DEF Entries
  <2> HIDE DEF r, s, b
  <2>3. Entry(s, key[t]) = 0
    BY <1>3 DEF e
  <2>4. /\ Unique(r)
        /\ \A n \in 1 .. Len(r) : r[n][1] = key[t] \/ \E m \in 1 .. Len(s) : s[m] = r[n]
        /\ ValueIn(r, key[t]) = new[t]
        /\ \A k2 : k2 # key[t] => ValueIn(r, k2) = ValueIn(s, k2)
    BY <1>1, <1>2, <2>2, <2>3, Appended
  <2> QED BY <1>1, <2>1, <2>2, <2>4, BucketChanges DEF s, b
<1>4. CASE e # 0
  <2> DEFINE r == [s EXCEPT ![e] = <<key[t], new[t]>>]
  <2>1. e \in 1 .. Len(s) /\ s[e][1] = key[t] /\ s[e] \in Key \X Value
    BY <1>2, <1>4, EntryFinds DEF Entries
  <2>2. [s[e] EXCEPT ![2] = new[t]] = <<key[t], new[t]>>
    BY <2>1
  <2>3. buckets' = [buckets EXCEPT ![b] = r]
    BY <1>1, <1>4, <2>2 DEF AddOrUpdate
  <2>4. /\ r \in Entries /\ Len(r) = Len(s) /\ r[e] = <<key[t], new[t]>>
        /\ \A n \in 1 .. Len(s) : n # e => r[n] = s[n]
    BY <1>1, <1>2, <2>1 DEF Entries
  <2> HIDE DEF r, s, e, b
  <2>5. /\ Unique(r)
        /\ \A n \in 1 .. Len(r) : r[n][1] = key[t] \/ \E m \in 1 .. Len(s) : s[m] = r[n]
        /\ ValueIn(r, key[t]) = new[t]
        /\ \A k2 : k2 # key[t] => ValueIn(r, k2) = ValueIn(s, k2)
    <3>1. /\ s \in Entries /\ Unique(s) /\ key[t] \in Key /\ new[t] \in Value
          /\ e \in 1 .. Len(s) /\ s[e][1] = key[t]
          /\ r \in Entries /\ Len(r) = Len(s) /\ r[e] = <<key[t], new[t]>>
      BY <1>1, <1>2, <2>1, <2>4
    <3>2. \A n \in 1 .. Len(s) : n # e => r[n] = s[n]
      BY <2>4
    <3> HIDE <1>1, <1>2, <2>1, <2>4
    <3> QED BY <3>1, <3>2, Updated
  <2> QED BY <1>1, <2>3, <2>4, <2>5, BucketChanges DEF s, b
<1> QED BY <1>3, <1>4

LEMMA RemoveChanges ==
  ASSUME BucketsAndNones, IInv, NEW t \in Thread, RemoveMapping(t)
  PROVE  Changes(t, key[t], NoValue)
<1> DEFINE b == get_bucket(key[t])
           s == buckets[b]
           e == Entry(s, key[t])
<1>1. /\ key[t] \in Key /\ b \in Bucket /\ at[t] = "remove_mapping"
      /\ writer[b] = t /\ found[t] = e
  BY BucketOfKey DEF IInv, ThreadOK, KeyCallOK, RemoveMapping, KeyCalls, Holds, Shared
<1>2. s \in Entries /\ Unique(s)
  BY <1>1, BucketUnique
<1>3. CASE e = 0
  <2>1. buckets' = [buckets EXCEPT ![b] = s]
    BY <1>1, <1>3 DEF RemoveMapping
  <2>2. ValueIn(s, key[t]) = NoValue
    BY <1>3 DEF ValueIn
  <2>3. \A n \in 1 .. Len(s) : \E m \in 1 .. Len(s) : s[m] = s[n]
    OBVIOUS
  <2> HIDE DEF s, e, b
  <2> QED BY <1>1, <1>2, <2>1, <2>2, <2>3, BucketChanges DEF s, b
<1>4. CASE e # 0
  <2> DEFINE r == RemoveAt(s, e)
  <2>1. e \in 1 .. Len(s) /\ s[e][1] = key[t] /\ Len(s) \in Nat
    BY <1>2, <1>4, EntryFinds DEF Entries
  <2>2. buckets' = [buckets EXCEPT ![b] = r]
    BY <1>1, <1>4 DEF RemoveMapping
  <2>3. /\ r \in Entries /\ Len(r) = Len(s) - 1
        /\ \A n \in 1 .. Len(r) : r[n] = IF n < e THEN s[n] ELSE s[n + 1]
    BY <1>2, <2>1, RemovedItems
  <2> HIDE DEF r, s, e, b
  <2>4. /\ Unique(r)
        /\ \A n \in 1 .. Len(r) : \E m \in 1 .. Len(s) : s[m] = r[n]
        /\ ValueIn(r, key[t]) = NoValue
        /\ \A k2 : k2 # key[t] => ValueIn(r, k2) = ValueIn(s, k2)
    BY <1>1, <1>2, <2>1, <2>3, Removed
  <2> QED BY <1>1, <2>2, <2>3, <2>4, BucketChanges DEF s, b
<1> QED BY <1>3, <1>4

LEMMA AddKeeps ==
  ASSUME BucketsAndNones, IInv, NEW t \in Thread, AddOrUpdate(t)
  PROVE  IInv'
<1>1. Changes(t, key[t], new[t])
  BY AddChanges
<1> QED BY <1>1, ChangeKeeps
        DEF AddOrUpdate, Goto, mutexes, locals, IInv, ThreadOK, KeyCallOK, KeyCalls

LEMMA RemoveKeeps ==
  ASSUME BucketsAndNones, IInv, NEW t \in Thread, RemoveMapping(t)
  PROVE  IInv'
<1>1. Changes(t, key[t], NoValue)
  BY RemoveChanges
<1> QED BY <1>1, ChangeKeeps
        DEF RemoveMapping, Goto, mutexes, locals, IInv, ThreadOK, KeyCallOK, KeyCalls

-----------------------------------------------------------------------------
(* get_map, and the return of every call *)

LEMMA LockNextKeeps ==
  ASSUME BucketsAndNones, IInv, NEW t \in Thread, LockNextBucket(t)
  PROVE  IInv'
<1>1. /\ at[t] = "lock" /\ call[t] = "get_map" /\ i[t] \in Bucket
      /\ writer[i[t]] = NoThread /\ readers[i[t]] = {}
      /\ writer' = [writer EXCEPT ![i[t]] = t]
      /\ UNCHANGED <<buckets, readers, call, key, new, found>>
      /\ \A b \in Bucket : b < i[t] => writer[b] = t
  BY DEF IInv, TypeOK, ThreadOK, GetMapOK, LockNextBucket, Lock
<1>2. \/ /\ i[t] + 1 < NumBuckets /\ i' = [i EXCEPT ![t] = i[t] + 1]
         /\ UNCHANGED <<at, res>>
      \/ /\ ~ (i[t] + 1 < NumBuckets) /\ i' = [i EXCEPT ![t] = 0]
         /\ res' = [res EXCEPT ![t] = EmptyMap] /\ at' = [at EXCEPT ![t] = "copy"]
  BY DEF LockNextBucket, Goto
<1>3. \A b \in Bucket : b =< i[t] => writer'[b] = t
  BY <1>1 DEF IInv, TypeOK, Bucket, BucketsAndNones
<1>4. TypeOK'
  <2>1. i' \in [Thread -> Bucket]
    <3>1. 0 \in Bucket /\ (i[t] + 1 < NumBuckets => i[t] + 1 \in Bucket)
      BY <1>1 DEF Bucket, BucketsAndNones
    <3> QED BY <1>1, <1>2, <3>1 DEF IInv, TypeOK
  <2>2. EmptyMap \in Answers
    BY DEF EmptyMap, Answers
  <2> QED BY <1>1, <1>2, <2>1, <2>2 DEF IInv, TypeOK, Places
<1>5. Exclusive'
  BY <1>1 DEF IInv, TypeOK, Exclusive
<1>6. ThreadOK(t)'
  <2>1. KeyCallOK(t)' /\ UndecidedOK(t)'
    BY <1>1, <1>2 DEF IInv, TypeOK, ThreadOK, KeyCallOK, UndecidedOK, KeyCalls
  <2>2. GetMapOK(t)'
    <3>1. CASE UNCHANGED <<at, res>> /\ i' = [i EXCEPT ![t] = i[t] + 1]
      <4>1. \A b \in Bucket : b < i[t] + 1 => b =< i[t]
        BY <1>1 DEF Bucket, BucketsAndNones
      <4> QED BY <1>1, <1>3, <3>1, <4>1 DEF IInv, TypeOK, GetMapOK
    <3>2. CASE /\ ~ (i[t] + 1 < NumBuckets) /\ i' = [i EXCEPT ![t] = 0]
               /\ res' = [res EXCEPT ![t] = EmptyMap] /\ at' = [at EXCEPT ![t] = "copy"]
      <4>1. \A b \in Bucket : writer'[b] = t
        BY <1>1, <1>3, <3>2 DEF Bucket, BucketsAndNones
      <4>2. \A k \in Key : ~ (get_bucket(k) < 0)
        BY BucketOfKey DEF Bucket, BucketsAndNones
      <4>3. at'[t] = "copy" /\ i'[t] = 0 /\ res'[t] = [k \in Key |-> NoValue]
        BY <3>2 DEF IInv, TypeOK, EmptyMap
      <4>4. res'[t] = [k \in Key |-> IF get_bucket(k) < i'[t] THEN Contents'[k] ELSE NoValue]
        BY <4>2, <4>3
      <4> QED BY <1>1, <4>1, <4>3, <4>4 DEF GetMapOK, get_bucket
    <3> QED BY <1>2, <3>1, <3>2
  <2> QED BY <2>1, <2>2 DEF ThreadOK
<1>7. ASSUME NEW u \in Thread, u # t PROVE ThreadOK(u)'
  <2>1. \A b \in Bucket : writer[b] = u => writer'[b] = u
    BY <1>1 DEF IInv, TypeOK, BucketsAndNones
  <2> QED BY <1>1, <1>2, <1>7, <2>1, OthersKeep DEF IInv, TypeOK
<1> QED BY <1>1, <1>4, <1>5, <1>6, <1>7, BucketsKept DEF IInv

LEMMA ReturnKeeps ==
  ASSUME BucketsAndNones, IInv, NEW t \in Thread, Return(t)
  PROVE  IInv'
<1>1. TypeOK'
  <2>1. 0 \in Bucket
    BY DEF Bucket, BucketsAndNones
  <2> QED BY <2>1 DEF IInv, TypeOK, Return, Goto, Places, Answers
<1>2. Exclusive'
  BY DEF IInv, TypeOK, Exclusive, Return
<1>3. ThreadOK(t)'
  BY DEF IInv, TypeOK, Return, Goto, ThreadOK, KeyCallOK, GetMapOK, UndecidedOK, KeyCalls
<1>4. ASSUME NEW u \in Thread, u # t PROVE ThreadOK(u)'
  <2>1. \A b \in Bucket : /\ writer[b] = u => writer'[b] = u
                          /\ u \in readers[b] => u \in readers'[b]
    BY <1>4 DEF Return
  <2> QED BY <1>4, <2>1, OthersKeep DEF IInv, TypeOK, Return, Goto
<1> QED BY <1>1, <1>2, <1>3, <1>4, BucketsKept DEF IInv, Return

\* The next bucket is copied: when it was the last, the result is the whole table.
LEMMA CopyKeeps ==
  ASSUME BucketsAndNones, IInv, NEW t \in Thread, CopyBucket(t)
  PROVE  /\ IInv'
         /\ at'[t] = "return" => res'[t] = Contents
<1>1. /\ at[t] = "copy" /\ call[t] = "get_map" /\ i[t] \in Bucket
      /\ UNCHANGED <<buckets, writer, readers, call, key, new, found>>
      /\ \A b \in Bucket : writer[b] = t
      /\ res[t] = [k \in Key |-> IF get_bucket(k) < i[t] THEN Contents[k] ELSE NoValue]
      /\ res' = [res EXCEPT ![t] =
                     [k \in Key |-> IF res[t][k] = NoValue /\ Entry(buckets[i[t]], k) # 0
                                      THEN buckets[i[t]][Entry(buckets[i[t]], k)][2]
                                      ELSE res[t][k]]]
  BY DEF IInv, TypeOK, ThreadOK, GetMapOK, CopyBucket, mutexes
<1>2. \/ /\ i[t] + 1 < NumBuckets /\ i' = [i EXCEPT ![t] = i[t] + 1]
         /\ at' = at
      \/ /\ ~ (i[t] + 1 < NumBuckets) /\ i' = i /\ at' = [at EXCEPT ![t] = "return"]
  BY DEF CopyBucket, Goto
<1>3. \A k \in Key : res'[t][k] = IF get_bucket(k) < i[t] + 1 THEN Contents[k] ELSE NoValue
  <2> TAKE k \in Key
  <2> DEFINE s == buckets[i[t]]
  <2>1. res'[t][k] = IF res[t][k] = NoValue /\ Entry(s, k) # 0
                       THEN s[Entry(s, k)][2] ELSE res[t][k]
    BY <1>1 DEF IInv, TypeOK
  <2>2. res[t][k] = IF get_bucket(k) < i[t] THEN Contents[k] ELSE NoValue
    BY <1>1
  <2>3. get_bucket(k) \in Bucket /\ Contents[k] = ValueIn(buckets[get_bucket(k)], k)
    BY BucketOfKey, ContentsOf
  <2>4. get_bucket(k) # i[t] => Entry(s, k) = 0
    BY <1>1, BucketUnique, EntryFinds, ItemsInBucket
  <2>5. CASE get_bucket(k) = i[t]
    <3>1. ~ (get_bucket(k) < i[t]) /\ get_bucket(k) < i[t] + 1
      BY <1>1, <2>5 DEF Bucket, BucketsAndNones
    <3> QED BY <2>1, <2>2, <2>3, <2>5, <3>1 DEF ValueIn
  <2>6. CASE get_bucket(k) # i[t]
    <3>1. get_bucket(k) < i[t] <=> get_bucket(k) < i[t] + 1
      BY <1>1, <2>3, <2>6 DEF Bucket, BucketsAndNones
    <3> QED BY <2>1, <2>2, <2>4, <2>6, <3>1
  <2> QED BY <2>5, <2>6
<1>4. res'[t] = [k \in Key |-> IF get_bucket(k) < i[t] + 1 THEN Contents[k] ELSE NoValue]
  <2>1. DOMAIN res'[t] = Key /\ res'[t] = [k \in Key |-> res'[t][k]]
    BY <1>1 DEF IInv, TypeOK
  <2> QED BY <1>3, <2>1
<1>5. Contents \in [Key -> Value \cup {NoValue}] /\ Contents' = Contents
  <2>1. ASSUME NEW k \in Key
        PROVE  ValueIn(buckets[get_bucket(k)], k) \in Value \cup {NoValue}
    <3>1. buckets[get_bucket(k)] \in Entries
      BY BucketOfKey, BucketUnique
    <3> QED BY <3>1, EntryFinds DEF ValueIn, Entries
  <2>2. Contents' = Contents
    BY <1>1 DEF Contents, get_bucket
  <2> QED BY <2>1, <2>2, ContentsOf
<1>6. TypeOK'
  <2>1. res'[t] \in Answers
    BY <1>4, <1>5 DEF Answers
  <2>2. res' \in [Thread -> Answers]
    BY <1>1, <2>1 DEF IInv, TypeOK
  <2>3. i' \in [Thread -> Bucket]
    <3>1. i[t] + 1 < NumBuckets => i[t] + 1 \in Bucket
      BY <1>1 DEF Bucket, BucketsAndNones
    <3> QED BY <1>2, <3>1 DEF IInv, TypeOK
  <2> QED BY <1>1, <1>2, <2>2, <2>3 DEF IInv, TypeOK, Places
<1>7. ThreadOK(t)'
  <2>1. KeyCallOK(t)' /\ UndecidedOK(t)'
    BY <1>1, <1>2 DEF IInv, TypeOK, ThreadOK, KeyCallOK, UndecidedOK, KeyCalls
  <2>2. GetMapOK(t)'
    BY <1>1, <1>2, <1>4, <1>5 DEF IInv, TypeOK, GetMapOK, get_bucket
  <2> QED BY <2>1, <2>2 DEF ThreadOK
<1>8. ASSUME NEW u \in Thread, u # t PROVE ThreadOK(u)'
  BY <1>1, <1>2, <1>8, OthersKeep DEF IInv, TypeOK
<1>9. at'[t] = "return" => res'[t] = Contents
  <2>1. ASSUME ~ (i[t] + 1 < NumBuckets), NEW k \in Key
        PROVE  get_bucket(k) < i[t] + 1
    BY <1>1, <2>1, BucketOfKey DEF Bucket, BucketsAndNones
  <2>2. at'[t] = "return" => ~ (i[t] + 1 < NumBuckets)
    BY <1>1, <1>2
  <2> QED BY <1>4, <1>5, <2>1, <2>2
<1> QED BY <1>1, <1>6, <1>7, <1>8, <1>9, BucketsKept DEF IInv, Exclusive

-----------------------------------------------------------------------------
LEMMA NextKeeps == BucketsAndNones /\ IInv /\ [Next]_vars => IInv'
<1> SUFFICES ASSUME BucketsAndNones, IInv, [Next]_vars PROVE IInv'
  OBVIOUS
<1>1. CASE UNCHANGED vars
  <2>1. Contents' = Contents
    BY <1>1 DEF vars, Contents, get_bucket
  <2>2. \A t \in Thread : ThreadOK(t)'
    BY <1>1, <2>1 DEF vars, mutexes, locals, IInv, ThreadOK, KeyCallOK, GetMapOK, UndecidedOK,
                      Holds, Shared, get_bucket
  <2> QED BY <1>1, <2>2, BucketsKept DEF vars, mutexes, locals, IInv, TypeOK, Exclusive
<1>2. CASE Next
  <2>1. PICK t \in Thread : TableCalls(t) \/ Proceed(t)
    BY <1>2 DEF Next
  <2> QED BY <2>1, CallKeeps, LockKeeps, FindKeeps, ValueForKeeps, AddKeeps, RemoveKeeps,
             LockNextKeeps, CopyKeeps, ReturnKeeps DEF Proceed
<1> QED BY <1>1, <1>2

LEMMA Invariance ==
  ASSUME BucketsAndNones
  PROVE  Spec => []IInv
<1>1. Init => IInv
  BY InitIInv
<1>2. IInv /\ [Next]_vars => IInv'
  BY NextKeeps
<1> QED BY <1>1, <1>2, PTL DEF Spec

\* The search of find_entry_for and what is done with its result, two steps under the
\* mutex of the bucket, never leave two entries of a key, or one in another bucket.
THEOREM NeverTwoEntries ==
  ASSUME BucketsAndNones
  PROVE  Spec => []OneEntryPerKey
<1>1. IInv => OneEntryPerKey
  BY DEF IInv
<1> QED BY <1>1, Invariance, PTL

-----------------------------------------------------------------------------
(* The refinement: a look-up takes effect where it reads the value, an update or a *)
(* removal where it changes the bucket, get_map where it locks the last bucket.     *)

Answered == [t \in Thread |-> Answer(t)]

LEMMA AtomicVars == Atomic!vars = <<Contents, Answered>>
BY DEF Atomic!vars, Answered

LEMMA InitMaps == BucketsAndNones /\ Init => Atomic!Init
<1> SUFFICES ASSUME BucketsAndNones, Init PROVE Atomic!Init
  OBVIOUS
<1>1. ASSUME NEW k \in Key PROVE ValueIn(buckets[get_bucket(k)], k) = NoValue
  <2>1. buckets[get_bucket(k)] = <<>> /\ <<>> \in Entries /\ Len(<<>>) = 0
    BY BucketOfKey DEF Init, Entries
  <2>2. Entry(<<>>, k) = 0
    BY <2>1, EntryFinds
  <2> QED BY <2>1, <2>2 DEF ValueIn
<1>2. Contents = [k \in Key |-> NoValue]
  BY <1>1, ContentsOf
<1>3. Answered = [t \in Thread |-> NoValue]
  BY DEF Answered, Answer, Init
<1> QED BY <1>2, <1>3 DEF Atomic!Init, Answered

\* A step of t that decides nothing and changes no bucket.
LEMMA Stutters ==
  ASSUME IInv, NEW t \in Thread, UNCHANGED <<buckets, res>>,
         at[t] # "copy", at'[t] # "copy",
         \A u \in Thread : u # t => at'[u] = at[u]
  PROVE  UNCHANGED <<Contents, Answered>>
<1>1. Contents' = Contents
  BY DEF Contents, get_bucket
<1>2. \A u \in Thread : Answer(u)' = Answer(u)
  BY <1>1 DEF Answer
<1> QED BY <1>1, <1>2 DEF Answered

\* A step of t that decides its answer.
LEMMA Decides ==
  ASSUME IInv, NEW t \in Thread, NEW a, Contents' = Contents, Answer(t)' = a,
         \A u \in Thread : u # t => at'[u] = at[u] /\ res'[u] = res[u]
  PROVE  Answered' = [Answered EXCEPT ![t] = a]
BY DEF Answered, Answer

\* A step of t that changes a bucket.
LEMMA ChangeMaps ==
  ASSUME BucketsAndNones, IInv, NEW t \in Thread, NEW v \in Value \cup {NoValue},
         Changes(t, key[t], v), at[t] # "copy",
         at' = [at EXCEPT ![t] = "return"], UNCHANGED res
  PROVE  Atomic!Next
<1>1. ASSUME NEW u \in Thread PROVE at[u] # "copy"
  <2>1. writer[get_bucket(key[t])] = t /\ get_bucket(key[t]) \in Bucket
    BY BucketOfKey DEF Changes
  <2>2. at[u] = "copy" => writer[get_bucket(key[t])] = u
    BY <2>1 DEF IInv, ThreadOK, GetMapOK
  <2> QED BY <2>1, <2>2
<1>2. Answered' = Answered
  BY <1>1 DEF Answered, Answer, IInv, TypeOK
<1>3. Atomic!Map(key[t], v)
  BY <1>2 DEF Atomic!Map, Changes, Answered
<1> QED BY <1>3 DEF Atomic!Next, Changes

LEMMA NextMaps == BucketsAndNones /\ IInv /\ IInv' /\ [Next]_vars => [Atomic!Next]_(Atomic!vars)
<1> SUFFICES ASSUME BucketsAndNones, IInv, IInv', [Next]_vars
             PROVE  Atomic!Next \/ UNCHANGED <<Contents, Answered>>
  BY AtomicVars DEF Atomic!vars, Answered
<1>1. CASE UNCHANGED vars
  BY <1>1 DEF vars, locals, Contents, Answered, Answer, get_bucket
<1>2. ASSUME NEW t \in Thread, TableCalls(t)
      PROVE  UNCHANGED <<Contents, Answered>>
  <2>1. PICK c, k, v : Call(t, c, k, v)
    BY <1>2 DEF TableCalls, CacheCalls
  <2> QED BY <2>1, Stutters DEF Call, Goto, IInv, TypeOK
<1>3. ASSUME NEW t \in Thread, LockBucket(t)
      PROVE  UNCHANGED <<Contents, Answered>>
  BY <1>3, Stutters DEF LockBucket, Goto, locals, IInv, TypeOK
<1>4. ASSUME NEW t \in Thread, FindEntry(t)
      PROVE  UNCHANGED <<Contents, Answered>>
  <2>1. call[t] # "copy"
    BY DEF IInv, TypeOK, KeyCalls
  <2> QED BY <1>4, <2>1, Stutters DEF FindEntry, Goto, IInv, TypeOK
<1>5. ASSUME NEW t \in Thread, ValueFor(t)
      PROVE  Atomic!Next
  <2> DEFINE a == IF Contents[key[t]] = NoValue THEN Default ELSE Contents[key[t]]
  <2>1. /\ at[t] = "value_for" /\ key[t] \in Key /\ res[t] = NoValue
        /\ Contents' = Contents /\ at' = [at EXCEPT ![t] = "return"]
    BY <1>5 DEF ValueFor, Goto, mutexes, IInv, ThreadOK, KeyCallOK, UndecidedOK, KeyCalls,
                Contents, get_bucket
  <2>2. res' = [res EXCEPT ![t] = a]
    BY <1>5, ValueForKeeps
  <2> HIDE DEF a
  <2>3. Answered' = [Answered EXCEPT ![t] = a] /\ Answered[t] = NoValue
    BY <2>1, <2>2, Decides DEF IInv, TypeOK, Answer, Answered
  <2>4. Atomic!LookUp(t, key[t])
    BY <2>1, <2>3 DEF Atomic!LookUp, Atomic!Decide, Answered, a
  <2> QED BY <2>1, <2>4 DEF Atomic!Next
<1>6. ASSUME NEW t \in Thread, AddOrUpdate(t)
      PROVE  Atomic!Next
  BY <1>6, AddChanges, ChangeMaps DEF AddOrUpdate, Goto, locals
<1>7. ASSUME NEW t \in Thread, RemoveMapping(t)
      PROVE  Atomic!Next
  BY <1>7, RemoveChanges, ChangeMaps DEF RemoveMapping, Goto, locals
<1>8. ASSUME NEW t \in Thread, LockNextBucket(t)
      PROVE  Atomic!Next \/ UNCHANGED <<Contents, Answered>>
  <2>1. CASE i[t] + 1 < NumBuckets
    BY <1>8, <2>1, Stutters DEF LockNextBucket
  <2>2. CASE ~ (i[t] + 1 < NumBuckets)
    <3>1. /\ at[t] = "lock" /\ res[t] = NoValue /\ at' = [at EXCEPT ![t] = "copy"]
          /\ res' = [res EXCEPT ![t] = EmptyMap] /\ Contents' = Contents
      BY <1>8, <2>2 DEF LockNextBucket, Goto, IInv, ThreadOK, UndecidedOK, Contents, get_bucket
    <3>2. Answer(t)' = Contents /\ Answered[t] = NoValue
      BY <3>1 DEF IInv, TypeOK, Answer, Answered
    <3>3. Answered' = [Answered EXCEPT ![t] = Contents]
      BY <3>1, <3>2, Decides DEF IInv, TypeOK
    <3>4. Atomic!Snapshot(t)
      BY <3>1, <3>2, <3>3 DEF Atomic!Snapshot, Atomic!Decide, Answered
    <3> QED BY <3>4 DEF Atomic!Next
  <2> QED BY <2>1, <2>2
<1>9. ASSUME NEW t \in Thread, CopyBucket(t)
      PROVE  UNCHANGED <<Contents, Answered>>
  <2>1. /\ at[t] = "copy" /\ Contents' = Contents
        /\ at' = at \/ at' = [at EXCEPT ![t] = "return"]
        /\ \A u \in Thread : u # t => res'[u] = res[u]
    BY <1>9 DEF CopyBucket, Goto, Contents, get_bucket, IInv, TypeOK
  <2>2. at'[t] = "return" => res'[t] = Contents
    BY <1>9, CopyKeeps
  <2>3. \A u \in Thread : Answer(u)' = Answer(u)
    BY <2>1, <2>2 DEF Answer, IInv, TypeOK
  <2> QED BY <2>1, <2>3 DEF Answered
<1>10. ASSUME NEW t \in Thread, Return(t)
       PROVE  Atomic!Next
  <2>1. /\ Contents' = Contents /\ at' = [at EXCEPT ![t] = "idle"]
        /\ res' = [res EXCEPT ![t] = NoValue]
    BY <1>10 DEF Return, Goto, Contents, get_bucket
  <2>2. Answered' = [Answered EXCEPT ![t] = NoValue]
    BY <2>1, Decides DEF Answer, IInv, TypeOK
  <2>3. Atomic!Return(t)
    BY <2>1, <2>2 DEF Atomic!Return, Answered
  <2> QED BY <2>3 DEF Atomic!Next
<1>11. CASE Next
  BY <1>2, <1>3, <1>4, <1>5, <1>6, <1>7, <1>8, <1>9, <1>10, <1>11 DEF Next, Proceed
<1> QED BY <1>1, <1>11

\* Every look-up, update and removal takes effect at one instant, and get_map returns the
\* whole table as it was at one instant: when it had locked every bucket.
THEOREM TableIsAtomic ==
  ASSUME BucketsAndNones
  PROVE  Spec => IsMap
<1>1. Init => Atomic!Init
  BY InitMaps
<1>2. IInv /\ IInv' /\ [Next]_vars => [Atomic!Next]_(Atomic!vars)
  BY NextMaps
<1> QED BY <1>1, <1>2, Invariance, PTL DEF Spec, IsMap, Atomic!Spec
=============================================================================
