-------------------------------- MODULE KHash -------------------------------
(***************************************************************************)
(* The hash table of khash.h, as evloop.epoll.c instantiates it to find    *)
(* the struct of a descriptor.  The hash of a key is the key.  The calls   *)
(* are not interrupted; here kh_put is a step up to its resizing, a step   *)
(* for each bucket that kh_resize takes or writes, and a step to insert.   *)
(*                                                                         *)
(* The allocations do not fail: evloop.epoll.c has xmalloc end the program *)
(* instead.  The contents of a bucket that is not in use are never read    *)
(* before they are written, and are kept at Blank.                         *)
(***************************************************************************)
EXTENDS Integers, FiniteSetsExt

CONSTANTS
  Keys,       \* descriptor numbers
  Values,     \* the pointers stored for them
  NONE,       \* no key, no value
  Sizes,      \* the sizes of tables: 4 and its doubles
  MaxBuckets  \* bound on the size of the table

ASSUME KHashAssumption ==
  /\ Keys \subseteq Nat
  /\ NONE \notin Keys /\ NONE \notin Values
  /\ Sizes \subseteq Nat
  /\ MaxBuckets \in Sizes
  /\ \A m \in Sizes : m = 4 \/ (m > 4 /\ \E l \in Sizes : m = 2 * l)
  /\ 4 \in Sizes
  /\ \A m \in Sizes : m <= MaxBuckets => 2 * m \in Sizes

VARIABLES
  n_buckets, size, n_occupied, upper_bound,  \* the fields of kh_evloop_poll_t
  flags,      \* h->flags: each bucket is "empty", "del" (deleted) or "used"
  bucket,     \* h->keys and h->vals
  new_flags,  \* kh_resize: the flags of the new table, in the same arrays
  hand,       \* kh_resize: the key and val that have no bucket
  pending,    \* what the call of kh_put is to insert
  phase       \* "idle", kh_put in kh_resize or about to "insert"; "destroyed"

counts == <<n_buckets, size, n_occupied, upper_bound>>
vars == <<counts, flags, bucket, new_flags, hand, pending, phase>>

Buckets == 0..(MaxBuckets - 1)
Entry == [key : Keys, val : Values]
Blank == [key |-> NONE, val |-> NONE]
AllEmpty == [i \in Buckets |-> "empty"]

-----------------------------------------------------------------------------
\* kroundup32, and the least size.
RoundUp(x) == Min({m \in Sizes : m >= x})

\* (khint_t)(m * __ac_HASH_UPPER + 0.5)
UpperBound(m) == (77 * m + 50) \div 100

\* Fault: the steps are squared rather than added up.
ProbeSquares(k, s, m) == (k + s * s) % m

\* The bucket that a search for k in m buckets looks at after s steps, each
\* one longer than the one before.
Probe(k, s, m) == (k + (s * (s + 1)) \div 2) % m

\* The steps after which a search for k stops: at an empty bucket, or at k's.
Stops(k) ==
  {s \in 0..(n_buckets - 1) :
     LET i == Probe(k, s, n_buckets) IN
     flags[i] = "empty" \/ (flags[i] = "used" /\ bucket[i].key = k)}

\* kh_get: the bucket of k, or n_buckets.
kh_get(k) ==
  IF Stops(k) = {}
    THEN n_buckets
    ELSE LET i == Probe(k, Min(Stops(k)), n_buckets) IN
         IF flags[i] = "used" THEN i ELSE n_buckets

\* Fault: the first deleted bucket is taken, without a search for k behind it.
SiteEarly(k) ==
  Probe(k, Min({s \in 0..(n_buckets - 1) :
                 flags[Probe(k, s, n_buckets)] = "del" \/ s \in Stops(k)}), n_buckets)

\* The bucket that kh_put finds for k: k's own, or else the last deleted one
\* before the search stops, or else the empty one that stopped it.
Site(k) ==
  LET stop == IF Stops(k) = {} THEN n_buckets ELSE Min(Stops(k))
      dels == {s \in 0..(stop - 1) : flags[Probe(k, s, n_buckets)] = "del"}
      end  == Probe(k, stop, n_buckets)
  IN IF dels # {} /\ (stop = n_buckets \/ flags[end] = "empty")
       THEN Probe(k, Max(dels), n_buckets)
       ELSE end

-----------------------------------------------------------------------------
\* kh_init
Init ==
  /\ n_buckets = 0 /\ size = 0 /\ n_occupied = 0 /\ upper_bound = 0
  /\ flags = AllEmpty
  /\ bucket = [i \in Buckets |-> Blank]
  /\ new_flags = AllEmpty
  /\ hand = Blank
  /\ pending = Blank
  /\ phase = "idle"

\* The size kh_put has kh_resize make the table: the same, to be rid of the
\* deleted buckets, if less than half are in use, or else twice as many.
NewBuckets ==
  RoundUp(IF n_buckets > 2 * size THEN n_buckets - 1 ELSE n_buckets + 1)

\* kh_put up to the loop of kh_resize, if it gets there.
Put(k, val) ==
  /\ phase = "idle"
  /\ pending' = [key |-> k, val |-> val]
  /\ IF n_occupied >= upper_bound /\ size < UpperBound(NewBuckets)
       THEN NewBuckets <= MaxBuckets /\ phase' = "resize"
       ELSE phase' = "insert"
  /\ UNCHANGED <<counts, flags, bucket, new_flags, hand>>

\* The buckets of the old table that kh_resize has not yet come to: as all
\* before its index j are deleted, it goes on with the first of them.
Old == {i \in Buckets : flags[i] = "used"}

TakeOut ==
  /\ phase = "resize"
  /\ hand = Blank /\ Old # {}
  /\ LET j == Min(Old) IN
       /\ hand' = bucket[j]
       /\ bucket' = [bucket EXCEPT ![j] = Blank]
       /\ flags' = [flags EXCEPT ![j] = "del"]
  /\ UNCHANGED <<counts, new_flags, pending, phase>>

\* Fault: the keys are swapped, the values are not.
SwapKeys(i) ==
  hand' = IF i \in Old THEN [bucket[i] EXCEPT !.val = hand.val] ELSE Blank

\* Fault: the loop goes on with an entry that has found a free bucket.
SwapWithoutBreak(i) == hand' = IF i \in Old THEN bucket[i] ELSE hand

\* An entry of the old table in bucket i is the next to find a bucket.
Swap(i) == hand' = IF i \in Old THEN bucket[i] ELSE Blank

\* An iteration of the kick-out loop: the entry in hand goes to the first
\* bucket that the new table has not filled.
KickOut ==
  /\ phase = "resize"
  /\ hand # Blank
  /\ \E i \in Buckets :
       /\ \E s \in 0..(NewBuckets - 1) :
            /\ i = Probe(hand.key, s, NewBuckets)
            /\ new_flags[i] = "empty"
            /\ \A t \in 0..(s - 1) :
                 new_flags[Probe(hand.key, t, NewBuckets)] # "empty"
       /\ new_flags' = [new_flags EXCEPT ![i] = "used"]
       /\ bucket' = [bucket EXCEPT ![i] = hand]
       /\ flags' = IF i \in Old THEN [flags EXCEPT ![i] = "del"] ELSE flags
       /\ Swap(i)
  /\ UNCHANGED <<counts, pending, phase>>

\* The end of kh_resize.
Resized ==
  /\ phase = "resize"
  /\ hand = Blank /\ Old = {}
  /\ flags' = new_flags
  /\ new_flags' = AllEmpty
  /\ n_buckets' = NewBuckets
  /\ n_occupied' = size
  /\ upper_bound' = UpperBound(NewBuckets)
  /\ phase' = "insert"
  /\ UNCHANGED <<size, bucket, hand, pending>>

\* Fault: a deleted bucket is counted as occupied a second time.
FillTwice(x) == n_occupied' = n_occupied + 1

\* A deleted bucket was occupied already.
Fill(x) == n_occupied' = IF flags[x] = "empty" THEN n_occupied + 1 ELSE n_occupied

\* The rest of kh_put.  ev_watch stores the value when the key is new.
Insert ==
  LET x == Site(pending.key) IN
  /\ phase = "insert"
  /\ IF flags[x] = "used"
       THEN UNCHANGED <<size, n_occupied, flags, bucket>>
       ELSE /\ bucket' = [bucket EXCEPT ![x] = pending]
            /\ flags' = [flags EXCEPT ![x] = "used"]
            /\ size' = size + 1
            /\ Fill(x)
  /\ pending' = Blank
  /\ phase' = "idle"
  /\ UNCHANGED <<n_buckets, upper_bound, new_flags, hand>>

\* Fault: the bucket is free again, and ends the searches that went past it.
EraseToEmpty(x) == flags' = [flags EXCEPT ![x] = "empty"]

Erase(x) == flags' = [flags EXCEPT ![x] = "del"]

\* kh_get and kh_del, as ev_close calls them.
Remove(k) ==
  LET x == kh_get(k) IN
  /\ phase = "idle"
  /\ x # n_buckets
  /\ Erase(x)
  /\ bucket' = [bucket EXCEPT ![x] = Blank]
  /\ size' = size - 1
  /\ UNCHANGED <<n_buckets, n_occupied, upper_bound, new_flags, hand, pending, phase>>

\* kh_destroy
Destroy ==
  /\ phase = "idle"
  /\ phase' = "destroyed"
  /\ n_buckets' = 0 /\ size' = 0 /\ n_occupied' = 0 /\ upper_bound' = 0
  /\ flags' = AllEmpty
  /\ bucket' = [i \in Buckets |-> Blank]
  /\ UNCHANGED <<new_flags, hand, pending>>

Next ==
  \/ \E k \in Keys, val \in Values : Put(k, val)
  \/ TakeOut
  \/ KickOut
  \/ Resized
  \/ Insert
  \/ \E k \in Keys : Remove(k)
  \/ Destroy

Spec == Init /\ [][Next]_vars

-----------------------------------------------------------------------------
(* Properties.                                                             *)

Occupied(fl) == {i \in Buckets : fl[i] # "empty"}

\* The entries of the table, where kh_resize has got them to.
Entries ==
  {bucket[i] : i \in Old \cup Occupied(new_flags)} \cup ({hand} \ {Blank})

\* Every variable has a value of its type, and the counts are those of the
\* flags.
TypeOK ==
  /\ n_buckets \in {0} \cup Sizes
  /\ size = Cardinality(Old) + Cardinality(Occupied(new_flags))
            + (IF hand = Blank THEN 0 ELSE 1)
  /\ n_occupied = Cardinality(Occupied(flags))
  /\ n_occupied <= upper_bound /\ upper_bound \in Nat
  /\ flags \in [Buckets -> {"empty", "del", "used"}]
  /\ Occupied(flags) \subseteq 0..(n_buckets - 1)
  /\ new_flags \in [Buckets -> {"empty", "used"}]
  /\ bucket \in [Buckets -> Entry \cup {Blank}]
  /\ hand \in Entry \cup {Blank} /\ pending \in Entry \cup {Blank}
  /\ phase \in {"idle", "resize", "insert", "destroyed"}

\* Every search ends: from every key the steps of kh_get and kh_put come to an
\* empty bucket of the table, deleted ones counting as full; so do those of the
\* kick-out loop of kh_resize, which would go round for ever.
ProbesEnd ==
  \A k \in Keys :
    /\ n_buckets > 0 =>
         \E s \in 0..(n_buckets - 1) : flags[Probe(k, s, n_buckets)] = "empty"
    /\ phase = "resize" =>
         \E s \in 0..(NewBuckets - 1) :
           new_flags[Probe(k, s, NewBuckets)] = "empty"

\* No key is in the table twice, and between two calls kh_get finds exactly the
\* keys that are, whatever was deleted from and moved about in the buckets on
\* the way.
GetFinds ==
  /\ Cardinality({e.key : e \in Entries}) = size
  /\ phase \in {"idle", "insert"} =>
       \A k \in Keys :
         IF \E e \in Entries : e.key = k
           THEN kh_get(k) < n_buckets /\ bucket[kh_get(k)].key = k
           ELSE kh_get(k) = n_buckets

\* What kh_resize has left to do: to take out and put the entries of the old
\* table, and to put the one in hand.
LeftToMove == 2 * Cardinality(Old) + (IF hand = Blank THEN 0 ELSE 1)

\* The loops of kh_resize come to an end: entries that kick each other out never
\* go round, each iteration leaves less to do.
ResizeProgresses ==
  [][phase = "resize" /\ phase' = "resize" => LeftToMove' < LeftToMove]_vars

\* The table that a user of kh_get, kh_put and kh_del sees.
Contents ==
  [k \in Keys |->
     IF \E e \in Entries : e.key = k
       THEN (CHOOSE e \in Entries : e.key = k).val
       ELSE NONE]

\* The hash table implements the table it promises: no entry gets lost, gets
\* another's value or comes back, also while kh_resize moves them in place.
Table == INSTANCE PollerTable WITH table <- Contents
ImplementsTable == Table!Spec

(***************************************************************************)
(* The inductive invariant: which buckets hold the entries, and that the   *)
(* searches find their way to them.                                        *)
(***************************************************************************)
InUse == Old \cup Occupied(new_flags)

\* There is room for the entries in the table, and in the one kh_resize makes.
Room ==
  /\ n_buckets <= MaxBuckets
  /\ upper_bound = IF n_buckets = 0 THEN 0 ELSE UpperBound(n_buckets)
  /\ phase = "resize" => NewBuckets <= MaxBuckets /\ size < UpperBound(NewBuckets)
  /\ phase = "insert" => n_occupied < upper_bound

\* Only kh_resize has entries on their way.
OnTheirWay ==
  /\ phase # "resize" => hand = Blank /\ new_flags = AllEmpty
  /\ phase \in {"resize", "insert"} => pending # Blank
  /\ Occupied(new_flags) \subseteq 0..(NewBuckets - 1)

\* Each key has one bucket, or is in hand.
Distinct ==
  /\ Old \cap Occupied(new_flags) = {}
  /\ \A i \in InUse : bucket[i] # Blank /\ bucket[i].key # hand.key
  /\ \A i, j \in InUse : bucket[i].key = bucket[j].key => i = j

\* A search for k in m buckets with the flags fl gets to bucket i.
Reaches(k, i, m, fl) ==
  \E s \in 0..(m - 1) :
    /\ Probe(k, s, m) = i
    /\ \A t \in 0..(s - 1) : fl[Probe(k, t, m)] # "empty"

Searchable ==
  IF phase = "resize"
    THEN \A i \in Occupied(new_flags) : Reaches(bucket[i].key, i, NewBuckets, new_flags)
    ELSE \A i \in Old : Reaches(bucket[i].key, i, n_buckets, flags)

Inv ==
  /\ TypeOK
  /\ Room
  /\ OnTheirWay
  /\ Distinct
  /\ Searchable

=============================================================================
