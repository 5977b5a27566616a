----------------------------- MODULE QuotaCache -----------------------------
(***************************************************************************)
(* The wallet quota of one user and its three copies: the column of the    *)
(* users table, the batch store (model/utils.go) and the Redis hash        *)
(* user:<id> (model/user_cache.go).                                        *)
(*                                                                         *)
(* A change adds its amount to Redis in a goroutine and to the database,   *)
(* or to the batch store, in the caller.  A reader that misses Redis       *)
(* reads the database and stores what it read in a goroutine.  Saving a    *)
(* profile rewrites the row and the hash.  Every SQL statement and every   *)
(* Redis command is one step.                                              *)
(*                                                                         *)
(* truth and lost are history variables: the quota that the changes which  *)
(* took effect add up to, whatever their callers were told, and what       *)
(* crashes, failed batches and profile saves have lost of it.              *)
(***************************************************************************)
EXTENDS Integers, FiniteSets, Functions

CONSTANTS
    Changes,       \* calls of IncreaseUserQuota and DecreaseUserQuota
    Amount,        \* Amount[c]: what c adds, negative for DecreaseUserQuota
    Readers,       \* requests that read the user
    Quota0,        \* the quota at the start
    Batch,         \* BatchUpdateEnabled
    Failures,      \* SQL statements and Redis commands may fail
    SaveKinds,     \* "update": User.Update, "edit": User.Edit, User.ClearBinding
    MaxSaves,      \* bound: profile saves
    Overrides,     \* quotas an administrator may set
    MaxOverrides,  \* bound: overrides
    MaxCrashes     \* bound: restarts of the process

ASSUME QuotaAssumption ==
    /\ IsFiniteSet(Changes)
    /\ Quota0 \in Int /\ Amount \in [Changes -> Int] /\ Overrides \subseteq Int
    /\ Batch \in BOOLEAN /\ Failures \in BOOLEAN
    /\ SaveKinds \subseteq {"update", "edit"}
    /\ MaxSaves \in Nat /\ MaxOverrides \in Nat /\ MaxCrashes \in Nat

VARIABLES
    db,         \* users.quota
    store,      \* the user's entry in the batch store, 0 if there is none
    taken,      \* what batchUpdate has taken from the store and not yet written
    cache,      \* the Redis hash: no hash, a complete one or one with a quota only
    change,     \* change[c]: the database leg and the Redis leg of c
    reader,     \* reader[r]: what the reader does next, and the quota it read
    save,       \* the profile save under way
    saves, overrides, crashes,   \* bounds
    truth, lost

bounds == <<saves, overrides, crashes>>
hist   == <<truth, lost>>
vars   == <<db, store, taken, cache, change, reader, save, bounds, hist>>

NoHash  == [kind |-> "none", quota |-> 0]
Hash(q) == [kind |-> "full", quota |-> q]
Hashes  == [kind : {"none", "full", "partial"}, quota : Int]

NewChange == [db |-> "new", redis |-> "none"]
NoReader  == [next |-> "idle", quota |-> 0]
NoSave    == [next |-> "idle", kind |-> "edit", loaded |-> 0, quota |-> 0]

Init ==
    /\ db = Quota0 /\ store = 0 /\ taken = 0 /\ cache = NoHash
    /\ change = [c \in Changes |-> NewChange]
    /\ reader = [r \in Readers |-> NoReader] /\ save = NoSave
    /\ saves = 0 /\ overrides = 0 /\ crashes = 0
    /\ truth = Quota0 /\ lost = 0
-----------------------------------------------------------------------------
(***************************************************************************)
(* IncreaseUserQuota and DecreaseUserQuota.                                *)
(***************************************************************************)
\* The Redis goroutine is dispatched before the database is written.
Call(c) ==
    /\ change[c].db = "new"
    /\ change' = [change EXCEPT ![c] = [db |-> "write", redis |-> "ttl"]]
    /\ UNCHANGED <<db, store, taken, cache, reader, save, bounds, hist>>

\* The change counts from now on. Its caller may still see an error, when the answer of the
\* database is lost; nothing here depends on what it sees.
TakesEffect(c) ==
    /\ change' = [change EXCEPT ![c].db = "done"]
    /\ truth' = truth + Amount[c]
    /\ UNCHANGED <<taken, cache, reader, save, bounds, lost>>

\* addNewRecord
AddRecord(c) ==
    /\ Batch /\ change[c].db = "write"
    /\ store' = store + Amount[c]
    /\ TakesEffect(c) /\ UNCHANGED db

\* Also with batching: administrators and rewards write at once.
WriteDb(c) ==
    /\ change[c].db = "write"
    /\ db' = db + Amount[c]
    /\ TakesEffect(c) /\ UNCHANGED store

\* The statement fails without an effect; the Redis goroutine goes on.
WriteDbFails(c) ==
    /\ Failures /\ change[c].db = "write"
    /\ change' = [change EXCEPT ![c].db = "done"]
    /\ UNCHANGED <<db, store, taken, cache, reader, save, bounds, hist>>

\* RedisHIncrBy looks at the TTL first and does nothing without a hash.
CheckTTL(c) ==
    /\ change[c].redis = "ttl"
    /\ \E next \in (IF cache = NoHash THEN {"done"} ELSE {"incr"})
                   \cup (IF Failures THEN {"done"} ELSE {}) :
          change' = [change EXCEPT ![c].redis = next]
    /\ UNCHANGED <<db, store, taken, cache, reader, save, bounds, hist>>

\* Mutant: the command is sent again after a lost answer.
MutIncremented(c) == change' = change

Incremented(c) == change' = [change EXCEPT ![c].redis = "done"]

\* The transaction of HINCRBY and EXPIRE.  A hash that has gone in the meantime
\* comes back with this one field.
HIncrBy(c) ==
    /\ change[c].redis = "incr"
    /\ \/ cache' = [kind  |-> IF cache = NoHash THEN "partial" ELSE cache.kind,
                    quota |-> cache.quota + Amount[c]]
       \/ Failures /\ UNCHANGED cache
    /\ Incremented(c)
    /\ UNCHANGED <<db, store, taken, reader, save, bounds, hist>>
-----------------------------------------------------------------------------
(***************************************************************************)
(* batchUpdate: take the store, then write it.                             *)
(***************************************************************************)
\* Mutant: the store is not replaced.
MutTakeStore ==
    /\ Batch /\ taken = 0 /\ store # 0
    /\ taken' = store
    /\ UNCHANGED <<db, store, cache, change, reader, save, bounds, hist>>

TakeStore ==
    /\ Batch /\ taken = 0 /\ store # 0
    /\ taken' = store /\ store' = 0
    /\ UNCHANGED <<db, cache, change, reader, save, bounds, hist>>

\* A statement that fails is logged and its amount is gone.
WriteBatch ==
    /\ taken # 0 /\ taken' = 0
    /\ \/ db' = db + taken /\ UNCHANGED lost
       \/ Failures /\ lost' = lost + taken /\ UNCHANGED db
    /\ UNCHANGED <<store, cache, change, reader, save, bounds, truth>>
-----------------------------------------------------------------------------
(***************************************************************************)
(* GetUserCache, also for GetUserQuota(id, false).  A hit changes nothing. *)
(***************************************************************************)
\* There is no hash, or Redis cannot be read.
Miss(r) ==
    /\ reader[r].next = "idle" /\ (cache = NoHash \/ Failures)
    /\ reader' = [reader EXCEPT ![r].next = "read"]
    /\ UNCHANGED <<db, store, taken, cache, change, save, bounds, hist>>

\* GetUserById; after an error nothing is stored.
ReadDb(r) ==
    /\ reader[r].next = "read"
    /\ \/ reader' = [reader EXCEPT ![r] = [next |-> "set", quota |-> db]]
       \/ Failures /\ reader' = [reader EXCEPT ![r] = NoReader]
    /\ UNCHANGED <<db, store, taken, cache, change, save, bounds, hist>>

\* updateUserCache in a goroutine
SetHash(r) ==
    /\ reader[r].next = "set"
    /\ reader' = [reader EXCEPT ![r] = NoReader]
    /\ \/ cache' = Hash(reader[r].quota)
       \/ Failures /\ UNCHANGED cache
    /\ UNCHANGED <<db, store, taken, change, save, bounds, hist>>

\* Mutant: hashes that a reader or a save stores never expire.
MutEvict ==
    /\ cache.kind = "partial"
    /\ cache' = NoHash
    /\ UNCHANGED <<db, store, taken, change, reader, save, bounds, hist>>

\* The hash expires, or InvalidateUserCache deletes it.
Evict ==
    /\ cache # NoHash
    /\ cache' = NoHash
    /\ UNCHANGED <<db, store, taken, change, reader, save, bounds, hist>>
-----------------------------------------------------------------------------
(***************************************************************************)
(* Saving a profile.  User.Update is called on a user that the handler has *)
(* loaded, and writes every field of it that is not zero.                  *)
(***************************************************************************)
LoadUser(k) ==
    /\ save.next = "idle" /\ saves < MaxSaves
    /\ save' = [next |-> "first", kind |-> k, loaded |-> db, quota |-> 0]
    /\ saves' = saves + 1
    /\ UNCHANGED <<db, store, taken, cache, change, reader, overrides, crashes, hist>>

\* DB.First
ReloadUser ==
    /\ save.next = "first"
    /\ save' = [save EXCEPT !.next = "write", !.quota = db]
    /\ UNCHANGED <<db, store, taken, cache, change, reader, bounds, hist>>

\* Edit writes no quota, and Updates skips a quota of 0.
WritesQuota == save.kind = "update" /\ save.loaded # 0

\* Updates; the written fields are also set in the user that goes to the cache. After an error,
\* and the statement may have taken effect all the same, nothing is cached.
UpdateUser ==
    /\ save.next = "write"
    /\ \/ save' = [save EXCEPT !.next = "set", !.quota = IF WritesQuota THEN save.loaded ELSE @]
       \/ Failures /\ save' = NoSave
    /\ \/ WritesQuota /\ db' = save.loaded /\ lost' = lost + (db - save.loaded)
       \/ ~WritesQuota /\ UNCHANGED <<db, lost>>
       \/ save' = NoSave /\ UNCHANGED <<db, lost>>
    /\ UNCHANGED <<store, taken, cache, change, reader, bounds, truth>>

CacheUser ==
    /\ save.next = "set" /\ save' = NoSave
    /\ \/ cache' = Hash(save.quota)
       \/ Failures /\ UNCHANGED cache
    /\ UNCHANGED <<db, store, taken, change, reader, bounds, hist>>

\* ManageUser, mode "override": the column alone.
Override(q) ==
    /\ overrides < MaxOverrides /\ overrides' = overrides + 1
    /\ db' = q /\ truth' = truth + (q - db)
    /\ UNCHANGED <<store, taken, cache, change, reader, save, saves, crashes, lost>>

\* The process restarts: the store and all goroutines are gone.
Crash ==
    /\ crashes < MaxCrashes /\ crashes' = crashes + 1
    /\ lost' = lost + store + taken /\ store' = 0 /\ taken' = 0
    /\ change' = [c \in Changes |-> IF change[c].db = "new" THEN change[c]
                                    ELSE [change[c] EXCEPT !.db = "done", !.redis = "done"]]
    /\ reader' = [r \in Readers |-> NoReader] /\ save' = NoSave
    /\ UNCHANGED <<db, cache, saves, overrides, truth>>
-----------------------------------------------------------------------------
ChangeStep(c) == AddRecord(c) \/ WriteDb(c) \/ WriteDbFails(c) \/ CheckTTL(c) \/ HIncrBy(c)

ReaderStep(r) == ReadDb(r) \/ SetHash(r)

SaveStep == ReloadUser \/ UpdateUser \/ CacheUser

BatchStep == TakeStore \/ WriteBatch

Next ==
    \/ \E c \in Changes : Call(c) \/ ChangeStep(c)
    \/ \E r \in Readers : Miss(r) \/ ReaderStep(r)
    \/ \E k \in SaveKinds : LoadUser(k)
    \/ SaveStep \/ BatchStep \/ Evict \/ Crash
    \/ \E q \in Overrides : Override(q)

\* What has been begun goes on, the batch updater runs for ever and hashes expire.
Fairness ==
    /\ \A c \in Changes : WF_vars(ChangeStep(c))
    /\ \A r \in Readers : WF_vars(ReaderStep(r))
    /\ WF_vars(SaveStep) /\ WF_vars(BatchStep) /\ WF_vars(Evict)

Spec == Init /\ [][Next]_vars /\ Fairness
-----------------------------------------------------------------------------
(***************************************************************************)
(* Properties.                                                             *)
(***************************************************************************)
\* Every variable has its type.
TypeOK ==
    /\ db \in Int /\ store \in Int /\ taken \in Int /\ cache \in Hashes
    /\ change \in [Changes -> [db : {"new", "write", "done"},
                               redis : {"none", "ttl", "incr", "done"}]]
    /\ reader \in [Readers -> [next : {"idle", "read", "set"}, quota : Int]]
    /\ save \in [next : {"idle", "first", "write", "set"}, kind : {"update", "edit"},
                 loaded : Int, quota : Int]
    /\ saves \in 0..MaxSaves /\ overrides \in 0..MaxOverrides /\ crashes \in 0..MaxCrashes
    /\ truth \in Int /\ lost \in Int

\* The database, the store and the batch being written together hold every
\* change that took effect exactly once, except for what the history says was lost:
\* taking the store and writing it neither doubles nor drops a change that
\* addNewRecord adds meanwhile (model/utils.go:72-78).
Books == db + store + taken + lost = truth

\* The amounts of all changes, each taken times[c] times.
Total(times) == SumFunctionOnSet([c \in Changes |-> times[c] * Amount[c]], Changes)

\* A reader never sees a change more than twice: from the row it was read with and
\* from the HINCRBY that came later.  A hash that HINCRBY brought back never has a
\* change twice (common/redis.go:275-299).
DriftBounded ==
    /\ cache.kind = "full" =>
          \E base \in {Quota0} \cup Overrides, times \in [Changes -> 0..2] :
              cache.quota = base + Total(times)
    /\ cache.kind = "partial" =>
          \E times \in [Changes -> 0..1] : cache.quota = Total(times)

\* Redis may hold a stale or incomplete hash for a while, but when the changes stop
\* the batch store drains and Redis agrees with the database for ever: HINCRBY
\* keeps the TTL of the hash, so that every drift expires.
DriftHeals == <>[](store = 0 /\ taken = 0 /\ cache \in {NoHash, Hash(db)})

=============================================================================
