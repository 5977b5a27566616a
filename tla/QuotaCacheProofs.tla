------------------------ MODULE QuotaCacheProofs ------------------------
(***************************************************************************)
(* The books of QuotaCache balance for every set of changes and readers,   *)
(* with and without batching, failures, saves, overrides and restarts; and *)
(* the hash in Redis never counts a change more often than DriftBounded    *)
(* allows.                                                                 *)
(***************************************************************************)
EXTENDS QuotaCache, SumLemmas, TLAPS

\* The first state has its types and balanced books.
LEMMA InitOK == Init => TypeOK /\ Books
<1> SUFFICES ASSUME Init PROVE TypeOK /\ Books
    OBVIOUS
<1> USE QuotaAssumption
<1>1. TypeOK
    BY DEF Init, TypeOK, NoHash, Hashes, NewChange, NoReader, NoSave
<1>2. Books
    BY DEF Init, Books
<1> QED
    BY <1>1, <1>2

\* The steps of a change keep the types and the books.
LEMMA ChangeKeepsBooks ==
    ASSUME TypeOK, Books, NEW c \in Changes, Call(c) \/ ChangeStep(c)
    PROVE  TypeOK' /\ Books'
<1> USE QuotaAssumption
<1>0. Amount[c] \in Int
    OBVIOUS
<1>1. CASE Call(c)
    BY <1>1 DEF Call, TypeOK, Books, bounds, hist
<1>2. CASE AddRecord(c)
    BY <1>0, <1>2 DEF AddRecord, TakesEffect, TypeOK, Books, bounds
<1>3. CASE WriteDb(c)
    BY <1>0, <1>3 DEF WriteDb, TakesEffect, TypeOK, Books, bounds
<1>4. CASE WriteDbFails(c)
    BY <1>4 DEF WriteDbFails, TypeOK, Books, bounds, hist
<1>5. CASE CheckTTL(c)
    <2>1. PICK next \in {"incr", "done"} : change' = [change EXCEPT ![c].redis = next]
        BY <1>5 DEF CheckTTL
    <2> QED
        BY <1>5, <2>1 DEF CheckTTL, TypeOK, Books, bounds, hist
<1>6. CASE HIncrBy(c)
    <2>1. cache' \in Hashes
        BY <1>0, <1>6 DEF HIncrBy, TypeOK, Hashes
    <2> QED
        BY <1>6, <2>1 DEF HIncrBy, Incremented, TypeOK, Books, bounds, hist
<1> QED
    BY <1>1, <1>2, <1>3, <1>4, <1>5, <1>6 DEF ChangeStep

\* The steps of a reader keep the types and the books.
LEMMA ReaderKeepsBooks ==
    ASSUME TypeOK, Books, NEW r \in Readers, Miss(r) \/ ReaderStep(r)
    PROVE  TypeOK' /\ Books'
<1>1. CASE Miss(r)
    BY <1>1 DEF Miss, TypeOK, Books, bounds, hist
<1>2. CASE ReadDb(r)
    BY <1>2 DEF ReadDb, NoReader, TypeOK, Books, bounds, hist
<1>3. CASE SetHash(r)
    <2>1. reader[r].quota \in Int
        BY DEF TypeOK
    <2>2. cache' \in Hashes
        BY <1>3, <2>1 DEF SetHash, Hash, Hashes, TypeOK
    <2> QED
        BY <1>3, <2>2 DEF SetHash, NoReader, TypeOK, Books, bounds, hist
<1> QED
    BY <1>1, <1>2, <1>3 DEF ReaderStep

\* The steps of a profile save keep the types and the books: what User.Update
\* overwrites is booked as lost.
LEMMA SaveKeepsBooks ==
    ASSUME TypeOK, Books, SaveStep \/ (\E k \in SaveKinds : LoadUser(k))
    PROVE  TypeOK' /\ Books'
<1> USE QuotaAssumption
<1>1. ASSUME NEW k \in SaveKinds, LoadUser(k) PROVE TypeOK' /\ Books'
    BY <1>1 DEF LoadUser, TypeOK, Books, hist
<1>2. CASE ReloadUser
    BY <1>2 DEF ReloadUser, TypeOK, Books, bounds, hist
<1>3. CASE UpdateUser
    <2>1. save.loaded \in Int
        BY DEF TypeOK
    <2>2. save' \in [next : {"idle", "first", "write", "set"}, kind : {"update", "edit"},
                     loaded : Int, quota : Int]
        <3>1. \/ save' = [save EXCEPT !.next = "set", !.quota = IF WritesQuota THEN save.loaded ELSE @]
              \/ save' = NoSave
            BY <1>3 DEF UpdateUser
        <3>2. CASE save' = [save EXCEPT !.next = "set", !.quota = IF WritesQuota THEN save.loaded ELSE @]
            BY <2>1, <3>2 DEF TypeOK
        <3>3. CASE save' = NoSave
            BY <3>3 DEF NoSave
        <3> QED
            BY <3>1, <3>2, <3>3
    <2>3. \/ db' = save.loaded /\ lost' = lost + (db - save.loaded)
          \/ UNCHANGED <<db, lost>>
        BY <1>3 DEF UpdateUser
    <2>4. UNCHANGED <<store, taken, cache, change, reader, saves, overrides, crashes, truth>>
        BY <1>3 DEF UpdateUser, bounds
    <2>5. Books' /\ db' \in Int /\ lost' \in Int
        <3>1. db \in Int /\ store \in Int /\ taken \in Int /\ lost \in Int /\ truth \in Int
            BY DEF TypeOK
        <3>2. CASE UNCHANGED <<db, lost>>
            BY <2>4, <3>1, <3>2 DEF Books
        <3>3. CASE db' = save.loaded /\ lost' = lost + (db - save.loaded)
            BY <2>1, <2>4, <3>1, <3>3 DEF Books
        <3> QED
            BY <2>3, <3>2, <3>3
    <2> QED
        BY <2>2, <2>4, <2>5 DEF TypeOK
<1>4. CASE CacheUser
    <2>1. cache' \in Hashes
        BY <1>4 DEF CacheUser, Hash, Hashes, TypeOK
    <2> QED
        BY <1>4, <2>1 DEF CacheUser, NoSave, TypeOK, Books, bounds, hist
<1> QED
    BY <1>1, <1>2, <1>3, <1>4 DEF SaveStep

\* Batches, evictions, overrides and restarts keep the types and the books.
LEMMA OthersKeepBooks ==
    ASSUME TypeOK, Books, BatchStep \/ Evict \/ Crash \/ (\E q \in Overrides : Override(q))
    PROVE  TypeOK' /\ Books'
<1> USE QuotaAssumption
<1>1. CASE TakeStore
    BY <1>1 DEF TakeStore, TypeOK, Books, bounds, hist
<1>2. CASE WriteBatch
    <2>1. \/ db' = db + taken /\ lost' = lost
          \/ db' = db /\ lost' = lost + taken
        BY <1>2 DEF WriteBatch
    <2>2. /\ taken' = 0
          /\ UNCHANGED <<store, cache, change, reader, save, saves, overrides, crashes, truth>>
        BY <1>2 DEF WriteBatch, bounds
    <2>3. Books' /\ db' \in Int /\ lost' \in Int
        <3>1. db \in Int /\ store \in Int /\ taken \in Int /\ lost \in Int /\ truth \in Int
            BY DEF TypeOK
        <3>2. CASE db' = db + taken /\ lost' = lost
            BY <2>2, <3>1, <3>2 DEF Books
        <3>3. CASE db' = db /\ lost' = lost + taken
            BY <2>2, <3>1, <3>3 DEF Books
        <3> QED
            BY <2>1, <3>2, <3>3
    <2> QED
        BY <2>2, <2>3 DEF TypeOK
<1>3. CASE Evict
    BY <1>3 DEF Evict, NoHash, Hashes, TypeOK, Books, bounds, hist
<1>4. CASE Crash
    <2> DEFINE Legs == [db : {"new", "write", "done"}, redis : {"none", "ttl", "incr", "done"}]
               Dropped(l) == IF l.db = "new" THEN l ELSE [l EXCEPT !.db = "done", !.redis = "done"]
    <2>1. change' \in [Changes -> Legs]
        <3>1. change' = [c \in Changes |-> Dropped(change[c])]
            BY <1>4, Zenon DEF Crash
        <3>2. ASSUME NEW l \in Legs PROVE Dropped(l) \in Legs
            OBVIOUS
        <3>3. \A c \in Changes : change[c] \in Legs
            BY DEF TypeOK
        <3> HIDE DEF Legs, Dropped
        <3> QED
            BY <3>1, <3>2, <3>3
    <2>2. crashes < MaxCrashes /\ crashes' = crashes + 1
        BY <1>4 DEF Crash
    <2>3. crashes' \in 0..MaxCrashes
        BY <2>2 DEF TypeOK
    <2>4. /\ lost' = lost + store + taken /\ store' = 0 /\ taken' = 0
          /\ UNCHANGED <<db, cache, saves, overrides, truth>>
        BY <1>4 DEF Crash
    <2>5. Books' /\ lost' \in Int
        BY <2>4 DEF TypeOK, Books
    <2>6. reader' \in [Readers -> [next : {"idle", "read", "set"}, quota : Int]]
        <3>1. reader' = [r \in Readers |-> NoReader]
            BY <1>4, Zenon DEF Crash
        <3> QED
            BY <3>1 DEF NoReader
    <2>7. save' \in [next : {"idle", "first", "write", "set"}, kind : {"update", "edit"},
                     loaded : Int, quota : Int]
        <3>1. save' = NoSave
            BY <1>4, Zenon DEF Crash
        <3> QED
            BY <3>1 DEF NoSave
    <2> QED
        BY <2>1, <2>3, <2>4, <2>5, <2>6, <2>7 DEF TypeOK
<1>5. ASSUME NEW q \in Overrides, Override(q) PROVE TypeOK' /\ Books'
    BY <1>5 DEF Override, TypeOK, Books
<1> QED
    BY <1>1, <1>2, <1>3, <1>4, <1>5 DEF BatchStep

\* Whatever changes, readers, saves, batches, failures and restarts interleave, the
\* database, the batch store and the batch under way hold every acknowledged change
\* of the quota exactly once, but for what the history calls lost.
THEOREM BooksCorrect == Spec => [](TypeOK /\ Books)
<1>1. ASSUME TypeOK, Books, [Next]_vars PROVE TypeOK' /\ Books'
    <2>1. CASE UNCHANGED vars
        BY <1>1, <2>1 DEF vars, bounds, hist, TypeOK, Books
    <2>2. CASE Next
        BY <1>1, <2>2, ChangeKeepsBooks, ReaderKeepsBooks, SaveKeepsBooks, OthersKeepBooks
        DEF Next
    <2> QED
        BY <1>1, <2>1, <2>2
<1> QED
    BY InitOK, <1>1, PTL DEF Spec
-----------------------------------------------------------------------------
(***************************************************************************)
(* The drift of the cache.  Every number in the system is a base, which is *)
(* the initial quota or an override, and the amounts of some changes; the  *)
(* inductive invariant says which changes these can be.                    *)
(***************************************************************************)
\* Where a quota can start from.
Bases == {Quota0} \cup Overrides

\* The amounts of the changes in X.
Sum(X) == SumFunctionOnSet(Amount, X)

\* The changes whose call has ended, and those whose Redis goroutine has.
Done    == {c \in Changes : change[c].db = "done"}
Applied == {c \in Changes : change[c].redis = "done"}

\* q is a base and some of the changes in D, each once.
Made(q, D) == \E base \in Bases : \E X \in SUBSET D : q = base + Sum(X)

\* The store and the batch under way hold the changes S and T; the column, and the copy of
\* it a profile save will write back, hold others.
Held(S, T) ==
    /\ S \in SUBSET Done /\ T \in SUBSET Done /\ S \cap T = {}
    /\ store = Sum(S) /\ taken = Sum(T)
    /\ Made(db, Done \ (S \cup T))
    /\ save.next # "idle" => Made(save.loaded, Done \ (S \cup T))

\* Some choice of the changes explains the column, the store and the batch.
ColumnInv == \E S, T \in SUBSET Changes : Held(S, T)

\* What may go to the cache is a column of some time.
CopyInv ==
    /\ save.next \in {"write", "set"} => Made(save.quota, Changes)
    /\ \A r \in Readers : reader[r].next = "set" => Made(reader[r].quota, Changes)

\* A hash holds its copy of the column and the increments that came later.
HashInv ==
    /\ cache.kind = "none" => cache.quota = 0
    /\ cache.kind = "partial" => \E Y \in SUBSET Applied : cache.quota = Sum(Y)
    /\ cache.kind = "full" =>
          \E base \in Bases : \E X \in SUBSET Changes : \E Y \in SUBSET Applied :
              cache.quota = base + (Sum(X) + Sum(Y))

\* The inductive invariant.
DriftInv == ColumnInv /\ CopyInv /\ HashInv

\* The sums are integers and grow by the amount of a new change.
LEMMA Sums ==
    /\ Sum({}) = 0
    /\ \A X \in SUBSET Changes :
          /\ Sum(X) \in Int
          /\ \A c \in Changes \ X : Sum(X \cup {c}) = Sum(X) + Amount[c]
<1>1. Sum({}) = 0
  BY SumEmpty DEF Sum
<1> SUFFICES ASSUME NEW X \in SUBSET Changes
             PROVE  /\ Sum(X) \in Int
                    /\ \A c \in Changes \ X : Sum(X \cup {c}) = Sum(X) + Amount[c]
  BY <1>1
<1>2. Summable(Amount, X)
  BY QuotaAssumption, FS_Subset DEF Summable
<1>3. Sum(X) \in Int
  BY <1>2, SumType DEF Sum
<1>4. ASSUME NEW c \in Changes \ X PROVE Sum(X \cup {c}) = Sum(X) + Amount[c]
  <2>1. Amount[c] \in Int /\ c \notin X
    BY QuotaAssumption
  <2>2. SumFunctionOnSet(Amount, X \cup {c}) = Amount[c] + SumFunctionOnSet(Amount, X)
    BY <1>2, <2>1, SumInsert
  <2>3. Sum(X \cup {c}) = Amount[c] + Sum(X)
    BY <2>2 DEF Sum
  <2> QED BY <1>3, <2>1, <2>3
<1> QED BY <1>3, <1>4

\* Sums of disjoint sets add up.
LEMMA SumsJoin ==
  ASSUME NEW X \in SUBSET Changes, NEW Y \in SUBSET Changes, X \cap Y = {}
  PROVE  Sum(X \cup Y) = Sum(X) + Sum(Y)
<1> DEFINE G == {Z \in SUBSET Y : Sum(X \cup Z) = Sum(X) + Sum(Z)}
<1>0. Sum(X) \in Int /\ IsFiniteSet(Y)
  BY Sums, QuotaAssumption, FS_Subset
<1>1. {} \in G
  <2>1. X \cup {} = X
    OBVIOUS
  <2> QED BY <1>0, <2>1, Sums
<1>2. ASSUME NEW Z \in SUBSET Y, NEW c \in Y \ Z, Z \in G PROVE Z \cup {c} \in G
  <2>1. /\ X \cup Z \in SUBSET Changes /\ c \in Changes \ (X \cup Z)
        /\ Z \in SUBSET Changes /\ c \in Changes \ Z
        /\ (X \cup Z) \cup {c} = X \cup (Z \cup {c})
    OBVIOUS
  <2>2. PICK v \in Int, a \in Int, b \in Int : v = Amount[c] /\ a = Sum(X) /\ b = Sum(Z)
    BY <1>0, <2>1, QuotaAssumption, Sums
  <2>3. Sum(X \cup Z) = a + b
    BY <1>2, <2>2
  <2>4. Sum(X \cup (Z \cup {c})) = (a + b) + v /\ Sum(Z \cup {c}) = b + v
    BY <2>1, <2>2, <2>3, Sums
  <2>5. (a + b) + v = a + (b + v)
    OBVIOUS
  <2> QED BY <2>2, <2>4, <2>5
<1>3. Y \in G
  <2> HIDE DEF G
  <2> QED BY <1>0, <1>1, <1>2, SetInduction
<1> QED BY <1>3

\* The same q out of a larger choice of changes.
LEMMA MadeOf ==
  ASSUME NEW q, NEW D, NEW E, Made(q, D), D \subseteq E
  PROVE  Made(q, E)
  BY DEF Made

\* A set of changes joins q.
LEMMA MadeJoin ==
  ASSUME NEW q, NEW D \in SUBSET Changes, NEW X \in SUBSET Changes, Made(q, D), D \cap X = {}
  PROVE  Made(q + Sum(X), D \cup X)
<1>1. PICK base \in Bases, Z \in SUBSET D : q = base + Sum(Z)
  BY DEF Made
<1>2. PICK a \in Int, b \in Int, v \in Int : a = Sum(Z) /\ b = Sum(X) /\ v = base
  BY <1>1, Sums, QuotaAssumption DEF Bases
<1>3. Sum(Z \cup X) = a + b
  BY <1>2, SumsJoin
<1>4. (v + a) + b = v + (a + b)
  OBVIOUS
<1>5. q + Sum(X) = base + Sum(Z \cup X)
  BY <1>1, <1>2, <1>3, <1>4
<1>6. Z \cup X \in SUBSET (D \cup X)
  OBVIOUS
<1> QED BY <1>5, <1>6 DEF Made

\* A base is made of no change.
LEMMA MadeBase ==
  ASSUME NEW q \in Bases, NEW D
  PROVE  Made(q, D)
<1>1. q \in Int
  BY QuotaAssumption DEF Bases
<1>2. q = q + Sum({})
  BY <1>1, Sums
<1> QED BY <1>2 DEF Made
-----------------------------------------------------------------------------
\* Nothing moves between the column, the store and the batch.
LEMMA ColumnStays ==
  ASSUME ColumnInv, UNCHANGED <<db, store, taken>>, Done \subseteq Done',
         \/ save'.next = "idle" \/ save'.loaded = db
         \/ save.next # "idle" /\ save'.loaded = save.loaded
  PROVE  ColumnInv'
<1>1. PICK S \in SUBSET Changes, T \in SUBSET Changes : Held(S, T)
  BY DEF ColumnInv
<1>2. Made(db, Done' \ (S \cup T))
  BY <1>1, MadeOf DEF Held
<1>3. save'.next # "idle" => Made(save'.loaded, Done' \ (S \cup T))
  <2>1. CASE save'.loaded = db
    BY <1>2, <2>1
  <2>2. CASE save.next # "idle" /\ save'.loaded = save.loaded
    BY <1>1, <2>2, MadeOf DEF Held
  <2> QED BY <2>1, <2>2
<1>4. Held(S, T)'
  BY <1>1, <1>2, <1>3 DEF Held
<1> QED BY <1>4 DEF ColumnInv

\* A call ends; its Redis goroutine is not affected.
LEMMA CallEnds ==
  ASSUME TypeOK, NEW c \in Changes, change' = [change EXCEPT ![c].db = "done"]
  PROVE  Done' = Done \cup {c} /\ Applied' = Applied
<1>1. \A d \in Changes : change'[d].db = IF d = c THEN "done" ELSE change[d].db
  BY DEF TypeOK
<1>2. \A d \in Changes : change'[d].redis = change[d].redis
  BY DEF TypeOK
<1> QED BY <1>1, <1>2 DEF Done, Applied

\* A goroutine moves on; the call is not affected.
LEMMA GoroutineMoves ==
  ASSUME TypeOK, NEW c \in Changes, NEW next, change' = [change EXCEPT ![c].redis = next]
  PROVE  /\ Done' = Done /\ Applied \ {c} \subseteq Applied'
         /\ next = "done" => Applied' = Applied \cup {c}
<1>1. \A d \in Changes : change'[d].db = change[d].db
  BY DEF TypeOK
<1>2. \A d \in Changes : change'[d].redis = IF d = c THEN next ELSE change[d].redis
  BY DEF TypeOK
<1> QED BY <1>1, <1>2 DEF Done, Applied

\* addNewRecord moves a change into the store.
LEMMA ColumnAdd ==
  ASSUME TypeOK, ColumnInv, NEW c \in Changes, AddRecord(c)
  PROVE  ColumnInv'
<1>1. PICK S \in SUBSET Changes, T \in SUBSET Changes : Held(S, T)
  BY DEF ColumnInv
<1>2. /\ UNCHANGED <<db, taken, save>> /\ store' = store + Amount[c]
      /\ Done' = Done \cup {c} /\ c \notin Done
  BY CallEnds DEF AddRecord, TakesEffect, Done
<1>3. c \in Changes \ S /\ c \notin T
  BY <1>1, <1>2 DEF Held
<1>4. store' = Sum(S \cup {c})
  BY <1>1, <1>2, <1>3, Sums DEF Held
<1>5. Done' \ ((S \cup {c}) \cup T) = Done \ (S \cup T)
  BY <1>2
<1>6. Held(S \cup {c}, T)'
  BY <1>1, <1>2, <1>3, <1>4, <1>5 DEF Held
<1>7. S \cup {c} \in SUBSET Changes
  OBVIOUS
<1> QED BY <1>6, <1>7 DEF ColumnInv

\* A change is written to the column at once.
LEMMA ColumnWrite ==
  ASSUME TypeOK, ColumnInv, NEW c \in Changes, WriteDb(c)
  PROVE  ColumnInv'
<1>1. PICK S \in SUBSET Changes, T \in SUBSET Changes : Held(S, T)
  BY DEF ColumnInv
<1>2. /\ UNCHANGED <<store, taken, save>> /\ db' = db + Amount[c]
      /\ Done' = Done \cup {c} /\ c \notin Done
  BY CallEnds DEF WriteDb, TakesEffect, Done
<1>3. PICK D \in SUBSET Changes : D = Done \ (S \cup T)
  BY DEF Done
<1>4. D \cap {c} = {} /\ Made(db, D) /\ Done' \ (S \cup T) = D \cup {c}
  BY <1>1, <1>2, <1>3 DEF Held
<1>5. Sum({c}) = Amount[c]
  <2>1. {} \in SUBSET Changes /\ c \in Changes \ {} /\ {} \cup {c} = {c} /\ Amount[c] \in Int
    BY QuotaAssumption
  <2>2. Sum({c}) = 0 + Amount[c]
    BY <2>1, Sums
  <2> QED BY <2>1, <2>2
<1>6. Made(db', D \cup {c})
  <2>1. {c} \in SUBSET Changes
    OBVIOUS
  <2>2. Made(db + Sum({c}), D \cup {c})
    BY <1>4, <2>1, MadeJoin
  <2> QED BY <1>2, <1>5, <2>2
<1>7. save.next # "idle" => Made(save.loaded, D \cup {c})
  BY <1>1, <1>3, MadeOf DEF Held
<1>8. Held(S, T)'
  BY <1>1, <1>2, <1>4, <1>6, <1>7 DEF Held
<1> QED BY <1>8 DEF ColumnInv

\* A profile save may write the column it loaded back.
LEMMA ColumnUpdate ==
  ASSUME TypeOK, ColumnInv, UpdateUser
  PROVE  ColumnInv'
<1>1. /\ UNCHANGED <<store, taken, change>> /\ save.next = "write" /\ Done' = Done
  BY DEF UpdateUser, Done
<1>4. save'.next = "idle" \/ save'.loaded = save.loaded
  <2>1. \/ save' = [save EXCEPT !.next = "set", !.quota = IF WritesQuota THEN save.loaded ELSE @]
        \/ save' = NoSave
    BY DEF UpdateUser
  <2>2. save \in [next : {"idle", "first", "write", "set"}, kind : {"update", "edit"},
                  loaded : Int, quota : Int]
    BY DEF TypeOK
  <2>3. /\ \A q : [save EXCEPT !.next = "set", !.quota = q].loaded = save.loaded
        /\ NoSave.next = "idle"
    BY <2>2 DEF NoSave
  <2> QED BY <2>1, <2>3
<1>2. CASE UNCHANGED db
  BY <1>1, <1>2, <1>4, ColumnStays
<1>3. CASE ~UNCHANGED db
  <2>1. db' = save.loaded
    BY <1>3 DEF UpdateUser
  <2>2. save'.next = "idle" \/ save'.loaded = save.loaded
    BY <1>4
  <2>3. PICK S \in SUBSET Changes, T \in SUBSET Changes : Held(S, T)
    BY DEF ColumnInv
  <2>4. Made(save.loaded, Done \ (S \cup T))
    BY <1>1, <2>3 DEF Held
  <2>5. Held(S, T)'
    BY <1>1, <2>1, <2>2, <2>3, <2>4 DEF Held
  <2> QED BY <2>5 DEF ColumnInv
<1> QED BY <1>2, <1>3

\* The store becomes the batch; the batch goes to the column or is lost.
LEMMA ColumnBatch ==
  ASSUME TypeOK, ColumnInv, BatchStep
  PROVE  ColumnInv'
<1>1. PICK S \in SUBSET Changes, T \in SUBSET Changes : Held(S, T)
  BY DEF ColumnInv
<1>2. UNCHANGED <<save, change>> /\ Done' = Done
  BY DEF BatchStep, TakeStore, WriteBatch, Done
<1>3. CASE TakeStore
  <2>1. db' = db /\ taken' = store /\ store' = 0
    BY <1>3 DEF TakeStore
  <2>2. Done \ (S \cup T) \subseteq Done \ ({} \cup S)
    OBVIOUS
  <2>3. Held({}, S)'
    BY <1>1, <1>2, <2>1, <2>2, Sums, MadeOf DEF Held
  <2>4. {} \in SUBSET Changes
    OBVIOUS
  <2> QED BY <2>3, <2>4 DEF ColumnInv
<1>4. CASE WriteBatch
  <2>1. store' = store /\ taken' = 0 /\ db' \in {db, db + taken}
    BY <1>4 DEF WriteBatch
  <2>2. PICK D \in SUBSET Changes : D = Done \ (S \cup T)
    BY DEF Done
  <2>3. D \cap T = {} /\ Made(db, D) /\ Done \ (S \cup {}) = D \cup T
    BY <1>1, <2>2 DEF Held
  <2>4. Made(db + Sum(T), D \cup T) /\ Made(db, D \cup T)
    BY <2>3, MadeJoin, MadeOf
  <2>5. Made(db', Done \ (S \cup {}))
    BY <1>1, <2>1, <2>3, <2>4 DEF Held
  <2>6. save.next # "idle" => Made(save.loaded, Done \ (S \cup {}))
    BY <1>1, <2>2, <2>3, MadeOf DEF Held
  <2>7. Held(S, {})'
    BY <1>1, <1>2, <2>1, <2>5, <2>6, Sums DEF Held
  <2>8. {} \in SUBSET Changes
    OBVIOUS
  <2> QED BY <2>7, <2>8 DEF ColumnInv
<1> QED BY <1>3, <1>4 DEF BatchStep

\* An override is a new base.
LEMMA ColumnOverride ==
  ASSUME TypeOK, ColumnInv, NEW q \in Overrides, Override(q)
  PROVE  ColumnInv'
<1>1. PICK S \in SUBSET Changes, T \in SUBSET Changes : Held(S, T)
  BY DEF ColumnInv
<1>2. UNCHANGED <<store, taken, save, change>> /\ Done' = Done /\ db' = q
  BY DEF Override, Done
<1>3. Made(q, Done \ (S \cup T))
  BY MadeBase DEF Bases
<1>4. Held(S, T)'
  BY <1>1, <1>2, <1>3 DEF Held
<1> QED BY <1>4 DEF ColumnInv

\* After a restart every call and every goroutine that was under way has ended.
LEMMA CrashEnds ==
  ASSUME TypeOK, Crash
  PROVE  Done \subseteq Done' /\ Applied \subseteq Applied'
<1>1. \A c \in Changes : change'[c] = IF change[c].db = "new" THEN change[c]
                          ELSE [change[c] EXCEPT !.db = "done", !.redis = "done"]
  BY DEF Crash
<1>2. \A c \in Changes : /\ change[c].db = "done" => change'[c].db = "done"
                         /\ change[c].redis = "done" => change'[c].redis = "done"
  <2> SUFFICES ASSUME NEW c \in Changes
               PROVE  /\ change[c].db = "done" => change'[c].db = "done"
                      /\ change[c].redis = "done" => change'[c].redis = "done"
    OBVIOUS
  <2>1. change[c] \in [db : {"new", "write", "done"}, redis : {"none", "ttl", "incr", "done"}]
    BY DEF TypeOK
  <2>2. /\ [change[c] EXCEPT !.db = "done", !.redis = "done"].db = "done"
        /\ [change[c] EXCEPT !.db = "done", !.redis = "done"].redis = "done"
    BY <2>1
  <2>3. change'[c] \in {change[c], [change[c] EXCEPT !.db = "done", !.redis = "done"]}
    BY <1>1
  <2> QED BY <2>2, <2>3
<1> QED BY <1>2 DEF Done, Applied

\* A restart drops the store, the batch and the save.
LEMMA ColumnCrash ==
  ASSUME TypeOK, ColumnInv, Crash
  PROVE  ColumnInv'
<1>1. PICK S \in SUBSET Changes, T \in SUBSET Changes : Held(S, T)
  BY DEF ColumnInv
<1>2. store' = 0 /\ taken' = 0 /\ db' = db /\ save'.next = "idle"
  BY DEF Crash, NoSave
<1>3. Done \ (S \cup T) \subseteq Done' \ ({} \cup {})
  BY CrashEnds
<1>4. Made(db', Done' \ ({} \cup {}))
  BY <1>1, <1>2, <1>3, MadeOf DEF Held
<1>5. Held({}, {})'
  BY <1>2, <1>4, Sums DEF Held
<1>6. {} \in SUBSET Changes
  OBVIOUS
<1> QED BY <1>5, <1>6 DEF ColumnInv
-----------------------------------------------------------------------------
\* A column is a copy of itself, and so is what a save has loaded.
LEMMA ColumnMade ==
  ASSUME ColumnInv
  PROVE  Made(db, Changes) /\ (save.next # "idle" => Made(save.loaded, Changes))
<1>1. PICK S \in SUBSET Changes, T \in SUBSET Changes : Held(S, T)
  BY DEF ColumnInv
<1>2. Done \ (S \cup T) \subseteq Changes
  BY DEF Done
<1> QED BY <1>1, <1>2, MadeOf DEF Held

\* Steps of a reader.
LEMMA CopyReader ==
  ASSUME TypeOK, ColumnInv, CopyInv, NEW r \in Readers, Miss(r) \/ ReaderStep(r)
  PROVE  CopyInv'
<1>1. reader \in [Readers -> [next : {"idle", "read", "set"}, quota : Int]]
  BY DEF TypeOK
<1>2. UNCHANGED save
  BY DEF Miss, ReaderStep, ReadDb, SetHash
<1>3. \E x : reader' = [reader EXCEPT ![r] = x] /\ (x.next = "set" => Made(x.quota, Changes))
  <2>1. CASE Miss(r)
    <3>1. reader' = [reader EXCEPT ![r] = [reader[r] EXCEPT !.next = "read"]]
      BY <2>1 DEF Miss
    <3>2. [reader[r] EXCEPT !.next = "read"].next = "read"
      BY <1>1
    <3> QED BY <3>1, <3>2
  <2>2. CASE ReadDb(r)
    <3>1. \/ reader' = [reader EXCEPT ![r] = [next |-> "set", quota |-> db]]
          \/ reader' = [reader EXCEPT ![r] = NoReader]
      BY <2>2 DEF ReadDb
    <3>2. Made([next |-> "set", quota |-> db].quota, Changes) /\ NoReader.next # "set"
      BY ColumnMade DEF NoReader
    <3> QED BY <3>1, <3>2
  <2>3. CASE SetHash(r)
    <3>1. reader' = [reader EXCEPT ![r] = NoReader] /\ NoReader.next # "set"
      BY <2>3 DEF SetHash, NoReader
    <3> QED BY <3>1
  <2> QED BY <2>1, <2>2, <2>3 DEF ReaderStep
<1>4. \A q \in Readers : reader'[q].next = "set" => Made(reader'[q].quota, Changes)
  BY <1>1, <1>3 DEF CopyInv
<1> QED BY <1>2, <1>4 DEF CopyInv

\* Steps of a save.
LEMMA CopySave ==
  ASSUME TypeOK, ColumnInv, CopyInv, SaveStep \/ (\E k \in SaveKinds : LoadUser(k))
  PROVE  CopyInv'
<1>1. save \in [next : {"idle", "first", "write", "set"}, kind : {"update", "edit"},
                loaded : Int, quota : Int]
  BY DEF TypeOK
<1>2. UNCHANGED reader
  BY DEF SaveStep, ReloadUser, UpdateUser, CacheUser, LoadUser
<1>3. save'.next \in {"write", "set"} => Made(save'.quota, Changes)
  <2>1. ASSUME NEW k \in SaveKinds, LoadUser(k) PROVE save'.next = "first"
    BY <2>1 DEF LoadUser
  <2>2. CASE ReloadUser
    <3>1. save'.quota = db
      BY <1>1, <2>2 DEF ReloadUser
    <3> QED BY <3>1, ColumnMade
  <2>3. CASE UpdateUser
    <3>1. /\ save.next = "write"
          /\ \/ save' = [save EXCEPT !.next = "set", !.quota = IF WritesQuota THEN save.loaded ELSE @]
             \/ save' = NoSave
      BY <2>3 DEF UpdateUser
    <3>2. save'.next = "idle" \/ save'.quota \in {save.loaded, save.quota}
      <4>1. /\ [save EXCEPT !.next = "set", !.quota = IF WritesQuota THEN save.loaded ELSE @].quota
                    \in {save.loaded, save.quota}
            /\ NoSave.next = "idle"
        BY <1>1 DEF NoSave
      <4> QED BY <3>1, <4>1
    <3> QED BY <3>1, <3>2, ColumnMade DEF CopyInv
  <2>4. CASE CacheUser
    BY <2>4 DEF CacheUser, NoSave
  <2> QED BY <2>1, <2>2, <2>3, <2>4 DEF SaveStep
<1> QED BY <1>2, <1>3 DEF CopyInv

\* The hash stays, expires or is stored anew.
LEMMA HashStored ==
  ASSUME HashInv,
         \/ UNCHANGED cache /\ Applied \subseteq Applied'
         \/ cache' = NoHash
         \/ \E q : cache' = Hash(q) /\ Made(q, Changes)
  PROVE  HashInv'
<1>1. CASE UNCHANGED cache /\ Applied \subseteq Applied'
  BY <1>1 DEF HashInv
<1>2. CASE cache' = NoHash
  BY <1>2 DEF HashInv, NoHash
<1>3. ASSUME NEW q, cache' = Hash(q), Made(q, Changes) PROVE HashInv'
  <2>1. PICK base \in Bases, X \in SUBSET Changes : q = base + Sum(X)
    BY <1>3 DEF Made
  <2>2. PICK a \in Int : a = Sum(X)
    BY Sums
  <2>3. a + 0 = a
    OBVIOUS
  <2>4. q = base + (Sum(X) + Sum({}))
    BY <2>1, <2>2, <2>3, Sums
  <2>5. cache'.kind = "full" /\ cache'.quota = q
    BY <1>3 DEF Hash
  <2>6. {} \in SUBSET Applied'
    OBVIOUS
  <2> QED BY <2>1, <2>4, <2>5, <2>6 DEF HashInv
<1> QED BY <1>1, <1>2, <1>3

\* HINCRBY adds a change that the hash has not been given before.
LEMMA HashIncremented ==
  ASSUME TypeOK, HashInv, NEW c \in Changes, HIncrBy(c)
  PROVE  HashInv'
<1>1. change' = [change EXCEPT ![c].redis = "done"] /\ c \notin Applied
  BY DEF HIncrBy, Incremented, Applied
<1>2. Applied' = Applied \cup {c} /\ Applied \subseteq Changes
  BY <1>1, GoroutineMoves DEF Applied
<1>3. CASE UNCHANGED cache
  BY <1>2, <1>3, HashStored
<1>4. CASE ~UNCHANGED cache
  <2>1. cache' = [kind  |-> IF cache = NoHash THEN "partial" ELSE cache.kind,
                  quota |-> cache.quota + Amount[c]]
    BY <1>4 DEF HIncrBy
  <2>2. /\ cache'.kind = IF cache = NoHash THEN "partial" ELSE cache.kind
        /\ cache'.quota = cache.quota + Amount[c]
    BY <2>1
  <2>3. /\ cache.kind \in {"none", "full", "partial"} /\ cache.quota \in Int /\ Amount[c] \in Int
        /\ cache.kind = "none" => cache = NoHash
    BY QuotaAssumption DEF TypeOK, Hashes, HashInv, NoHash
  <2>4. \A Y \in SUBSET Applied : /\ Y \cup {c} \in SUBSET Applied'
                                  /\ Sum(Y) \in Int
                                  /\ Sum(Y \cup {c}) = Sum(Y) + Amount[c]
    BY <1>1, <1>2, Sums
  <2>5. CASE cache.kind = "none"
    <3>1. cache'.kind = "partial" /\ cache'.quota = 0 + Amount[c]
      BY <2>2, <2>3, <2>5 DEF HashInv
    <3>2. {} \in SUBSET Applied
      OBVIOUS
    <3>3. cache'.quota = Sum({} \cup {c})
      BY <2>4, <3>1, <3>2, Sums
    <3> QED BY <2>4, <3>1, <3>2, <3>3 DEF HashInv
  <2>6. CASE cache.kind = "partial"
    <3>1. PICK Y \in SUBSET Applied : cache.quota = Sum(Y)
      BY <2>6 DEF HashInv
    <3>2. cache'.kind = "partial"
      BY <2>2, <2>6
    <3>3. cache'.quota = Sum(Y \cup {c})
      BY <2>2, <2>4, <3>1
    <3> QED BY <2>4, <3>2, <3>3 DEF HashInv
  <2>7. CASE cache.kind = "full"
    <3>1. PICK base \in Bases, X \in SUBSET Changes, Y \in SUBSET Applied :
              cache.quota = base + (Sum(X) + Sum(Y))
      BY <2>7 DEF HashInv
    <3>2. cache'.kind = "full"
      BY <2>2, <2>7 DEF NoHash
    <3>3. PICK u \in Int, a \in Int, b \in Int, v \in Int :
              u = base /\ a = Sum(X) /\ b = Sum(Y) /\ v = Amount[c]
      BY <2>3, <2>4, Sums, QuotaAssumption DEF Bases
    <3>4. cache'.quota = (u + (a + b)) + v /\ Sum(Y \cup {c}) = b + v
      BY <2>2, <2>4, <3>1, <3>3
    <3>5. (u + (a + b)) + v = u + (a + (b + v))
      OBVIOUS
    <3>6. cache'.quota = base + (Sum(X) + Sum(Y \cup {c}))
      BY <3>3, <3>4, <3>5
    <3> QED BY <2>4, <3>2, <3>6 DEF HashInv
  <2> QED BY <2>3, <2>5, <2>6, <2>7
<1> QED BY <1>3, <1>4

\* The two legs of a change start together.
LegsInv == \A c \in Changes : change[c].db = "new" => change[c].redis = "none"

\* A leg that moves leaves new changes alone.
LEMMA LegsCorrect == Spec => []LegsInv
<1>1. Init => LegsInv
  BY DEF Init, NewChange, LegsInv
<1>2. ASSUME TypeOK, LegsInv, [Next]_vars PROVE LegsInv'
  <2> USE <1>2
  <2>1. CASE UNCHANGED change
    BY <2>1 DEF LegsInv
  <2>2. ASSUME NEW c \in Changes, Call(c) \/ ChangeStep(c) PROVE LegsInv'
    <3>1. \A d \in Changes \ {c} : change'[d] = change[d]
      BY <2>2 DEF TypeOK, Call, ChangeStep, AddRecord, WriteDb, TakesEffect, WriteDbFails,
                  CheckTTL, HIncrBy, Incremented
    <3>2. change[c].redis # "none" => change[c].db # "new"
      BY DEF LegsInv
    <3>3. CASE Call(c)
      BY <3>1, <3>3 DEF Call, TypeOK, LegsInv
    <3>4. CASE AddRecord(c) \/ WriteDb(c) \/ WriteDbFails(c)
      <4>1. change'[c].db = "done"
        BY <3>4 DEF TypeOK, AddRecord, WriteDb, TakesEffect, WriteDbFails
      <4> QED BY <3>1, <4>1 DEF LegsInv
    <3>5. CASE CheckTTL(c) \/ HIncrBy(c)
      <4>1. change'[c].db = change[c].db /\ change[c].redis # "none"
        BY <3>5 DEF TypeOK, CheckTTL, HIncrBy, Incremented
      <4> QED BY <3>1, <3>2, <4>1 DEF LegsInv
    <3> QED BY <2>2, <3>3, <3>4, <3>5 DEF ChangeStep
  <2>3. CASE Crash
    <3>1. \A c \in Changes : change'[c] = IF change[c].db = "new" THEN change[c]
                              ELSE [change[c] EXCEPT !.db = "done", !.redis = "done"]
      BY <2>3 DEF Crash
    <3>2. \A c \in Changes : [change[c] EXCEPT !.db = "done", !.redis = "done"].db = "done"
      BY DEF TypeOK
    <3> QED BY <3>1, <3>2 DEF LegsInv
  <2>4. CASE ~(UNCHANGED change) /\ ~Crash
    BY <2>2, <2>4 DEF Next, vars, Miss, ReaderStep, ReadDb, SetHash, LoadUser, SaveStep,
       ReloadUser, UpdateUser, CacheUser, BatchStep, TakeStore, WriteBatch, Evict, Override
  <2> QED BY <2>1, <2>3, <2>4
<1>3. Spec => []TypeOK
  BY BooksCorrect, PTL
<1> QED BY <1>1, <1>2, <1>3, PTL DEF Spec

\* A change: its call, its database leg and its Redis leg.
LEMMA DriftChange ==
  ASSUME TypeOK, LegsInv, DriftInv, NEW c \in Changes, Call(c) \/ ChangeStep(c)
  PROVE  DriftInv'
<1>1. UNCHANGED <<save, reader>>
  BY DEF Call, ChangeStep, AddRecord, WriteDb, TakesEffect, WriteDbFails, CheckTTL, HIncrBy
<1>2. CopyInv'
  BY <1>1 DEF DriftInv, CopyInv
<1>3. CASE Call(c)
  <2>1. /\ UNCHANGED <<db, store, taken, cache>> /\ change[c].db = "new"
        /\ change' = [change EXCEPT ![c] = [db |-> "write", redis |-> "ttl"]]
    BY <1>3 DEF Call
  <2>2. \A d \in Changes \ {c} : change'[d] = change[d]
    BY <2>1 DEF TypeOK
  <2>3. Done \subseteq Done'
    BY <2>1, <2>2 DEF Done
  <2>4. ColumnInv'
    BY <1>1, <2>1, <2>3, ColumnStays DEF DriftInv
  <2>5. HashInv'
    <3>1. c \notin Applied
      BY <2>1 DEF LegsInv, Applied
    <3>2. Applied \subseteq Applied'
      BY <2>2, <3>1 DEF Applied
    <3> QED BY <2>1, <3>2, HashStored DEF DriftInv
  <2> QED BY <1>2, <2>4, <2>5 DEF DriftInv
<1>4. CASE AddRecord(c) \/ WriteDb(c)
  <2>1. UNCHANGED cache /\ Applied' = Applied
    BY <1>4, CallEnds DEF AddRecord, WriteDb, TakesEffect
  <2> QED BY <1>2, <1>4, <2>1, ColumnAdd, ColumnWrite, HashStored DEF DriftInv
<1>5. CASE WriteDbFails(c)
  <2>1. UNCHANGED <<db, store, taken, cache>> /\ Applied' = Applied /\ Done \subseteq Done'
    BY <1>5, CallEnds DEF WriteDbFails
  <2> QED BY <1>1, <1>2, <2>1, ColumnStays, HashStored DEF DriftInv
<1>6. CASE CheckTTL(c)
  <2>1. PICK next : change' = [change EXCEPT ![c].redis = next]
    BY <1>6 DEF CheckTTL
  <2>2. UNCHANGED <<db, store, taken, cache>> /\ c \notin Applied
    BY <1>6 DEF CheckTTL, Applied
  <2>3. Done' = Done /\ Applied \subseteq Applied'
    BY <2>1, <2>2, GoroutineMoves
  <2> QED BY <1>1, <1>2, <2>2, <2>3, ColumnStays, HashStored DEF DriftInv
<1>7. CASE HIncrBy(c)
  <2>1. UNCHANGED <<db, store, taken>> /\ Done' = Done
    BY <1>7, GoroutineMoves DEF HIncrBy, Incremented
  <2> QED BY <1>1, <1>2, <1>7, <2>1, ColumnStays, HashIncremented DEF DriftInv
<1> QED BY <1>3, <1>4, <1>5, <1>6, <1>7 DEF ChangeStep

\* A reader.
LEMMA DriftReader ==
  ASSUME TypeOK, DriftInv, NEW r \in Readers, Miss(r) \/ ReaderStep(r)
  PROVE  DriftInv'
<1>1. UNCHANGED <<db, store, taken, change, save>>
  BY DEF Miss, ReaderStep, ReadDb, SetHash
<1>2. Done' = Done /\ Applied' = Applied
  BY <1>1 DEF Done, Applied
<1>3. UNCHANGED cache \/ \E q : cache' = Hash(q) /\ Made(q, Changes)
  BY DEF Miss, ReaderStep, ReadDb, SetHash, DriftInv, CopyInv
<1> QED BY <1>1, <1>2, <1>3, ColumnStays, CopyReader, HashStored DEF DriftInv

\* A profile save.
LEMMA DriftSave ==
  ASSUME TypeOK, DriftInv, SaveStep \/ (\E k \in SaveKinds : LoadUser(k))
  PROVE  DriftInv'
<1>1. UNCHANGED <<store, taken, change>>
  BY DEF SaveStep, ReloadUser, UpdateUser, CacheUser, LoadUser
<1>2. Done' = Done /\ Applied' = Applied
  BY <1>1 DEF Done, Applied
<1>3. UNCHANGED cache \/ \E q : cache' = Hash(q) /\ Made(q, Changes)
  BY DEF SaveStep, ReloadUser, UpdateUser, CacheUser, LoadUser, DriftInv, CopyInv
<1>4. CASE ~UpdateUser
  <2>1. UNCHANGED db
    BY <1>4 DEF SaveStep, ReloadUser, CacheUser, LoadUser
  <2>2. \/ save'.next = "idle" \/ save'.loaded = db
        \/ save.next # "idle" /\ save'.loaded = save.loaded
    <3>1. save \in [next : {"idle", "first", "write", "set"}, kind : {"update", "edit"},
                    loaded : Int, quota : Int]
      BY DEF TypeOK
    <3>2. [save EXCEPT !.next = "write", !.quota = db].loaded = save.loaded
      BY <3>1
    <3>3. CASE ReloadUser
      BY <3>2, <3>3 DEF ReloadUser
    <3>4. CASE CacheUser
      BY <3>4 DEF CacheUser, NoSave
    <3>5. ASSUME NEW k \in SaveKinds, LoadUser(k) PROVE save'.loaded = db
      BY <3>5 DEF LoadUser
    <3> QED BY <1>4, <3>3, <3>4, <3>5 DEF SaveStep
  <2>3. ColumnInv'
    BY <1>1, <1>2, <2>1, <2>2, ColumnStays DEF DriftInv
  <2> QED BY <1>2, <1>3, <2>3, CopySave, HashStored DEF DriftInv
<1> QED BY <1>2, <1>3, <1>4, ColumnUpdate, CopySave, HashStored DEF DriftInv

\* Batches, evictions, overrides and restarts.
LEMMA DriftOthers ==
  ASSUME TypeOK, DriftInv, BatchStep \/ Evict \/ Crash \/ (\E q \in Overrides : Override(q))
  PROVE  DriftInv'
<1>1. CASE BatchStep
  <2>1. UNCHANGED <<cache, change, reader, save>>
    BY <1>1 DEF BatchStep, TakeStore, WriteBatch
  <2>2. Applied' = Applied
    BY <2>1 DEF Applied
  <2>3. CopyInv'
    BY <2>1 DEF DriftInv, CopyInv
  <2> QED BY <1>1, <2>1, <2>2, <2>3, ColumnBatch, HashStored DEF DriftInv
<1>2. CASE Evict
  <2>1. UNCHANGED <<db, store, taken, change, reader, save>> /\ cache' = NoHash
    BY <1>2 DEF Evict
  <2>2. Done' = Done
    BY <2>1 DEF Done
  <2>3. CopyInv'
    BY <2>1 DEF DriftInv, CopyInv
  <2> QED BY <2>1, <2>2, <2>3, ColumnStays, HashStored DEF DriftInv
<1>3. CASE Crash
  <2>1. UNCHANGED cache /\ save' = NoSave /\ reader' = [r \in Readers |-> NoReader]
    BY <1>3, Zenon DEF Crash
  <2>2. CopyInv'
    BY <2>1 DEF CopyInv, NoSave, NoReader
  <2> QED BY <1>3, <2>1, <2>2, ColumnCrash, CrashEnds, HashStored DEF DriftInv
<1>4. ASSUME NEW q \in Overrides, Override(q) PROVE DriftInv'
  <2>1. UNCHANGED <<cache, change, reader, save>>
    BY <1>4 DEF Override
  <2>2. Applied' = Applied
    BY <2>1 DEF Applied
  <2>3. CopyInv'
    BY <2>1 DEF DriftInv, CopyInv
  <2> QED BY <1>4, <2>1, <2>2, <2>3, ColumnOverride, HashStored DEF DriftInv
<1> QED BY <1>1, <1>2, <1>3, <1>4

\* Nothing has happened yet.
LEMMA DriftInit == Init => DriftInv
<1> SUFFICES ASSUME Init PROVE DriftInv
  OBVIOUS
<1>1. ColumnInv
  <2>1. Made(db, Done \ ({} \cup {}))
    BY MadeBase DEF Init, Bases
  <2>2. Held({}, {})
    BY <2>1, Sums DEF Init, NoSave, Held
  <2>3. {} \in SUBSET Changes
    OBVIOUS
  <2> QED BY <2>2, <2>3 DEF ColumnInv
<1>2. CopyInv
  BY DEF Init, CopyInv, NoSave, NoReader
<1>3. HashInv
  BY DEF Init, HashInv, NoHash
<1> QED BY <1>1, <1>2, <1>3 DEF DriftInv

\* Some changes once and some once more: how often each is counted.
LEMMA Counted ==
  ASSUME NEW X \in SUBSET Changes, NEW Y \in SUBSET Changes
  PROVE  \E times \in [Changes -> 0..2] :
            /\ Total(times) = Sum(X) + Sum(Y)
            /\ X = {} => times \in [Changes -> 0..1]
<1> DEFINE In(Z) == [c \in Changes |-> IF c \in Z THEN Amount[c] ELSE 0]
           times == [c \in Changes |-> (IF c \in X THEN 1 ELSE 0) + (IF c \in Y THEN 1 ELSE 0)]
           h == [c \in Changes |-> times[c] * Amount[c]]
<1>1. IsFiniteSet(Changes) /\ \A c \in Changes : Amount[c] \in Int
  BY QuotaAssumption
<1>2. ASSUME NEW Z \in SUBSET Changes
      PROVE  Summable(In(Z), Changes) /\ SumFunctionOnSet(In(Z), Changes) = Sum(Z)
  <2>1. Summable(In(Z), Changes)
    BY <1>1 DEF Summable
  <2>2. (\A c \in Z : In(Z)[c] = Amount[c]) /\ \A c \in Changes \ Z : In(Z)[c] = 0
    OBVIOUS
  <2> HIDE DEF In
  <2>3. SumFunctionOnSet(In(Z), Changes) = SumFunctionOnSet(Amount, Z)
    BY <2>1, <2>2, SumFilter
  <2> QED BY <2>1, <2>3 DEF Sum
<1>3. \A c \in Changes : h[c] = In(X)[c] + In(Y)[c]
  <2> SUFFICES ASSUME NEW c \in Changes PROVE h[c] = In(X)[c] + In(Y)[c]
    OBVIOUS
  <2>1. PICK v \in Int : v = Amount[c]
    BY <1>1
  <2>2. h[c] = times[c] * v
    BY <2>1
  <2>3. CASE c \in X /\ c \in Y
    BY <2>1, <2>2, <2>3
  <2>4. CASE c \in X /\ c \notin Y
    BY <2>1, <2>2, <2>4
  <2>5. CASE c \notin X /\ c \in Y
    BY <2>1, <2>2, <2>5
  <2>6. CASE c \notin X /\ c \notin Y
    BY <2>1, <2>2, <2>6
  <2> QED BY <2>3, <2>4, <2>5, <2>6
<1>4. SumFunctionOnSet(h, Changes) = Sum(X) + Sum(Y)
  <2>1. /\ Summable(In(X), Changes) /\ SumFunctionOnSet(In(X), Changes) = Sum(X)
        /\ Summable(In(Y), Changes) /\ SumFunctionOnSet(In(Y), Changes) = Sum(Y)
    BY <1>2
  <2> HIDE DEF In, h
  <2>2. SumFunctionOnSet(h, Changes)
            = SumFunctionOnSet(In(X), Changes) + SumFunctionOnSet(In(Y), Changes)
    BY <1>3, <2>1, SumPlus
  <2> QED BY <2>1, <2>2
<1>5. Total(times) = Sum(X) + Sum(Y)
  BY <1>4 DEF Total
<1>6. times \in [Changes -> 0..2] /\ (X = {} => times \in [Changes -> 0..1])
  OBVIOUS
<1> HIDE DEF times
<1> QED BY <1>5, <1>6

\* What the invariant says of the cache.
LEMMA DriftMeans == DriftInv => DriftBounded
<1> SUFFICES ASSUME HashInv PROVE DriftBounded
  BY DEF DriftInv
<1>0. Applied \subseteq Changes
  BY DEF Applied
<1>1. ASSUME cache.kind = "full"
      PROVE  \E base \in {Quota0} \cup Overrides, times \in [Changes -> 0..2] :
                cache.quota = base + Total(times)
  <2>1. PICK base \in Bases, X \in SUBSET Changes, Y \in SUBSET Applied :
            cache.quota = base + (Sum(X) + Sum(Y))
    BY <1>1 DEF HashInv
  <2>2. PICK times \in [Changes -> 0..2] : Total(times) = Sum(X) + Sum(Y)
    BY <1>0, Counted
  <2> QED BY <2>1, <2>2 DEF Bases
<1>2. ASSUME cache.kind = "partial"
      PROVE  \E times \in [Changes -> 0..1] : cache.quota = Total(times)
  <2>1. PICK Y \in SUBSET Applied : cache.quota = Sum(Y)
    BY <1>2 DEF HashInv
  <2>2. {} \in SUBSET Changes /\ Y \in SUBSET Changes
    BY <1>0
  <2>3. PICK times \in [Changes -> 0..1] : Total(times) = Sum({}) + Sum(Y)
    BY <2>2, Counted
  <2>4. Sum(Y) \in Int /\ Sum({}) = 0
    BY <2>2, Sums
  <2>5. Total(times) = Sum(Y)
    BY <2>3, <2>4
  <2> QED BY <2>1, <2>5
<1> QED BY <1>1, <1>2 DEF DriftBounded

\* For any changes and readers, whatever fails, expires, restarts or is overridden: a
\* complete hash in Redis counts no change more than twice, an incomplete one none more
\* than once.
THEOREM DriftCorrect == Spec => []DriftBounded
<1>1. ASSUME TypeOK, LegsInv, DriftInv, [Next]_vars PROVE DriftInv'
  <2>1. CASE UNCHANGED vars
    <3>1. Done' = Done /\ Applied' = Applied
      BY <2>1 DEF vars, Done, Applied
    <3>2. ColumnInv' /\ HashInv'
      BY <1>1, <2>1, <3>1, ColumnStays, HashStored DEF vars, DriftInv
    <3>3. CopyInv'
      BY <1>1, <2>1 DEF vars, DriftInv, CopyInv
    <3> QED BY <3>2, <3>3 DEF DriftInv
  <2>2. CASE Next
    BY <1>1, <2>2, DriftChange, DriftReader, DriftSave, DriftOthers DEF Next
  <2> QED BY <1>1, <2>1, <2>2
<1>2. Spec => []TypeOK
  BY BooksCorrect, PTL
<1> QED BY DriftInit, DriftMeans, LegsCorrect, <1>1, <1>2, PTL DEF Spec
=============================================================================
