-------------------------- MODULE ModelTestProofs --------------------------
(***************************************************************************)
(* The model test dialog, for any channels, models, search results and     *)
(* concurrency limit: its batches never have more than concurrencyLimit    *)
(* tests in flight, a stopped batch sends nothing more, and when nothing   *)
(* is left to happen the dialog is idle.                                   *)
(***************************************************************************)
EXTENDS ModelTest, FiniteSetTheorems, WellFoundedInduction, TLAPS

\* At most one batch runs, batchTestingActiveRef tells whether one does, the dialog's flags
\* are set only while it does, and what is shown as being tested is in flight.
BatchInv ==
    /\ \A b1, b2 \in Running : b1 = b2
    /\ active <=> Running # {}
    /\ isBatchTesting => active
    /\ batchStopRequested => isBatchTesting
    /\ \A b \in Batches : batch[b].pc # "group" => batch[b].flight = {}
    /\ \A b \in Batches : Cardinality(batch[b].flight) <= Limit
    /\ \A m \in testing : \/ \E s \in single : s[2] = m
                          \/ \E b \in Running : m \in batch[b].flight

BatchType == [pc : {"idle", "group", "pause", "final"}, channel : Channels \union {NoChannel},
              list : SUBSET Models, todo : SUBSET Models, flight : SUBSET Models,
              completed : Nat, success : Nat]

-----------------------------------------------------------------------------
(* Sets of models.                                                         *)

\* A set of models is finite, and its size is a number.
LEMMA ModelSets ==
  ASSUME NEW S \in SUBSET Models
  PROVE  IsFiniteSet(S) /\ Cardinality(S) \in Nat
<1>1. IsFiniteSet(Models)
  BY TestAssumption, FS_Interval DEF Models
<1>2. IsFiniteSet(S)
  BY <1>1, FS_Subset
<1> QED
  BY <1>2, FS_CardinalityType

\* A subset of a set that keeps the limit keeps it too.
LEMMA SmallerBound ==
  ASSUME NEW S \in SUBSET Models, NEW T \in SUBSET S, Cardinality(S) <= Limit
  PROVE  Cardinality(T) <= Limit
<1>1. IsFiniteSet(S) /\ Cardinality(S) \in Nat /\ Cardinality(T) \in Nat
  BY ModelSets
<1>2. Cardinality(T) <= Cardinality(S)
  BY <1>1, FS_Subset
<1> QED
  BY <1>1, <1>2, TestAssumption

\* A set of models that is not empty has a last one.
LEMMA LastModel ==
  ASSUME NEW S \in SUBSET Models, S # {}
  PROVE  \E g \in S : \A m \in S : m <= g
<1> DEFINE T == {N - m : m \in S}
<1> DEFINE R == OpToRel(<, Nat)
<1>1. T \subseteq Nat /\ T # {}
  BY TestAssumption DEF Models
<1>2. IsWellFoundedOn(R, Nat)
  BY NatLessThanWellFounded
<1>3. PICK t \in T : \A u \in T : ~(<<u, t>> \in R)
  <2> HIDE DEF T, R
  <2> QED BY <1>1, <1>2, WFMin
<1>4. \A u \in T : ~(u < t)
  BY <1>1, <1>3 DEF OpToRel
<1>5. PICK g \in S : t = N - g
  BY <1>3
<1>6. \A m \in S : m <= g
  <2> TAKE m \in S
  <2>1. N - m \in T
    OBVIOUS
  <2>2. ~(N - m < N - g)
    BY <1>4, <1>5, <2>1
  <2> QED
    BY <2>2, TestAssumption DEF Models
<1> QED
  BY <1>6

\* A group has at most Limit models: its last one has at most Limit models up to it.
LEMMA GroupBound ==
  ASSUME NEW todo \in SUBSET Models
  PROVE  Cardinality(NextGroup(todo)) <= Limit
<1> DEFINE G == NextGroup(todo)
<1>1. G \in SUBSET Models
  BY DEF NextGroup
<1>2. CASE G = {}
  BY <1>2, FS_EmptySet, TestAssumption
<1>3. CASE G # {}
  <2>1. PICK g \in G : \A m \in G : m <= g
    <3> HIDE DEF G
    <3> QED BY <1>1, <1>3, LastModel
  <2> DEFINE U == {x \in todo : x <= g}
  <2>2. Cardinality(U) <= Limit
    BY <2>1 DEF NextGroup
  <2>3. G \subseteq U /\ U \subseteq Models
    BY <2>1 DEF NextGroup
  <2>4. Cardinality(G) <= Limit
    <3> HIDE DEF G, U
    <3> QED BY <2>2, <2>3, SmallerBound
  <2> QED
    BY <2>4
<1> QED
  BY <1>2, <1>3

-----------------------------------------------------------------------------
(* Types.                                                                  *)

\* Sending a group keeps the type of a batch and takes the group out of what is left.
LEMMA SentType ==
  ASSUME NEW bt \in BatchType, bt.todo \subseteq bt.list
  PROVE  /\ Sent(bt) \in BatchType
         /\ Sent(bt).pc = "group" /\ Sent(bt).channel = bt.channel
         /\ Sent(bt).flight = NextGroup(bt.todo)
         /\ Sent(bt).flight \union Sent(bt).todo \subseteq Sent(bt).list
<1>1. NextGroup(bt.todo) \subseteq bt.todo
  BY DEF NextGroup
<1> HIDE DEF NextGroup
<1> QED
  BY <1>1 DEF Sent, BatchType

\* An answer keeps the type of a batch.
LEMMA RepliedType ==
  ASSUME NEW bt \in BatchType, bt.flight \union bt.todo \subseteq bt.list, NEW m, NEW result
  PROVE  /\ Replied(bt, m, result) \in BatchType
         /\ Replied(bt, m, result).pc = bt.pc /\ Replied(bt, m, result).channel = bt.channel
         /\ Replied(bt, m, result).flight = bt.flight \ {m}
         /\ Replied(bt, m, result).flight \union Replied(bt, m, result).todo \subseteq Replied(bt, m, result).list
<1> DEFINE won == IF result = "ok" THEN 1 ELSE 0
<1>1. won \in Nat
  OBVIOUS
<1>2. Replied(bt, m, result) = [bt EXCEPT !.flight = @ \ {m}, !.completed = @ + 1, !.success = @ + won]
  BY DEF Replied
<1> HIDE DEF won
<1>3. bt.completed + 1 \in Nat /\ bt.success + won \in Nat /\ bt.flight \ {m} \in SUBSET Models
  BY <1>1 DEF BatchType
<1> DEFINE f == bt.flight \ {m}
           n == bt.completed + 1
           s == bt.success + won
           new == [bt EXCEPT !.flight = f, !.completed = n, !.success = s]
<1>4. f \in SUBSET Models /\ n \in Nat /\ s \in Nat /\ f \union bt.todo \subseteq bt.list
  BY <1>3
<1> HIDE DEF f, n, s
<1>5. /\ new \in BatchType /\ new.pc = bt.pc /\ new.channel = bt.channel
      /\ new.flight = f /\ new.todo = bt.todo /\ new.list = bt.list
  BY <1>4 DEF BatchType
<1>6. Replied(bt, m, result) = new
  BY <1>2 DEF f, n, s
<1> HIDE DEF new
<1> QED
  BY <1>4, <1>5, <1>6 DEF f

\* Everything has its type when the page is loaded.
LEMMA InitType == Init => TypeOK
<1> SUFFICES ASSUME Init PROVE TypeOK
  OBVIOUS
<1>1. NoBatch \in BatchType
  BY DEF NoBatch, BatchType
<1>2. \A b \in Batches : batch[b].flight \union batch[b].todo \subseteq batch[b].list
  BY DEF Init, NoBatch
<1>3. batch \in [Batches -> BatchType]
  BY <1>1 DEF Init
<1>4. progress \in [channel : Channels \union {NoChannel}, list : SUBSET Models, completed : Nat, success : Nat]
  BY DEF Init, NoProgress, Progress
<1>5. deletion \in [channel : Channels \union {NoChannel}, failed : SUBSET Models, remaining : SUBSET Models]
  BY DEF Init, NoDeletion
<1> QED
  BY <1>2, <1>3, <1>4, <1>5 DEF Init, TypeOK, BatchType

\* Every step keeps the types.
LEMMA TypeStep == ASSUME TypeOK, [Next]_vars PROVE TypeOK'
<1> DEFINE ProgressType == [channel : Channels \union {NoChannel}, list : SUBSET Models, completed : Nat, success : Nat]
<1> DEFINE BatchesOK == /\ batch \in [Batches -> BatchType]
                        /\ \A b \in Batches : batch[b].flight \union batch[b].todo \subseteq batch[b].list
<1>0. BatchesOK /\ progress \in ProgressType
  BY DEF TypeOK, BatchType
<1>a. NoBatch \in BatchType /\ NoBatch.flight \union NoBatch.todo \subseteq NoBatch.list
  BY DEF NoBatch, BatchType
<1>b. ASSUME NEW b \in Batches, NEW bt \in BatchType, bt.flight \union bt.todo \subseteq bt.list,
             batch' = [batch EXCEPT ![b] = bt]
      PROVE  BatchesOK'
  BY <1>0, <1>b
<1>c. BatchesOK' => /\ batch' \in [Batches -> [pc : {"idle", "group", "pause", "final"}, channel : Channels \union {NoChannel},
                             list : SUBSET Models, todo : SUBSET Models, flight : SUBSET Models,
                             completed : Nat, success : Nat]]
                    /\ \A b \in Batches : batch'[b].flight \union batch'[b].todo \subseteq batch'[b].list
  BY DEF BatchType
<1> HIDE DEF BatchesOK
<1>1. CASE \E c \in Channels : Open(c)
  BY <1>1 DEF Open, TypeOK, refs
<1>2. CASE HandleCloseModal
  BY <1>2 DEF HandleCloseModal, TypeOK, NoProgress, Progress
<1>3. CASE StopBatchTesting
  BY <1>3 DEF StopBatchTesting, TypeOK, history
<1>4. ASSUME NEW match \in Matches, BatchTestModels(match) PROVE TypeOK'
  <2> DEFINE b == begun + 1
             list == models[open] \intersect match
             start == [NoBatch EXCEPT !.channel = open, !.list = list, !.todo = list]
             bt == Sent(start)
  <2>1. open \in Channels /\ list \subseteq Models
    BY <1>4 DEF BatchTestModels, TypeOK
  <2>2. start \in BatchType /\ start.todo \subseteq start.list
    BY <2>1 DEF NoBatch, BatchType
  <2>3. /\ bt \in BatchType /\ bt.flight \union bt.todo \subseteq bt.list
    <3> HIDE DEF start
    <3> QED BY <2>2, SentType
  <2>4. bt.flight \subseteq Models
    BY <2>3 DEF BatchType
  <2> HIDE DEF bt
  <2>5. b \in Batches /\ batch' = [batch EXCEPT ![b] = bt] /\ testing' = testing \union bt.flight
    BY <1>4 DEF BatchTestModels, bt
  <2>6. BatchesOK'
    <3> HIDE DEF b
    <3> QED BY <2>3, <2>5, <1>b
  <2>7. progress' \in ProgressType
    BY <1>4, <2>1 DEF BatchTestModels, Progress
  <2>8. results' \in [Tests -> {"none", "ok", "fail"}] /\ begun' \in Nat
    BY <1>4 DEF BatchTestModels, TypeOK
  <2>9. UNCHANGED <<open, models, single, deletion, opens, singles>> /\ isBatchTesting' \in BOOLEAN
        /\ batchStopRequested' \in BOOLEAN /\ active' \in BOOLEAN /\ shouldStop' \in BOOLEAN /\ mixed' \in BOOLEAN
    BY <1>4 DEF BatchTestModels
  <2> QED
    BY <1>c, <2>4, <2>5, <2>6, <2>7, <2>8, <2>9 DEF TypeOK
<1>5. ASSUME NEW m \in Models, TestModel(m) PROVE TypeOK'
  <2>1. open \in Channels /\ singles + 1 \in 1..MaxSingles
    BY <1>5, BoundAssumption DEF TestModel, TypeOK
  <2>2. single' \subseteq Channels \X Models \X (1..MaxSingles)
    BY <1>5, <2>1 DEF TestModel, TypeOK
  <2> QED
    BY <1>5, <2>2 DEF TestModel, TypeOK, refs
<1>6. ASSUME NEW t \in Tests, NEW result \in {"ok", "fail"}, Answer(t[1], t[2], result) PROVE TypeOK'
  <2> DEFINE m == t[2]
  <2>1. UNCHANGED <<open, shouldStop, models, deletion, begun, opens, singles>>
        /\ testing' = testing \ {m} /\ single' \subseteq single /\ mixed' \in BOOLEAN
    BY <1>6 DEF Answer, TypeOK
  <2>2. results' \in [Tests -> {"none", "ok", "fail"}]
    BY <1>6 DEF Answer, TypeOK
  <2> DEFINE Reply(b) == Replied(batch[b], m, result)
  <2>3. CASE UNCHANGED <<batch, progress, isBatchTesting, batchStopRequested, active>>
    BY <2>1, <2>2, <2>3 DEF TypeOK
  <2>4. CASE \E b \in Running : BatchAnswer(b, Reply(b))
    <3>1. PICK b \in Running :
             IF Over(Reply(b)) THEN Settled(b, Reply(b))
             ELSE batch' = [batch EXCEPT ![b] = Reply(b)] /\ UNCHANGED <<progress, isBatchTesting, batchStopRequested, active>>
      BY <2>4, Zenon DEF BatchAnswer
    <3>2. b \in Batches
      BY DEF Running
    <3> DEFINE bt == Reply(b)
    <3>3. bt \in BatchType /\ bt.flight \union bt.todo \subseteq bt.list
      BY <1>0, <3>2, RepliedType DEF BatchesOK
    <3> HIDE DEF bt
    <3>4. CASE ~Over(bt)
      <4>1. batch' = [batch EXCEPT ![b] = bt] /\ UNCHANGED <<progress, isBatchTesting, batchStopRequested, active>>
        BY <3>1, <3>4 DEF bt
      <4> QED
        BY <1>b, <1>c, <2>1, <2>2, <3>2, <3>3, <4>1 DEF TypeOK
    <3>5. CASE Over(bt)
      <4>1. Settled(b, bt)
        BY <3>1, <3>5 DEF bt
      <4>2. progress' \in ProgressType
        BY <3>3, <4>1 DEF Settled, Progress, BatchType
      <4>3. isBatchTesting' \in BOOLEAN /\ batchStopRequested' \in BOOLEAN /\ active' \in BOOLEAN
        BY <4>1 DEF Settled, End, TypeOK
      <4>4. BatchesOK'
        <5>1. CASE shouldStop
          BY <1>a, <1>b, <3>2, <4>1, <5>1 DEF Settled, End
        <5>2. CASE ~shouldStop
          <6> DEFINE bs == [bt EXCEPT !.pc = IF bt.todo = {} THEN "final" ELSE "pause"]
          <6>1. bs \in BatchType /\ bs.flight \union bs.todo \subseteq bs.list
            BY <3>3 DEF BatchType
          <6>2. batch' = [batch EXCEPT ![b] = bs]
            BY <4>1, <5>2 DEF Settled
          <6> HIDE DEF bs
          <6> QED
            BY <1>b, <3>2, <6>1, <6>2
        <5> QED
          BY <5>1, <5>2
      <4> QED
        BY <1>c, <2>1, <2>2, <4>2, <4>3, <4>4 DEF TypeOK
    <3> QED
      BY <3>4, <3>5
  <2> QED
    BY <1>6, <2>3, <2>4, Zenon DEF Answer
<1>7. ASSUME NEW b \in Batches, PauseOver(b) PROVE TypeOK'
  <2>1. UNCHANGED <<open, progress, shouldStop, models, results, single, deletion, history>>
    BY <1>7 DEF PauseOver
  <2>2. CASE shouldStop
    <3>1. End(b) /\ UNCHANGED testing
      BY <1>7, <2>2 DEF PauseOver
    <3>2. BatchesOK'
      BY <1>a, <1>b, <3>1 DEF End
    <3> QED
      BY <1>c, <2>1, <3>1, <3>2 DEF TypeOK, End, history
  <2>3. CASE ~shouldStop
    <3> DEFINE bt == Sent(batch[b])
    <3>1. /\ batch' = [batch EXCEPT ![b] = bt] /\ testing' = testing \union bt.flight
          /\ UNCHANGED <<isBatchTesting, batchStopRequested, active>>
      BY <1>7, <2>3 DEF PauseOver
    <3>2. bt \in BatchType /\ bt.flight \union bt.todo \subseteq bt.list
      BY <1>0, SentType DEF BatchesOK
    <3>3. bt.flight \subseteq Models
      BY <3>2 DEF BatchType
    <3> HIDE DEF bt
    <3>4. BatchesOK'
      BY <1>b, <3>1, <3>2
    <3> QED
      BY <1>c, <2>1, <3>1, <3>3, <3>4 DEF TypeOK, history
  <2> QED
    BY <2>2, <2>3
<1>8. ASSUME NEW b \in Batches, FinalOver(b) PROVE TypeOK'
  <2>1. UNCHANGED <<open, testing, shouldStop, models, results, single, deletion, history>> /\ End(b)
    BY <1>8 DEF FinalOver
  <2>2. batch[b] \in BatchType /\ batch[b].list \in SUBSET Models
    BY <1>0 DEF BatchesOK, BatchType
  <2>3. Cardinality(batch[b].list) \in Nat
    BY <2>2, ModelSets
  <2>4. Count(batch[b]) \in Nat
    <3> DEFINE S == {m \in batch[b].list : results[<<batch[b].channel, m>>] = "ok"}
    <3>1. S \in SUBSET Models
      BY <2>2
    <3>2. Cardinality(S) \in Nat
      <4> HIDE DEF S
      <4> QED BY <3>1, ModelSets
    <3> QED
      BY <3>2 DEF Count
  <2>5. progress' \in ProgressType
    BY <1>8, <2>2, <2>3, <2>4 DEF FinalOver, Progress, BatchType
  <2>6. BatchesOK'
    BY <1>a, <1>b, <2>1 DEF End
  <2> QED
    BY <1>c, <2>1, <2>5, <2>6 DEF TypeOK, End, history
<1>9. ASSUME NEW match \in Matches, DeleteFailedModels(match) PROVE TypeOK'
  <2>1. open \in Channels /\ models[open] \in SUBSET Models
    BY <1>9 DEF DeleteFailedModels, TypeOK
  <2>2. deletion' \in [channel : Channels \union {NoChannel}, failed : SUBSET Models, remaining : SUBSET Models]
    BY <1>9, <2>1 DEF DeleteFailedModels
  <2>3. UNCHANGED <<dialog, models, results, refs, batch, single, history>>
    BY <1>9 DEF DeleteFailedModels
  <2> QED
    BY <2>2, <2>3 DEF TypeOK, dialog, refs, history
<1>10. ASSUME NEW ok \in BOOLEAN, DeletionEnds(ok) PROVE TypeOK'
  <2>1. UNCHANGED <<dialog, refs, batch, single, begun, opens, singles>>
    BY <1>10 DEF DeletionEnds
  <2>2. deletion' \in [channel : Channels \union {NoChannel}, failed : SUBSET Models, remaining : SUBSET Models]
    BY <1>10 DEF DeletionEnds, NoDeletion
  <2>3. models' \in [Channels -> SUBSET Models] /\ results' \in [Tests -> {"none", "ok", "fail"}] /\ mixed' \in BOOLEAN
    BY <1>10 DEF DeletionEnds, TypeOK
  <2> QED
    BY <2>1, <2>2, <2>3 DEF TypeOK, dialog, refs
<1>11. CASE UNCHANGED vars
  BY <1>11 DEF TypeOK, vars, dialog, refs, history
<1> QED
  BY <1>1, <1>2, <1>3, <1>4, <1>5, <1>6, <1>7, <1>8, <1>9, <1>10, <1>11 DEF Next

-----------------------------------------------------------------------------
(* The invariant.                                                          *)

\* Nothing runs when the page is loaded.
LEMMA InitBatch == Init => BatchInv
<1> SUFFICES ASSUME Init PROVE BatchInv
  OBVIOUS
<1>1. \A b \in Batches : batch[b].pc = "idle" /\ batch[b].flight = {}
  BY DEF Init, NoBatch
<1>2. Running = {}
  BY <1>1 DEF Running
<1>3. \A b \in Batches : Cardinality(batch[b].flight) <= Limit
  BY <1>1, FS_EmptySet, TestAssumption
<1> QED
  BY <1>1, <1>2, <1>3 DEF Init, BatchInv

\* What BatchInv says of the batches, and what a step to one batch does to it.
OneBatch ==
    /\ \A b1, b2 \in Running : b1 = b2
    /\ \A b \in Batches : batch[b].pc # "group" => batch[b].flight = {}
    /\ \A b \in Batches : Cardinality(batch[b].flight) <= Limit

\* A batch that goes on, or the first one, is the only one that runs.
LEMMA GoesOn ==
  ASSUME TypeOK, OneBatch, NEW b \in Batches, NEW bt, Running \subseteq {b},
         batch' = [batch EXCEPT ![b] = bt], bt.pc # "idle",
         bt.pc # "group" => bt.flight = {}, Cardinality(bt.flight) <= Limit
  PROVE  OneBatch' /\ Running' = {b} /\ batch'[b] = bt
<1>1. batch'[b] = bt /\ \A x \in Batches \ {b} : batch'[x] = batch[x]
  BY DEF TypeOK
<1>2. Running' = {b}
  BY <1>1 DEF Running
<1> QED
  BY <1>1, <1>2 DEF OneBatch

\* A batch that ends leaves none that runs.
LEMMA Ends ==
  ASSUME TypeOK, OneBatch, NEW b \in Batches, Running \subseteq {b}, End(b)
  PROVE  OneBatch' /\ Running' = {} /\ ~isBatchTesting' /\ ~batchStopRequested' /\ ~active'
<1>1. batch'[b] = NoBatch /\ \A x \in Batches \ {b} : batch'[x] = batch[x]
  BY DEF TypeOK, End
<1>2. Running' = {}
  BY <1>1 DEF Running, NoBatch
<1>3. Cardinality(batch'[b].flight) <= Limit /\ batch'[b].flight = {}
  BY <1>1, FS_EmptySet, TestAssumption DEF NoBatch
<1>4. OneBatch'
  BY <1>1, <1>2, <1>3 DEF OneBatch
<1> QED
  BY <1>2, <1>4 DEF End

\* Every step keeps the invariant.
LEMMA BatchStep == ASSUME TypeOK, BatchInv, [Next]_vars PROVE BatchInv'
<1> DEFINE Known(m) == \/ \E s \in single : s[2] = m
                       \/ \E b \in Running : m \in batch[b].flight
<1>0. OneBatch /\ \A m \in testing : Known(m)
  BY DEF BatchInv, OneBatch
<1>a. UNCHANGED batch => OneBatch' /\ Running' = Running
  BY <1>0 DEF OneBatch, Running
<1>1. CASE \E c \in Channels : Open(c)
  BY <1>a, <1>1 DEF Open, BatchInv, refs, OneBatch
<1>2. CASE HandleCloseModal
  BY <1>a, <1>2 DEF HandleCloseModal, BatchInv, OneBatch
<1>3. CASE StopBatchTesting
  BY <1>a, <1>3 DEF StopBatchTesting, BatchInv, OneBatch
<1>4. ASSUME NEW match \in Matches, BatchTestModels(match) PROVE BatchInv'
  <2> DEFINE b == begun + 1
             list == models[open] \intersect match
             start == [NoBatch EXCEPT !.channel = open, !.list = list, !.todo = list]
             bt == Sent(start)
  <2>1. open \in Channels /\ list \subseteq Models
    BY <1>4 DEF BatchTestModels, TypeOK
  <2>2. start \in BatchType /\ start.todo \subseteq start.list /\ start.todo \in SUBSET Models
    BY <2>1 DEF NoBatch, BatchType
  <2>3. bt.pc = "group" /\ bt.flight = NextGroup(start.todo)
    <3> HIDE DEF start
    <3> QED BY <2>2, SentType
  <2>4. Cardinality(bt.flight) <= Limit
    BY <2>2, <2>3, GroupBound
  <2> HIDE DEF bt
  <2>5. b \in Batches /\ batch' = [batch EXCEPT ![b] = bt] /\ testing' = testing \union bt.flight
    BY <1>4 DEF BatchTestModels, bt
  <2>6. Running = {}
    BY <1>4 DEF BatchTestModels, BatchInv
  <2> HIDE DEF b
  <2>7. OneBatch' /\ Running' = {b} /\ batch'[b] = bt
    BY <1>0, <2>3, <2>4, <2>5, <2>6, GoesOn
  <2>8. isBatchTesting' /\ ~batchStopRequested' /\ active' /\ UNCHANGED single
    BY <1>4 DEF BatchTestModels
  <2>9. \A m \in testing' : Known(m)'
    BY <1>0, <2>5, <2>6, <2>7, <2>8
  <2> QED
    BY <2>7, <2>8, <2>9 DEF BatchInv, OneBatch
<1>5. ASSUME NEW m \in Models, TestModel(m) PROVE BatchInv'
  <2>1. UNCHANGED <<batch, isBatchTesting, batchStopRequested, active>>
    BY <1>5 DEF TestModel, refs
  <2>2. single' = single \union {<<open, m, singles + 1>>} /\ testing' = testing \union {m} /\ open \in Channels
    BY <1>5 DEF TestModel, TypeOK
  <2> DEFINE new == <<open, m, singles + 1>>
  <2>3. new[2] = m /\ new \in single' /\ single \subseteq single'
    BY <2>2
  <2> HIDE DEF new
  <2>4. \A x \in testing' : Known(x)'
    BY <1>0, <1>a, <2>1, <2>2, <2>3
  <2> QED
    BY <1>a, <2>1, <2>4 DEF BatchInv, OneBatch
<1>6. ASSUME NEW t \in Tests, NEW result \in {"ok", "fail"}, Answer(t[1], t[2], result) PROVE BatchInv'
  <2> DEFINE m == t[2]
             Reply(b) == Replied(batch[b], m, result)
  <2>1. testing' = testing \ {m} /\ UNCHANGED shouldStop
    BY <1>6 DEF Answer
  <2>2. \A s \in single : s[2] # m => s \in single'
    BY <1>6 DEF Answer
  <2>3. CASE UNCHANGED <<batch, isBatchTesting, batchStopRequested, active>>
    <3>1. \A x \in testing' : Known(x)'
      BY <1>0, <1>a, <2>1, <2>2, <2>3
    <3> QED
      BY <1>a, <2>3, <3>1 DEF BatchInv, OneBatch
  <2>4. CASE \E b \in Running : m \in batch[b].flight /\ BatchAnswer(b, Reply(b))
    <3>1. PICK b \in Running :
             /\ m \in batch[b].flight
             /\ IF Over(Reply(b)) THEN Settled(b, Reply(b))
                ELSE batch' = [batch EXCEPT ![b] = Reply(b)] /\ UNCHANGED <<progress, isBatchTesting, batchStopRequested, active>>
      BY <2>4, Zenon DEF BatchAnswer
    <3>2. b \in Batches /\ b \in Running /\ m \in batch[b].flight
      BY <3>1 DEF Running
    <3>3. Running = {b}
      BY <1>0, <3>2 DEF OneBatch
    <3> DEFINE bt == Reply(b)
    <3>4. batch[b] \in BatchType /\ batch[b].flight \union batch[b].todo \subseteq batch[b].list
      BY <3>2 DEF TypeOK, BatchType
    <3>5. bt \in BatchType /\ bt.pc = batch[b].pc /\ bt.flight = batch[b].flight \ {m}
      BY <3>4, RepliedType
    <3> HIDE DEF bt
    <3>6. Cardinality(bt.flight) <= Limit
      <4>1. batch[b].flight \in SUBSET Models /\ Cardinality(batch[b].flight) <= Limit
        BY <1>0, <3>2, <3>4 DEF BatchType, OneBatch
      <4> QED
        BY <3>5, <4>1, SmallerBound
    <3>7. batch[b].pc = "group"
      BY <1>0, <3>2 DEF OneBatch
    <3>8. CASE ~Over(bt)
      <4>1. batch' = [batch EXCEPT ![b] = bt] /\ UNCHANGED <<isBatchTesting, batchStopRequested, active>>
        BY <3>1, <3>8 DEF bt
      <4>2. OneBatch' /\ Running' = {b} /\ batch'[b] = bt
        BY <1>0, <3>2, <3>3, <3>5, <3>6, <3>7, <4>1, GoesOn
      <4>3. \A x \in testing' : Known(x)'
        BY <1>0, <2>1, <2>2, <3>3, <3>5, <4>2
      <4> QED
        BY <3>3, <4>1, <4>2, <4>3 DEF BatchInv, OneBatch
    <3>9. CASE Over(bt)
      <4>1. Settled(b, bt) /\ bt.flight = {}
        BY <3>1, <3>9 DEF bt, Over
      <4>2. \A x \in testing' : \E s \in single' : s[2] = x
        BY <1>0, <2>1, <2>2, <3>3, <3>5, <4>1
      <4>3. CASE shouldStop
        <5>1. End(b)
          BY <4>1, <4>3 DEF Settled
        <5>2. OneBatch' /\ Running' = {} /\ ~isBatchTesting' /\ ~batchStopRequested' /\ ~active'
          BY <1>0, <3>2, <3>3, <5>1, Ends
        <5> QED
          BY <4>2, <5>2 DEF BatchInv, OneBatch
      <4>4. CASE ~shouldStop
        <5> DEFINE bs == [bt EXCEPT !.pc = IF bt.todo = {} THEN "final" ELSE "pause"]
        <5>1. bs.pc \notin {"idle", "group"} /\ bs.flight = bt.flight
          BY <3>5 DEF BatchType
        <5>2. batch' = [batch EXCEPT ![b] = bs] /\ UNCHANGED <<isBatchTesting, batchStopRequested, active>>
          BY <4>1, <4>4 DEF Settled
        <5> HIDE DEF bs
        <5>3. OneBatch' /\ Running' = {b}
          BY <1>0, <3>2, <3>3, <3>6, <4>1, <5>1, <5>2, GoesOn
        <5> QED
          BY <3>3, <4>2, <5>2, <5>3 DEF BatchInv, OneBatch
      <4> QED
        BY <4>3, <4>4
    <3> QED
      BY <3>8, <3>9
  <2> QED
    BY <1>6, <2>3, <2>4, Zenon DEF Answer
<1>7. ASSUME NEW b \in Batches, PauseOver(b) \/ FinalOver(b) PROVE BatchInv'
  <2>1. batch[b].pc \in {"pause", "final"} /\ UNCHANGED single
    BY <1>7 DEF PauseOver, FinalOver
  <2>2. Running = {b} /\ batch[b].flight = {}
    BY <1>0, <2>1 DEF OneBatch, Running
  <2>3. \A x \in testing : \E s \in single' : s[2] = x
    BY <1>0, <2>1, <2>2
  <2>4. CASE End(b) /\ UNCHANGED testing
    <3>1. OneBatch' /\ Running' = {} /\ ~isBatchTesting' /\ ~batchStopRequested' /\ ~active'
      BY <1>0, <2>2, <2>4, Ends
    <3> QED
      BY <2>3, <2>4, <3>1 DEF BatchInv, OneBatch
  <2>5. CASE PauseOver(b) /\ ~shouldStop
    <3> DEFINE bt == Sent(batch[b])
    <3>1. /\ batch' = [batch EXCEPT ![b] = bt] /\ testing' = testing \union bt.flight
          /\ UNCHANGED <<isBatchTesting, batchStopRequested, active>>
      BY <2>5 DEF PauseOver
    <3>2. batch[b] \in BatchType /\ batch[b].todo \subseteq batch[b].list /\ batch[b].todo \in SUBSET Models
      BY DEF TypeOK, BatchType
    <3>3. bt.pc = "group" /\ bt.flight = NextGroup(batch[b].todo)
      BY <3>2, SentType
    <3>4. Cardinality(bt.flight) <= Limit
      BY <3>2, <3>3, GroupBound
    <3> HIDE DEF bt
    <3>5. OneBatch' /\ Running' = {b} /\ batch'[b] = bt
      BY <1>0, <2>2, <3>1, <3>3, <3>4, GoesOn
    <3>6. \A x \in testing' : Known(x)'
      BY <2>3, <3>1, <3>5
    <3> QED
      BY <2>2, <3>1, <3>5, <3>6 DEF BatchInv, OneBatch
  <2> QED
    BY <1>7, <2>4, <2>5 DEF PauseOver, FinalOver
<1>8. CASE (\E match \in Matches : DeleteFailedModels(match)) \/ \E ok \in BOOLEAN : DeletionEnds(ok)
  <2>1. UNCHANGED <<batch, single, testing, isBatchTesting, batchStopRequested, active>>
    BY <1>8 DEF DeleteFailedModels, DeletionEnds, dialog, refs
  <2> QED
    BY <1>a, <2>1 DEF BatchInv, OneBatch
<1>9. CASE UNCHANGED vars
  BY <1>a, <1>9 DEF BatchInv, OneBatch, vars, dialog, refs
<1> QED
  BY <1>1, <1>2, <1>3, <1>4, <1>5, <1>6, <1>7, <1>8, <1>9 DEF Next

-----------------------------------------------------------------------------
(* The counts.                                                             *)

\* How many models of a list have succeeded, by the results res.
Passed(p, res) == Cardinality({m \in p.list : res[<<p.channel, m>>] = "ok"})

\* The batch bt has counted what the results res say, and the models it still waits for have
\* no result.
Tally(bt, res) ==
    /\ bt.channel \in Channels /\ bt.flight \intersect bt.todo = {}
    /\ bt.success = Passed(bt, res)
    /\ \A m \in bt.flight \union bt.todo : res[<<bt.channel, m>>] = "none"

\* Between two groups the dialog shows the counts of the batch, or none if it was closed.
Shown(b) ==
    LET bt == batch[b]
    IN bt.pc = "pause" => progress \in {NoProgress, Progress(bt.channel, bt.list, bt.completed, bt.success)}

\* The inductive invariant behind CountsAgree.
CountInv ==
    mixed = FALSE => CountsAgree /\ \A b \in Running : Tally(batch[b], results) /\ Shown(b)

\* Sending the next group changes no count.
LEMMA TallySent ==
  ASSUME NEW bt \in BatchType, NEW res, Tally(bt, res), bt.flight = {}
  PROVE  Tally(Sent(bt), res)
<1> DEFINE group == NextGroup(bt.todo)
<1>1. group \subseteq bt.todo
  BY DEF NextGroup
<1> HIDE DEF group
<1>2. Sent(bt) = [bt EXCEPT !.pc = "group", !.todo = bt.todo \ group, !.flight = group]
  BY DEF Sent, group
<1>3. /\ Sent(bt).channel = bt.channel /\ Sent(bt).list = bt.list /\ Sent(bt).success = bt.success
      /\ Sent(bt).flight = group /\ Sent(bt).todo = bt.todo \ group
  BY <1>2 DEF BatchType
<1> QED
  BY <1>1, <1>3 DEF Tally, Passed

\* An answer counts once: the model had no result before.
LEMMA TallyReplied ==
  ASSUME NEW bt \in BatchType, NEW res \in [Tests -> {"none", "ok", "fail"}], Tally(bt, res),
         bt.flight \union bt.todo \subseteq bt.list,
         NEW m \in bt.flight, NEW result \in {"ok", "fail"}
  PROVE  Tally(Replied(bt, m, result), [res EXCEPT ![<<bt.channel, m>>] = result])
<1> DEFINE br == Replied(bt, m, result)
           c == bt.channel
           now == [res EXCEPT ![<<c, m>>] = result]
           ok == {x \in bt.list : res[<<c, x>>] = "ok"}
           okNow == {x \in bt.list : now[<<c, x>>] = "ok"}
<1>1. /\ br.channel = c /\ br.list = bt.list /\ br.todo = bt.todo /\ br.flight = bt.flight \ {m}
      /\ br.success = bt.success + (IF result = "ok" THEN 1 ELSE 0)
  BY DEF Replied, BatchType
<1>2. c \in Channels /\ m \in bt.list /\ bt.list \subseteq Models /\ m \notin bt.todo
  BY DEF Tally, BatchType
<1>3. \A x \in bt.list : now[<<c, x>>] = IF x = m THEN result ELSE res[<<c, x>>]
  BY <1>2 DEF Tests
<1>4. res[<<c, m>>] = "none"
  BY DEF Tally
<1>5. IsFiniteSet(ok) /\ Cardinality(ok) \in Nat
  <2>1. ok \in SUBSET Models
    BY <1>2
  <2> QED
    BY <2>1, ModelSets
<1>6. Cardinality(okNow) = Cardinality(ok) + (IF result = "ok" THEN 1 ELSE 0)
  <2>1. CASE result = "ok"
    <3>1. okNow = ok \union {m} /\ m \notin ok
      BY <1>2, <1>3, <1>4, <2>1
    <3> HIDE DEF ok, okNow
    <3>2. Cardinality(okNow) = Cardinality(ok) + 1
      BY <1>5, <3>1, FS_AddElement
    <3> QED
      BY <2>1, <3>2
  <2>2. CASE result # "ok"
    <3>1. okNow = ok
      BY <1>2, <1>3, <1>4, <2>2
    <3> HIDE DEF ok, okNow
    <3> QED
      BY <1>5, <2>2, <3>1
  <2> QED
    BY <2>1, <2>2
<1>7. bt.success = Cardinality(ok)
  BY DEF Tally, Passed
<1>8. br.success = Cardinality(okNow)
  BY <1>1, <1>6, <1>7
<1>9. \A x \in br.flight \union br.todo : now[<<c, x>>] = "none"
  BY <1>1, <1>2, <1>3 DEF Tally
<1>10. br.flight \intersect br.todo = {}
  BY <1>1 DEF Tally
<1>11. Passed(br, now) = Cardinality(okNow)
  BY <1>1 DEF Passed
<1> HIDE DEF br, now, okNow
<1>12. Tally(br, now)
  BY <1>1, <1>2, <1>8, <1>9, <1>10, <1>11 DEF Tally
<1> QED
  BY <1>12 DEF br, now

\* The counts survive steps that leave the batches and the results alone.
LEMMA CountFrame ==
  ASSUME CountInv, UNCHANGED <<batch, results, mixed>>, progress' \in {progress, NoProgress}
  PROVE  CountInv'
<1>1. Running' = Running
  BY DEF Running
<1>2. CountsAgree => CountsAgree'
  BY <1>1 DEF CountsAgree
<1>3. \A b \in Running : Shown(b) => Shown(b)'
  BY DEF Shown
<1> QED
  BY <1>1, <1>2, <1>3 DEF CountInv

\* They agree while the one batch that runs has them right ...
LEMMA CountRunning ==
  ASSUME NEW b \in Batches, Running' = {b}, mixed' = FALSE => Tally(batch'[b], results') /\ Shown(b)'
  PROVE  CountInv'
  BY DEF CountInv, CountsAgree

\* ... and when it ends with them.
LEMMA CountEnded ==
  ASSUME Running' = {}, NEW bt, NEW n, NEW k,
         progress' = Progress(bt.channel, bt.list, n, k),
         mixed' = FALSE => k = Passed(bt, results')
  PROVE  CountInv'
<1>1. progress'.channel = bt.channel /\ progress'.list = bt.list /\ progress'.success = k
  BY DEF Progress
<1>2. mixed' = FALSE => progress'.success
                          = Cardinality({m \in progress'.list : results'[<<progress'.channel, m>>] = "ok"})
  BY <1>1 DEF Passed
<1> QED
  BY <1>2 DEF CountInv, CountsAgree

\* At the start nothing has been counted.
LEMMA CountInit == Init => CountInv
  BY DEF Init, CountInv, CountsAgree, Running, NoBatch

\* A new batch forgets the results of its list and counts from 0.
LEMMA CountStart ==
  ASSUME TypeOK, BatchInv, NEW match \in Matches, BatchTestModels(match)
  PROVE  CountInv'
<1> DEFINE list == models[open] \intersect match
           start == [NoBatch EXCEPT !.channel = open, !.list = list, !.todo = list]
<1>1. open \in Channels /\ list \subseteq Models
  BY DEF BatchTestModels, TypeOK
<1>2. /\ start \in BatchType /\ start.channel = open /\ start.list = list /\ start.todo = list
      /\ start.flight = {} /\ start.success = 0
  BY <1>1 DEF NoBatch, BatchType
<1>3. PICK b \in Batches :
      /\ batch' = [batch EXCEPT ![b] = Sent(start)]
      /\ results' = [t \in Tests |-> IF t[1] = open /\ t[2] \in list THEN "none" ELSE results[t]]
  BY DEF BatchTestModels
<1>4. \A m \in list : results'[<<open, m>>] = "none"
  BY <1>1, <1>3 DEF Tests
<1>5. Passed(start, results') = 0
  <2>1. {m \in start.list : results'[<<start.channel, m>>] = "ok"} = {}
    BY <1>2, <1>4
  <2> QED
    BY <2>1, FS_EmptySet DEF Passed
<1>6. Running = {}
  BY DEF BatchTestModels, BatchInv
<1> HIDE DEF start
<1>7. Tally(start, results')
  BY <1>1, <1>2, <1>4, <1>5 DEF Tally
<1>8. Tally(Sent(start), results')
  BY <1>2, <1>7, TallySent
<1>9. Sent(start).pc = "group"
  BY <1>2, SentType
<1>10. batch'[b] = Sent(start) /\ \A x \in Batches \ {b} : batch'[x] = batch[x]
  BY <1>3 DEF TypeOK
<1>11. Running' = {b}
  BY <1>3, <1>6, <1>9, <1>10 DEF Running
<1>12. Shown(b)'
  BY <1>9, <1>10 DEF Shown
<1> QED
  BY <1>3, <1>8, <1>10, <1>11, <1>12, CountRunning

\* An answer is counted by the batch that waits for it; one that no batch waits for is recorded
\* in mixed.
LEMMA CountAnswer ==
  ASSUME TypeOK, BatchInv, CountInv, NEW t \in Tests, NEW result \in {"ok", "fail"},
         Answer(t[1], t[2], result)
  PROVE  CountInv'
<1> DEFINE c == t[1]
           m == t[2]
           Reply(b) == Replied(batch[b], m, result)
<1>1. results' = [results EXCEPT ![<<c, m>>] = result]
  BY DEF Answer
<1>2. CASE mixed' = TRUE
  BY <1>2 DEF CountInv
<1>3. CASE /\ UNCHANGED mixed
           /\ \E b \in Running : batch[b].channel = c /\ m \in batch[b].flight /\ BatchAnswer(b, Reply(b))
  <2>1. PICK b \in Running :
           /\ batch[b].channel = c /\ m \in batch[b].flight
           /\ IF Over(Reply(b)) THEN Settled(b, Reply(b))
              ELSE batch' = [batch EXCEPT ![b] = Reply(b)] /\ UNCHANGED <<progress, isBatchTesting, batchStopRequested, active>>
    BY <1>3, Zenon DEF BatchAnswer
  <2>2. b \in Batches /\ b \in Running /\ m \in batch[b].flight /\ batch[b].channel = c
    BY <2>1 DEF Running
  <2>3. Running = {b}
    BY <2>2 DEF BatchInv
  <2>4. mixed' = FALSE => mixed = FALSE
    BY <1>3
  <2> DEFINE bt == Reply(b)
  <2>5. batch[b] \in BatchType /\ batch[b].flight \union batch[b].todo \subseteq batch[b].list
    BY <2>2 DEF TypeOK, BatchType
  <2>6. bt \in BatchType /\ bt.pc = batch[b].pc
    BY <2>5, RepliedType
  <2>7. mixed' = FALSE => Tally(bt, results')
    <3> SUFFICES ASSUME mixed' = FALSE PROVE Tally(bt, results')
      OBVIOUS
    <3>1. Tally(batch[b], results) /\ results \in [Tests -> {"none", "ok", "fail"}]
      BY <2>2, <2>4 DEF CountInv, TypeOK
    <3> QED
      BY <1>1, <2>2, <2>5, <3>1, TallyReplied
  <2> HIDE DEF bt
  <2>8. ASSUME NEW new, batch' = [batch EXCEPT ![b] = new], new.pc # "idle"
        PROVE  Running' = {b} /\ batch'[b] = new
    <3>1. batch'[b] = new /\ \A x \in Batches \ {b} : batch'[x] = batch[x]
      BY <2>2, <2>8 DEF TypeOK
    <3> QED
      BY <2>2, <2>3, <2>8, <3>1 DEF Running
  <2>9. CASE ~Over(bt)
    <3>1. batch' = [batch EXCEPT ![b] = bt] /\ bt.pc # "idle"
      BY <2>1, <2>2, <2>6, <2>9 DEF bt, Running
    <3>2. Running' = {b} /\ batch'[b] = bt
      BY <2>8, <3>1
    <3>3. batch'[b].pc = "group" /\ Shown(b)'
      BY <2>2, <2>6, <3>2 DEF BatchInv, Shown
    <3> QED
      BY <2>2, <2>7, <3>2, <3>3, CountRunning
  <2>10. CASE Over(bt) /\ shouldStop
    <3>1. progress' = Progress(bt.channel, bt.list, bt.completed, bt.success) /\ batch' = [batch EXCEPT ![b] = NoBatch]
      BY <2>1, <2>10 DEF bt, Settled, End
    <3>2. Running' = {}
      <4>1. batch'[b].pc = "idle" /\ \A x \in Batches \ {b} : batch'[x] = batch[x]
        BY <2>2, <3>1 DEF TypeOK, NoBatch
      <4> QED
        BY <2>3, <4>1 DEF Running
    <3>3. mixed' = FALSE => bt.success = Passed(bt, results')
      BY <2>7 DEF Tally
    <3> QED
      BY <3>1, <3>2, <3>3, CountEnded
  <2>11. CASE Over(bt) /\ ~shouldStop
    <3> DEFINE bs == [bt EXCEPT !.pc = IF bt.todo = {} THEN "final" ELSE "pause"]
    <3>1. batch' = [batch EXCEPT ![b] = bs]
      BY <2>1, <2>11 DEF bt, Settled
    <3>2. /\ bs.pc # "idle" /\ bs.channel = bt.channel /\ bs.list = bt.list /\ bs.todo = bt.todo
          /\ bs.flight = bt.flight /\ bs.success = bt.success /\ bs.completed = bt.completed
      BY <2>6 DEF BatchType
    <3> HIDE DEF bs
    <3>3. Running' = {b} /\ batch'[b] = bs
      BY <2>8, <3>1, <3>2
    <3>4. mixed' = FALSE => Tally(bs, results')
      BY <2>7, <3>2 DEF Tally, Passed
    <3>5. progress' = Progress(bt.channel, bt.list, bt.completed, bt.success)
      BY <2>1, <2>11 DEF bt, Settled
    <3>6. Shown(b)'
      BY <3>2, <3>3, <3>5 DEF Shown
    <3> QED
      BY <2>2, <3>3, <3>4, <3>6, CountRunning
  <2> QED
    BY <2>9, <2>10, <2>11
<1> QED
  BY <1>2, <1>3, Zenon DEF Answer

\* The timers send the next group or end the batch with a count of the results.
LEMMA CountTimer ==
  ASSUME TypeOK, BatchInv, CountInv, NEW b \in Batches, PauseOver(b) \/ FinalOver(b)
  PROVE  CountInv'
<1>1. batch[b].pc \in {"pause", "final"} /\ UNCHANGED <<results, mixed>>
  BY DEF PauseOver, FinalOver, history
<1>2. Running = {b} /\ batch[b].flight = {} /\ batch[b] \in BatchType /\ batch[b].todo \subseteq batch[b].list
  BY <1>1 DEF BatchInv, Running, TypeOK, BatchType
<1>3. mixed' = FALSE => Tally(batch[b], results)
  BY <1>1, <1>2 DEF CountInv
<1>4. ASSUME End(b) PROVE Running' = {}
  <2>1. batch'[b].pc = "idle" /\ \A x \in Batches \ {b} : batch'[x] = batch[x]
    BY <1>4 DEF TypeOK, NoBatch, End
  <2> QED
    BY <1>2, <2>1 DEF Running
<1>5. CASE PauseOver(b) /\ shouldStop
  <2>1. End(b) /\ progress' = progress
    BY <1>5 DEF PauseOver
  <2>2. Running' = {}
    BY <1>4, <2>1
  <2>3. CASE progress = NoProgress
    BY <2>1, <2>2, <2>3 DEF CountInv, CountsAgree
  <2>4. CASE progress # NoProgress
    <3>1. mixed' = FALSE => progress = Progress(batch[b].channel, batch[b].list, batch[b].completed, batch[b].success)
      BY <1>1, <1>2, <1>5, <2>4 DEF CountInv, Shown, PauseOver
    <3>2. mixed' = FALSE => batch[b].success = Passed(batch[b], results')
      BY <1>1, <1>3 DEF Tally
    <3>3. CASE mixed' = FALSE
      BY <2>1, <2>2, <3>1, <3>2, <3>3, CountEnded
    <3>4. CASE mixed' # FALSE
      BY <3>4 DEF CountInv
    <3> QED
      BY <3>3, <3>4
  <2> QED
    BY <2>3, <2>4
<1>6. CASE PauseOver(b) /\ ~shouldStop
  <2>1. batch' = [batch EXCEPT ![b] = Sent(batch[b])]
    BY <1>6 DEF PauseOver
  <2>2. Sent(batch[b]).pc = "group"
    BY <1>2, SentType
  <2>3. batch'[b] = Sent(batch[b]) /\ \A x \in Batches \ {b} : batch'[x] = batch[x]
    BY <2>1 DEF TypeOK
  <2>4. Running' = {b}
    BY <1>2, <2>2, <2>3 DEF Running
  <2>5. mixed' = FALSE => Tally(batch'[b], results')
    BY <1>1, <1>2, <1>3, <2>3, TallySent
  <2>6. Shown(b)'
    BY <2>2, <2>3 DEF Shown
  <2> QED
    BY <2>4, <2>5, <2>6, CountRunning
<1>7. CASE FinalOver(b)
  <2>1. End(b) /\ progress' = Progress(batch[b].channel, batch[b].list, Cardinality(batch[b].list), Count(batch[b]))
    BY <1>7 DEF FinalOver
  <2>2. Running' = {}
    BY <1>4, <2>1
  <2>3. Count(batch[b]) = Passed(batch[b], results')
    BY <1>1 DEF Passed, Count
  <2> QED
    BY <2>1, <2>2, <2>3, CountEnded
<1> QED
  BY <1>5, <1>6, <1>7

\* Every step keeps the counts.
LEMMA CountStep == ASSUME TypeOK, BatchInv, CountInv, [Next]_vars PROVE CountInv'
<1>1. CASE \E c \in Channels : Open(c)
  BY <1>1, CountFrame DEF Open
<1>2. CASE HandleCloseModal
  BY <1>2, CountFrame DEF HandleCloseModal
<1>3. CASE StopBatchTesting
  BY <1>3, CountFrame DEF StopBatchTesting, history
<1>4. ASSUME NEW match \in Matches, BatchTestModels(match) PROVE CountInv'
  BY <1>4, CountStart
<1>5. ASSUME NEW m \in Models, TestModel(m) PROVE CountInv'
  BY <1>5, CountFrame DEF TestModel
<1>6. ASSUME NEW t \in Tests, NEW result \in {"ok", "fail"}, Answer(t[1], t[2], result) PROVE CountInv'
  BY <1>6, CountAnswer
<1>7. ASSUME NEW b \in Batches, PauseOver(b) \/ FinalOver(b) PROVE CountInv'
  BY <1>7, CountTimer
<1>8. CASE \E match \in Matches : DeleteFailedModels(match)
  BY <1>8, CountFrame DEF DeleteFailedModels, dialog, history
<1>9. ASSUME NEW ok \in BOOLEAN, DeletionEnds(ok) PROVE CountInv'
  <2>1. CASE ok
    <3>1. mixed' # FALSE
      BY <1>9, <2>1 DEF DeletionEnds
    <3> QED
      BY <3>1 DEF CountInv
  <2>2. CASE ~ok
    BY <1>9, <2>2, CountFrame DEF DeletionEnds, dialog
  <2> QED
    BY <2>1, <2>2
<1>10. CASE UNCHANGED vars
  BY <1>10, CountFrame DEF vars, dialog, history
<1> QED
  BY <1>1, <1>2, <1>3, <1>4, <1>5, <1>6, <1>7, <1>8, <1>9, <1>10 DEF Next

-----------------------------------------------------------------------------
(* The theorems.                                                           *)

\* The types and BatchInv are inductive.
LEMMA Invariance == Spec => [](TypeOK /\ BatchInv)
<1>1. Init => TypeOK /\ BatchInv
  BY InitType, InitBatch
<1>2. TypeOK /\ BatchInv /\ [Next]_vars => (TypeOK /\ BatchInv)'
  BY TypeStep, BatchStep
<1> QED
  BY <1>1, <1>2, PTL DEF Spec

\* The tests in flight are those of the one batch that runs.
LEMMA BatchLimit == ASSUME TypeOK, BatchInv PROVE LimitHolds
<1> DEFINE flights == UNION {{b} \X batch[b].flight : b \in Batches}
<1>1. \A b \in Batches : b \notin Running => batch[b].flight = {}
  BY DEF Running, BatchInv
<1>2. Cardinality(flights) <= Limit
  <2>1. CASE Running = {}
    <3>1. flights = {}
      BY <1>1, <2>1
    <3> HIDE DEF flights
    <3> QED
      BY <3>1, FS_EmptySet, TestAssumption
  <2>2. CASE Running # {}
    <3>1. PICK b \in Running : Running = {b} /\ b \in Batches
      BY <2>2 DEF BatchInv, Running
    <3> DEFINE F == batch[b].flight
               f == [m \in F |-> <<b, m>>]
    <3>2. F \in SUBSET Models /\ Cardinality(F) <= Limit
      BY <3>1 DEF TypeOK, BatchInv
    <3>3. flights = {b} \X F
      BY <1>1, <3>1
    <3>4. f \in Surjection(F, {b} \X F)
      <4>1. f \in [F -> {b} \X F]
        OBVIOUS
      <4>2. ASSUME NEW p \in {b} \X F PROVE \E m \in F : f[m] = p
        <5>1. p[2] \in F /\ p = <<b, p[2]>>
          BY <4>2
        <5> QED
          BY <5>1
      <4> HIDE DEF f, F
      <4> QED
        BY <4>1, <4>2 DEF Surjection
    <3> HIDE DEF F, f, flights
    <3>5. IsFiniteSet(F) /\ Cardinality(F) \in Nat
      BY <3>2, ModelSets
    <3>6. IsFiniteSet({b} \X F) /\ Cardinality({b} \X F) <= Cardinality(F)
      BY <3>4, <3>5, FS_Surjection
    <3>7. Cardinality({b} \X F) \in Nat
      BY <3>6, FS_CardinalityType
    <3> QED
      BY <3>2, <3>3, <3>5, <3>6, <3>7, TestAssumption
  <2> QED
    BY <2>1, <2>2
<1> QED
  BY <1>2 DEF LimitHolds, BatchInv

\* For every concurrencyLimit and any channels and models: however the dialog is closed and
\* opened again, no more than concurrencyLimit tests of batches are in flight, all of one
\* channel (batchTestModels).
THEOREM LimitCorrect == Spec => []LimitHolds
<1>1. TypeOK /\ BatchInv => LimitHolds
  BY BatchLimit
<1> QED
  BY <1>1, Invariance, PTL

\* Whatever answers fail and however the dialog was left: when nothing is in flight and no
\* timer runs, the dialog is idle and a batch can be started (the finally of batchTestModels).
THEOREM IdleCorrect == Spec => []QuietIsIdle
<1>1. BatchInv => QuietIsIdle
  BY DEF BatchInv, QuietIsIdle
<1> QED
  BY <1>1, Invariance, PTL

\* No step sends a test for a batch that was stopped (stopBatchTesting, handleCloseModal).
LEMMA StopStep ==
  ASSUME TypeOK, BatchInv, [Next]_vars, shouldStop, shouldStop', NEW b \in Batches
  PROVE  batch'[b].flight \subseteq batch[b].flight
<1>1. CASE UNCHANGED batch
  BY <1>1
<1>2. ASSUME NEW x \in Batches, End(x) PROVE batch'[b].flight \subseteq batch[b].flight
  BY <1>2 DEF End, NoBatch, TypeOK
<1>3. CASE (\E c \in Channels : Open(c)) \/ HandleCloseModal \/ StopBatchTesting
        \/ (\E m \in Models : TestModel(m)) \/ (\E match \in Matches : DeleteFailedModels(match)) \/ (\E ok \in BOOLEAN : DeletionEnds(ok))
  BY <1>1, <1>3 DEF Open, HandleCloseModal, StopBatchTesting, TestModel, DeleteFailedModels, DeletionEnds
<1>4. CASE \E match \in Matches : BatchTestModels(match)
  BY <1>4 DEF BatchTestModels
<1>5. ASSUME NEW t \in Tests, NEW result \in {"ok", "fail"}, Answer(t[1], t[2], result)
      PROVE  batch'[b].flight \subseteq batch[b].flight
  <2> DEFINE Reply(x) == Replied(batch[x], t[2], result)
  <2>1. CASE UNCHANGED batch
    BY <1>1, <2>1
  <2>2. CASE \E x \in Running : BatchAnswer(x, Reply(x))
    <3>1. PICK x \in Running : IF Over(Reply(x)) THEN Settled(x, Reply(x)) ELSE batch' = [batch EXCEPT ![x] = Reply(x)]
      BY <2>2, Zenon DEF BatchAnswer
    <3>2. x \in Batches
      BY DEF Running
    <3>3. CASE Over(Reply(x))
      BY <1>2, <3>1, <3>2, <3>3 DEF Settled
    <3>4. CASE ~Over(Reply(x))
      <4>1. batch[x] \in BatchType /\ batch[x].flight \union batch[x].todo \subseteq batch[x].list
        BY <3>2 DEF TypeOK, BatchType
      <4>2. Reply(x).flight = batch[x].flight \ {t[2]}
        BY <4>1, RepliedType
      <4>3. batch'[b] = IF b = x THEN Reply(x) ELSE batch[b]
        BY <3>1, <3>2, <3>4 DEF TypeOK
      <4> QED
        BY <4>2, <4>3
    <3> QED
      BY <3>3, <3>4
  <2> QED
    BY <1>5, <2>1, <2>2, Zenon DEF Answer
<1>6. CASE \E x \in Batches : PauseOver(x) \/ FinalOver(x)
  BY <1>2, <1>6 DEF PauseOver, FinalOver
<1>7. CASE UNCHANGED vars
  BY <1>1, <1>7 DEF vars
<1> QED
  BY <1>3, <1>4, <1>5, <1>6, <1>7 DEF Next

\* Once Stop was pressed or the dialog closed, no batch sends another test, in whatever pause
\* or group it was.
THEOREM StopCorrect == Spec => StopObeyed
<1>1. TypeOK /\ BatchInv /\ [Next]_vars
        => [shouldStop /\ shouldStop' => \A b \in Batches : batch'[b].flight \subseteq batch[b].flight]_vars
  BY StopStep
<1> QED
  BY <1>1, Invariance, PTL DEF Spec, StopObeyed

\* For any channels, models and search results: the counts of a batch that was the only one to
\* change results are those of the results, however the dialog was closed, stopped and opened
\* again while answers came in (CountsAgree).
THEOREM CountsCorrect == Spec => []CountsAgree
<1>1. Init => TypeOK /\ BatchInv /\ CountInv
  BY InitType, InitBatch, CountInit
<1>2. TypeOK /\ BatchInv /\ CountInv /\ [Next]_vars => (TypeOK /\ BatchInv /\ CountInv)'
  BY TypeStep, BatchStep, CountStep
<1>3. TypeOK /\ CountInv => CountsAgree
  BY DEF TypeOK, CountInv, CountsAgree
<1> QED
  BY <1>1, <1>2, <1>3, PTL DEF Spec
=============================================================================
