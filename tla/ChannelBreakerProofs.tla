------------------------ MODULE ChannelBreakerProofs ------------------------
(***************************************************************************)
(* The breaker's shield, backoff, streak and window for every              *)
(* configuration, number of requests and bound.                            *)
(***************************************************************************)
EXTENDS ChannelBreaker, SumLemmas, TLAPS

BInv == TypeOK /\ ClosedIsHealthy /\ ShieldInv /\ SnapshotInv

\* The ring has a slot for every epoch.
LEMMA SlotOfEpoch ==
  ASSUME NEW t \in Nat
  PROVE  BucketEpoch(t) \in Nat /\ BucketEpoch(t) % Buckets \in Slots
<1>1. BucketEpoch(t) \in Nat
  BY BoundsAssumption DEF BucketEpoch
<1>2. QED
  BY <1>1, BoundsAssumption DEF Slots

\* Counting a sample keeps the type.
LEMMA AddType ==
  ASSUME NEW c \in Counts, NEW res
  PROVE  Add(c, res) \in Counts
  BY DEF Add, Counts

\* A new bucket has counted nothing.
LEMMA ZeroType == Zero \in Counts
  BY DEF Zero, Counts

\* clearWindowLocked
LEMMA EmptyWindowType == EmptyWindow \in [Slots -> Bucket]
  BY ZeroType DEF EmptyWindow, Bucket

\* getBreaker
LEMMA NewBreakerType == NewBreaker \in BreakerType
  BY EmptyWindowType, ConfigAssumption DEF NewBreaker, BreakerType, States

\* recordLocked only changes the buckets.
LEMMA RecordEffect ==
  ASSUME NEW b \in BreakerType, NEW t \in Nat, NEW res \in Results
  PROVE  LET c == Record(b, t, res) IN
         /\ c \in BreakerType /\ c.state = b.state /\ c.openUntil = b.openUntil
         /\ c.cooldown = b.cooldown /\ c.consecFatal = b.consecFatal
         /\ c.halfOpenSuccess = b.halfOpenSuccess
<1> DEFINE epoch == BucketEpoch(t)
           slot  == epoch % Buckets
           old   == IF b.buckets[slot].epoch = epoch THEN b.buckets[slot].count ELSE Zero
           w     == [b.buckets EXCEPT ![slot] = [epoch |-> epoch, count |-> Add(old, res)]]
<1>1. epoch \in Nat /\ slot \in Slots
  BY SlotOfEpoch
<1>2. b.buckets \in [Slots -> Bucket]
  BY DEF BreakerType
<1>3. old \in Counts
  BY <1>1, <1>2, ZeroType DEF Bucket
<1>4. Add(old, res) \in Counts
  BY <1>3, AddType
<1>5. w \in [Slots -> Bucket]
  BY <1>1, <1>2, <1>4 DEF Bucket
<1>6. Record(b, t, res) = [b EXCEPT !.buckets = w]
  BY DEF Record
<1> HIDE DEF w
<1>7. QED
  BY <1>5, <1>6 DEF BreakerType

\* The streak and the window after a report; nothing else has changed.
LEMMA CountedEffect ==
  ASSUME NEW b \in BreakerType, NEW t \in Nat, NEW res \in Results
  PROVE  LET c == Counted(b, t, res) IN
         /\ c \in BreakerType /\ c.state = b.state /\ c.openUntil = b.openUntil
         /\ c.cooldown = b.cooldown /\ c.halfOpenSuccess = b.halfOpenSuccess
<1> DEFINE a == Record(b, t, res)
           k == CASE res = "success" -> 0
                  [] res = "fatal" -> a.consecFatal + 1
                  [] OTHER -> a.consecFatal
<1>1. /\ a \in BreakerType /\ a.state = b.state /\ a.openUntil = b.openUntil
      /\ a.cooldown = b.cooldown /\ a.halfOpenSuccess = b.halfOpenSuccess
  BY RecordEffect
<1>2. Counted(b, t, res) = [a EXCEPT !.consecFatal = k]
  BY DEF Counted
<1>3. k \in Nat
  BY <1>1 DEF BreakerType, Results
<1> HIDE DEF a, k
<1>4. QED
  BY <1>1, <1>2, <1>3 DEF BreakerType

\* The backoff stays between the cooldown and its cap.
LEMMA BackedOffRange ==
  ASSUME NEW d \in Cooldown..MaxCooldown
  PROVE  BackedOff(d) \in Cooldown..MaxCooldown
  BY ConfigAssumption DEF BackedOff

\* tripLocked
LEMMA TripEffect ==
  ASSUME NEW b \in BreakerType, NEW t \in Nat
  PROVE  LET n == Trip(b, t) IN
         /\ n \in BreakerType /\ n.state = "open" /\ n.openUntil = t + b.cooldown
         /\ n.cooldown = BackedOff(b.cooldown)
<1>1. b.cooldown \in Cooldown..MaxCooldown
  BY DEF BreakerType
<1>2. BackedOff(b.cooldown) \in Cooldown..MaxCooldown
  BY <1>1, BackedOffRange
<1>3. t + b.cooldown \in Int
  BY <1>1, ConfigAssumption
<1>4. QED
  BY <1>2, <1>3 DEF Trip, BreakerType, States

\* The recovery in report.
LEMMA RecoveredEffect ==
  ASSUME NEW b \in BreakerType
  PROVE  LET n == Recovered(b) IN
         n \in BreakerType /\ n.state = "closed" /\ n.consecFatal = 0
<1>1. Cooldown \in Cooldown..MaxCooldown
  BY ConfigAssumption
<1> DEFINE b1 == [b EXCEPT !.state = "closed"]
           b2 == [b1 EXCEPT !.cooldown = Cooldown]
           b3 == [b2 EXCEPT !.consecFatal = 0]
           b4 == [b3 EXCEPT !.buckets = EmptyWindow]
<1>2. b1 \in BreakerType /\ b1.state = "closed"
  BY DEF BreakerType, States
<1> HIDE DEF b1
<1>3. b2 \in BreakerType /\ b2.state = "closed"
  BY <1>1, <1>2 DEF BreakerType
<1> HIDE DEF b2
<1>4. b3 \in BreakerType /\ b3.state = "closed" /\ b3.consecFatal = 0
  BY <1>3 DEF BreakerType
<1> HIDE DEF b3
<1>5. b4 \in BreakerType /\ b4.state = "closed" /\ b4.consecFatal = 0
  BY <1>4, EmptyWindowType DEF BreakerType
<1>6. Recovered(b) = b4
  BY DEF Recovered, b1, b2, b3
<1>7. QED
  BY <1>5, <1>6

\* What a report can do: trip, leave the state alone, or recover.
Trips(b, t, n) ==
    LET d == IF b.state = "closed" THEN Cooldown ELSE b.cooldown IN
    /\ b.state # "open" /\ n.state = "open"
    /\ n.openUntil = t + d /\ n.cooldown = BackedOff(d)

Stays(b, n) ==
    /\ n.state = b.state /\ n.openUntil = b.openUntil /\ n.cooldown = b.cooldown
    /\ b.state = "closed" => n.consecFatal < ConsecFatal

Recovers1(b, n) ==
    b.state = "halfOpen" /\ n.state = "closed" /\ n.consecFatal = 0

\* A report does one of the three, and keeps the type.
LEMMA ReportedEffect ==
  ASSUME NEW b \in BreakerType, NEW t \in Nat, NEW res \in Results,
         NEW n \in Reported(b, t, res)
  PROVE  n \in BreakerType /\ (Trips(b, t, n) \/ Stays(b, n) \/ Recovers1(b, n))
<1> DEFINE c == Counted(b, t, res)
           h == [c EXCEPT !.halfOpenSuccess = @ + 1]
<1>1. /\ c \in BreakerType /\ c.state = b.state /\ c.openUntil = b.openUntil
      /\ c.cooldown = b.cooldown
  BY CountedEffect
<1>2. b.state \in States
  BY DEF BreakerType
<1> HIDE DEF c
<1>3. CASE b.state = "halfOpen" /\ res # "success"
  <2>1. n = Trip(c, t)
    BY <1>3 DEF Reported, c
  <2>2. n \in BreakerType /\ n.state = "open" /\ n.openUntil = t + c.cooldown
        /\ n.cooldown = BackedOff(c.cooldown)
    BY <1>1, <2>1, TripEffect
  <2>3. QED
    BY <1>1, <1>3, <2>2 DEF Trips
<1>4. CASE b.state = "halfOpen" /\ res = "success"
  <2>1. n = IF h.halfOpenSuccess >= HalfOpenProbes THEN Recovered(h) ELSE h
    BY <1>4 DEF Reported, c
  <2>2. h \in BreakerType /\ h.state = c.state /\ h.openUntil = c.openUntil
        /\ h.cooldown = c.cooldown
    BY <1>1 DEF BreakerType
  <2> HIDE DEF h
  <2>3. Recovered(h) \in BreakerType /\ Recovered(h).state = "closed"
        /\ Recovered(h).consecFatal = 0
    BY <2>2, RecoveredEffect
  <2>4. QED
    BY <1>1, <1>4, <2>1, <2>2, <2>3 DEF Stays, Recovers1
<1>5. CASE b.state = "closed"
  <2>1. PICK d \in ShouldTrip(c, t) :
             n = IF d THEN Trip([c EXCEPT !.cooldown = Cooldown], t) ELSE c
    BY <1>5 DEF Reported, c
  <2>2. d \in BOOLEAN
    BY <2>1 DEF ShouldTrip
  <2>3. CASE d
    <3> DEFINE k == [c EXCEPT !.cooldown = Cooldown]
    <3>1. k \in BreakerType /\ k.cooldown = Cooldown
      BY <1>1, ConfigAssumption DEF BreakerType
    <3>2. n = Trip(k, t)
      BY <2>1, <2>3
    <3> HIDE DEF k
    <3>3. n \in BreakerType /\ n.state = "open" /\ n.openUntil = t + Cooldown
          /\ n.cooldown = BackedOff(Cooldown)
      BY <3>1, <3>2, TripEffect
    <3>4. QED
      BY <1>5, <3>3 DEF Trips
  <2>4. CASE ~d
    <3>1. n = c
      BY <2>1, <2>4
    <3>2. ~(c.consecFatal >= ConsecFatal)
      <4>1. SUFFICES ASSUME c.consecFatal >= ConsecFatal PROVE FALSE
        OBVIOUS
      <4>2. ShouldTrip(c, t) = {TRUE}
        BY <4>1 DEF ShouldTrip
      <4>3. QED
        BY <2>1, <2>4, <4>2
    <3>3. c.consecFatal < ConsecFatal
      BY <1>1, <3>2, ConfigAssumption DEF BreakerType
    <3>4. QED
      BY <1>1, <3>1, <3>3 DEF Stays
  <2>5. QED
    BY <2>2, <2>3, <2>4
<1>6. CASE b.state = "open"
  <2>1. n = c
    BY <1>6 DEF Reported, c
  <2>2. QED
    BY <1>1, <1>6, <2>1 DEF Stays
<1>7. QED
  BY <1>2, <1>3, <1>4, <1>5, <1>6 DEF States

\* evalLocked opens the way for probes after the deadline only.
LEMMA EvalEffect ==
  ASSUME NEW b \in BreakerType, NEW t \in Nat
  PROVE  LET n == Eval(b, t) IN
         /\ n \in BreakerType /\ n.openUntil = b.openUntil /\ n.cooldown = b.cooldown
         /\ n.consecFatal = b.consecFatal
         /\ \/ n.state = b.state
            \/ b.state = "open" /\ n.state = "halfOpen" /\ t >= b.openUntil
  BY DEF Eval, BreakerType, States
-----------------------------------------------------------------------------
(***************************************************************************)
(* The invariant.                                                          *)
(***************************************************************************)
\* The first state.
LEMMA InitInv == Init => BInv
<1> SUFFICES ASSUME Init PROVE BInv
  OBVIOUS
<1>1. applied \in [Epochs -> Counts]
  BY ZeroType DEF Init, NoneApplied
<1>2. TypeOK
  BY <1>1, NewBreakerType, BoundsAssumption DEF Init, TypeOK, Results
<1>3. ClosedIsHealthy /\ ShieldInv /\ SnapshotInv
  BY ConfigAssumption DEF Init, NewBreaker, ClosedIsHealthy, ShieldInv, SnapshotInv, None
<1>4. QED
  BY <1>2, <1>3 DEF BInv

\* Reading the state.
LEMMA EvalInv ==
  ASSUME BInv, NEW t \in ReadClock, breaker' = Eval(breaker, t), UNCHANGED <<now, lastTrip>>
  PROVE  /\ breaker' \in BreakerType /\ ClosedIsHealthy' /\ ShieldInv'
         /\ breaker'.state = "open" => breaker.state = "open"
<1>1. breaker \in BreakerType /\ now \in Nat /\ t \in Nat /\ t <= now
  BY BoundsAssumption DEF BInv, TypeOK, ReadClock
<1>2. /\ breaker' \in BreakerType /\ breaker'.openUntil = breaker.openUntil
      /\ breaker'.cooldown = breaker.cooldown /\ breaker'.consecFatal = breaker.consecFatal
      /\ \/ breaker'.state = breaker.state
         \/ breaker.state = "open" /\ breaker'.state = "halfOpen" /\ now >= breaker.openUntil
  <2>1. /\ breaker' \in BreakerType /\ breaker'.openUntil = breaker.openUntil
        /\ breaker'.cooldown = breaker.cooldown /\ breaker'.consecFatal = breaker.consecFatal
        /\ \/ breaker'.state = breaker.state
           \/ breaker.state = "open" /\ breaker'.state = "halfOpen" /\ t >= breaker.openUntil
    BY <1>1, EvalEffect
  <2>2. breaker.openUntil \in Int
    BY <1>1 DEF BreakerType
  <2>3. QED
    BY <1>1, <2>1, <2>2
<1>3. ClosedIsHealthy'
  BY <1>2 DEF BInv, ClosedIsHealthy
<1>4. CASE breaker'.state = breaker.state
  BY <1>2, <1>4, <1>3 DEF BInv, ShieldInv
<1>5. CASE breaker.state = "open" /\ breaker'.state = "halfOpen" /\ now >= breaker.openUntil
  <2>1. /\ lastTrip # None /\ breaker.openUntil - lastTrip \in Cooldown..MaxCooldown
        /\ breaker.cooldown = BackedOff(breaker.openUntil - lastTrip)
    BY <1>5 DEF BInv, ShieldInv
  <2>2. lastTrip \in Int /\ breaker.openUntil \in Int
    BY <1>1 DEF BInv, TypeOK, BreakerType, None
  <2>3. now >= lastTrip + Cooldown
    BY <1>1, <1>5, <2>1, <2>2, ConfigAssumption
  <2>4. QED
    BY <1>2, <1>3, <1>5, <2>1, <2>3 DEF ShieldInv
<1>6. QED
  BY <1>2, <1>4, <1>5

\* A report.
LEMMA ReportInv ==
  ASSUME BInv, NEW r \in Requests, ApplyReport(r), r \notin orphaned
  PROVE  /\ breaker' \in BreakerType /\ lastTrip' \in 0..MaxTime \cup {None}
         /\ ClosedIsHealthy' /\ ShieldInv'
         /\ breaker.state # "open" /\ breaker'.state = "open" =>
              /\ lastTrip' = clock[r]
              /\ breaker'.openUntil = clock[r] + (IF breaker.state = "closed" THEN Cooldown
                                                  ELSE breaker.cooldown)
<1> DEFINE t == clock[r]
           n == breaker'
<1>1. /\ breaker \in BreakerType /\ now \in Nat /\ t \in 0..MaxTime /\ t \in Nat
      /\ result[r] \in Results /\ lastTrip \in 0..MaxTime \cup {None}
  BY BoundsAssumption DEF BInv, TypeOK
<1>2. /\ n \in Reported(breaker, t, result[r]) /\ now' = now
      /\ lastTrip' = IF breaker.state # "open" /\ n.state = "open" THEN t ELSE lastTrip
  BY DEF ApplyReport
<1>3. n \in BreakerType /\ (Trips(breaker, t, n) \/ Stays(breaker, n) \/ Recovers1(breaker, n))
  BY <1>1, <1>2, ReportedEffect
<1>4. lastTrip' \in 0..MaxTime \cup {None}
  BY <1>1, <1>2
<1>5. /\ breaker.openUntil \in Int /\ breaker.cooldown \in Cooldown..MaxCooldown
      /\ n.openUntil \in Int /\ lastTrip \in Int /\ breaker.state \in States
  BY <1>1, <1>3 DEF BreakerType, None
<1>6. CASE Trips(breaker, t, n)
  <2> DEFINE d == IF breaker.state = "closed" THEN Cooldown ELSE breaker.cooldown
  <2>1. d \in Cooldown..MaxCooldown
    BY <1>5, ConfigAssumption
  <2>2. /\ breaker.state # "open" /\ n.state = "open" /\ n.openUntil = t + d
        /\ n.cooldown = BackedOff(d)
    BY <1>6 DEF Trips
  <2>3. lastTrip' = t /\ t # None
    BY <1>1, <1>2, <2>2 DEF None
  <2> HIDE DEF d
  <2>4. n.openUntil - lastTrip' = d
    BY <1>1, <2>1, <2>2, <2>3, ConfigAssumption
  <2>5. ClosedIsHealthy' /\ ShieldInv'
    BY <2>1, <2>2, <2>3, <2>4 DEF ClosedIsHealthy, ShieldInv
  <2>6. QED
    BY <1>3, <1>4, <2>2, <2>3, <2>5 DEF d
<1>7. CASE Stays(breaker, n)
  <2>1. lastTrip' = lastTrip /\ ~(breaker.state # "open" /\ n.state = "open")
    BY <1>2, <1>7 DEF Stays
  <2>2. ClosedIsHealthy'
    BY <1>7 DEF ClosedIsHealthy, Stays
  <2>3. ShieldInv'
    BY <1>2, <1>7, <2>1 DEF BInv, ShieldInv, Stays
  <2>4. QED
    BY <1>3, <1>4, <2>1, <2>2, <2>3
<1>8. CASE Recovers1(breaker, n)
  <2>1. lastTrip' = lastTrip /\ n.state = "closed" /\ breaker.state = "halfOpen"
    BY <1>2, <1>8 DEF Recovers1
  <2>2. ClosedIsHealthy'
    BY <1>8, ConfigAssumption DEF ClosedIsHealthy, Recovers1
  <2>3. now >= lastTrip + Cooldown
    BY <2>1 DEF BInv, ShieldInv
  <2>4. ShieldInv'
    BY <1>2, <2>1, <2>3 DEF ShieldInv
  <2>5. QED
    BY <1>3, <1>4, <2>1, <2>2, <2>4
<1>9. QED
  BY <1>3, <1>6, <1>7, <1>8

\* Every step keeps the invariant.
LEMMA NextInv ==
  ASSUME BInv, [Next]_vars
  PROVE  BInv'
<1> USE DEF reqVars, histVars
<1>1. ASSUME NEW r \in Requests, Snapshot(r) PROVE BInv'
  <2>1. PICK t \in ReadClock : breaker' = Eval(breaker, t)
    BY <1>1 DEF Snapshot
  <2>2. /\ UNCHANGED <<now, result, clock, orphaned, pins, resets, lastTrip, applied, overtaken>>
        /\ pc' \in [Requests -> {"idle", "choosing", "sent", "reporting"}]
        /\ \A q \in Requests \ {r} : pc'[q] = pc[q]
        /\ pc'[r] = "choosing" => breaker'.state # "open"
    BY <1>1 DEF Snapshot, BInv, TypeOK
  <2>3. breaker' \in BreakerType /\ ClosedIsHealthy' /\ ShieldInv'
    BY <2>1, <2>2, EvalInv
  <2>4. SnapshotInv'
    BY <2>2, <2>3 DEF BInv, SnapshotInv, ShieldInv
  <2>5. QED
    BY <2>2, <2>3, <2>4 DEF BInv, TypeOK
<1>2. CASE Look
  <2>1. PICK t \in ReadClock : breaker' = Eval(breaker, t)
    BY <1>2 DEF Look
  <2>2. UNCHANGED <<now, pc, result, clock, orphaned, pins, resets, lastTrip, applied, overtaken>>
    BY <1>2 DEF Look
  <2>3. breaker' \in BreakerType /\ ClosedIsHealthy' /\ ShieldInv'
    BY <2>1, <2>2, EvalInv
  <2>4. QED
    BY <2>2, <2>3 DEF BInv, TypeOK, SnapshotInv
<1>3. ASSUME NEW r \in Requests, Choose(r) \/ SendPinned(r) \/ StartReport(r) \/ Ignore(r)
      PROVE  BInv'
  <2>1. /\ UNCHANGED <<now, breaker, lastTrip, applied, resets, orphaned>>
        /\ overtaken \ {r} \subseteq overtaken' /\ overtaken' \subseteq overtaken
    BY <1>3 DEF Choose, SendPinned, StartReport, Ignore
  <2>2. /\ pc' \in [Requests -> {"idle", "choosing", "sent", "reporting"}]
        /\ \A q \in Requests \ {r} : pc'[q] = pc[q]
        /\ pc'[r] # "choosing" /\ pins' \in 0..MaxPinned
        /\ result' \in [Requests -> Results] /\ clock' \in [Requests -> 0..MaxTime]
    BY <1>3, BoundsAssumption
       DEF Choose, SendPinned, StartReport, Ignore, BInv, TypeOK, Results
  <2>3. SnapshotInv'
    BY <2>1, <2>2 DEF BInv, SnapshotInv
  <2>4. QED
    BY <2>1, <2>2, <2>3 DEF BInv, TypeOK, ClosedIsHealthy, ShieldInv
<1>4. ASSUME NEW r \in Requests, ApplyReport(r) PROVE BInv'
  <2>1. /\ UNCHANGED <<now, pins, resets>> /\ orphaned' \subseteq Requests
        /\ pc' \in [Requests -> {"idle", "choosing", "sent", "reporting"}]
        /\ \A q \in Requests : pc'[q] = "choosing" => pc[q] = "choosing"
        /\ result' \in [Requests -> Results] /\ clock' \in [Requests -> 0..MaxTime]
    BY <1>4, BoundsAssumption DEF ApplyReport, BInv, TypeOK, Results
  <2>2. CASE r \in orphaned
    <3>1. UNCHANGED <<breaker, lastTrip, applied, overtaken>>
      BY <1>4, <2>2 DEF ApplyReport
    <3>2. QED
      BY <2>1, <3>1 DEF BInv, TypeOK, ClosedIsHealthy, ShieldInv, SnapshotInv
  <2>3. CASE r \notin orphaned
    <3>1. /\ breaker' \in BreakerType /\ lastTrip' \in 0..MaxTime \cup {None}
          /\ ClosedIsHealthy' /\ ShieldInv'
      BY <1>4, <2>3, ReportInv
    <3>2. applied' \in [Epochs -> Counts]
      <4>1. applied' = NoneApplied
            \/ applied' = [applied EXCEPT ![BucketEpoch(clock[r])] =
                                 Add(applied[BucketEpoch(clock[r])], result[r])]
        BY <1>4, <2>3 DEF ApplyReport
      <4>2. NoneApplied \in [Epochs -> Counts]
        BY ZeroType DEF NoneApplied
      <4>3. ASSUME NEW e \in Epochs PROVE Add(applied[e], result[r]) \in Counts
        BY AddType DEF BInv, TypeOK
      <4>4. QED
        BY <4>1, <4>2, <4>3 DEF BInv, TypeOK
    <3>3. \/ overtaken' = {q \in Requests : pc[q] = "choosing"}
          \/ UNCHANGED <<lastTrip, overtaken>>
      BY <1>4, <2>3 DEF ApplyReport
    <3>4. SnapshotInv' /\ overtaken' \subseteq Requests
      BY <2>1, <3>3 DEF BInv, SnapshotInv, TypeOK
    <3>5. QED
      BY <2>1, <3>1, <3>2, <3>4 DEF BInv, TypeOK
  <2>4. QED
    BY <2>2, <2>3
<1>5. CASE ResetChannelBreaker
  <2>1. /\ UNCHANGED <<now, pc, result, clock, pins>> /\ orphaned' \subseteq Requests
        /\ breaker' = NewBreaker /\ lastTrip' = None /\ resets' \in 0..MaxResets
        /\ applied' = NoneApplied /\ overtaken' = {}
    BY <1>5, BoundsAssumption DEF ResetChannelBreaker, BInv, TypeOK
  <2>2. applied' \in [Epochs -> Counts]
    BY <2>1, ZeroType DEF NoneApplied
  <2>3. ClosedIsHealthy' /\ ShieldInv' /\ SnapshotInv'
    BY <2>1, ConfigAssumption DEF NewBreaker, ClosedIsHealthy, ShieldInv, SnapshotInv
  <2>4. QED
    BY <2>1, <2>2, <2>3, NewBreakerType DEF BInv, TypeOK
<1>6. CASE Tick
  <2>1. /\ UNCHANGED <<breaker, pc, result, clock, orphaned, pins, resets, lastTrip, overtaken>>
        /\ now' \in 0..MaxTime /\ now' = now + 1
    BY <1>6, BoundsAssumption DEF Tick, BInv, TypeOK
  <2>2. applied' \in [Epochs -> Counts]
    <3>1. \A e \in Epochs : applied[e] \in Counts
      BY DEF BInv, TypeOK
    <3>2. QED
      BY <1>6, <3>1, ZeroType DEF Tick
  <2>3. now \in Int /\ breaker.openUntil \in Int /\ lastTrip \in Int /\ Cooldown \in Int
    BY ConfigAssumption DEF BInv, TypeOK, BreakerType, None
  <2>4. ClosedIsHealthy' /\ ShieldInv' /\ SnapshotInv'
    BY <2>1, <2>3 DEF BInv, ClosedIsHealthy, ShieldInv, SnapshotInv
  <2>5. QED
    BY <2>1, <2>2, <2>4 DEF BInv, TypeOK
<1>7. CASE UNCHANGED vars
  BY <1>7 DEF vars, BInv, TypeOK, ClosedIsHealthy, ShieldInv, SnapshotInv
<1>8. QED
  BY <1>1, <1>2, <1>3, <1>4, <1>5, <1>6, <1>7 DEF Next, RequestStep

\* For every configuration: the types, no unpunished streak in a closed breaker, and
\* an open or half-open breaker knows its period and leaves "open" only after it.
THEOREM BreakerCorrect == Spec => [](TypeOK /\ ClosedIsHealthy /\ ShieldInv /\ SnapshotInv)
<1>1. Init => BInv
  BY InitInv
<1>2. BInv /\ [Next]_vars => BInv'
  BY NextInv
<1>3. QED
  BY <1>1, <1>2, PTL DEF Spec, BInv

\* A step that opens the breaker is a report.
LEMMA OpensByReport ==
  ASSUME BInv, [Next]_vars, breaker.state # "open", breaker'.state = "open"
  PROVE  \E r \in Requests : ApplyReport(r) /\ r \notin orphaned
<1>1. breaker' # breaker
  OBVIOUS
<1>2. ASSUME NEW t \in ReadClock PROVE breaker' # Eval(breaker, t)
  <2>1. breaker \in BreakerType /\ t \in Nat
    BY DEF BInv, TypeOK, ReadClock
  <2>2. QED
    BY <2>1, EvalEffect
<1>3. breaker' # NewBreaker
  BY DEF NewBreaker
<1>4. QED
  BY <1>1, <1>2, <1>3 DEF Next, RequestStep, Snapshot, Choose, SendPinned, StartReport,
     Ignore, ApplyReport, Look, ResetChannelBreaker, Tick, vars

\* For every configuration: an open period is twice the last one up to the cap, or the
\* base cooldown when a closed breaker trips (tripLocked, report).
THEOREM BackoffCorrect == Spec => BackoffDoubles
<1> DEFINE A == breaker.state # "open" /\ breaker'.state = "open" =>
                  breaker'.openUntil - lastTrip' =
                      IF breaker.state = "closed" THEN Cooldown
                      ELSE BackedOff(breaker.openUntil - lastTrip)
<1>1. BInv /\ [Next]_vars => A
  <2> SUFFICES ASSUME BInv, [Next]_vars, breaker.state # "open", breaker'.state = "open"
               PROVE  breaker'.openUntil - lastTrip' =
                        IF breaker.state = "closed" THEN Cooldown
                        ELSE BackedOff(breaker.openUntil - lastTrip)
    OBVIOUS
  <2>1. PICK r \in Requests : ApplyReport(r) /\ r \notin orphaned
    BY OpensByReport
  <2> DEFINE d == IF breaker.state = "closed" THEN Cooldown ELSE breaker.cooldown
  <2>2. lastTrip' = clock[r] /\ breaker'.openUntil = clock[r] + d
    BY <2>1, ReportInv
  <2>3. d \in Int /\ clock[r] \in Int
    BY ConfigAssumption DEF BInv, TypeOK, BreakerType
  <2>4. breaker'.openUntil - lastTrip' = d
    BY <2>2, <2>3
  <2>5. breaker.state # "closed" => breaker.cooldown = BackedOff(breaker.openUntil - lastTrip)
    BY DEF BInv, ShieldInv
  <2>6. QED
    BY <2>4, <2>5
<1>2. Init => BInv
  BY InitInv
<1>3. BInv /\ [Next]_vars => BInv'
  BY NextInv
<1>4. QED
  BY <1>1, <1>2, <1>3, PTL DEF Spec, BackoffDoubles

\* For every configuration: selection returns the channel before the cooldown after its
\* last trip is over only to a request whose snapshot the trip overtook, and then once,
\* unless an administrator reset the breaker.
THEOREM ShieldCorrect == Spec => ShieldHolds
<1> DEFINE A == \A r \in Requests \ Pinned :
          pc[r] # "sent" /\ pc'[r] = "sent" /\ lastTrip # None =>
              now >= lastTrip + Cooldown \/ r \in overtaken \ overtaken'
<1>1. BInv /\ [Next]_vars => A
  <2> SUFFICES ASSUME BInv, [Next]_vars, NEW r \in Requests \ Pinned,
                      pc[r] # "sent", pc'[r] = "sent", lastTrip # None
               PROVE  now >= lastTrip + Cooldown \/ r \in overtaken \ overtaken'
    OBVIOUS
  <2>1. pc \in [Requests -> {"idle", "choosing", "sent", "reporting"}]
    BY DEF BInv, TypeOK
  <2>2. Choose(r)
    BY <2>1 DEF Next, RequestStep, Snapshot, Choose, SendPinned, StartReport, Ignore,
       ApplyReport, Look, ResetChannelBreaker, Tick, vars, reqVars
  <2>3. QED
    BY <2>2 DEF Choose, BInv, SnapshotInv
<1>2. Init => BInv
  BY InitInv
<1>3. BInv /\ [Next]_vars => BInv'
  BY NextInv
<1>4. QED
  BY <1>1, <1>2, <1>3, PTL DEF Spec, ShieldHolds
-----------------------------------------------------------------------------
(***************************************************************************)
(* The window.  A slot keeps its count for one epoch; the epochs of the    *)
(* window have different slots, and no report comes so late that it takes  *)
(* the slot of a newer epoch.                                              *)
(***************************************************************************)
\* Two epochs less than a turn of the ring apart that share a slot are the same.
LEMMA OneTurn ==
  ASSUME NEW e \in Int, NEW f \in Int, e % Buckets = f % Buckets,
         e - f < Buckets, f - e < Buckets
  PROVE  e = f
<1>1. PICK B \in Nat \ {0} : B = Buckets
  BY BoundsAssumption
<1>2. PICK p \in Int, q \in Int, k \in Int : e = B * p + k /\ f = B * q + k
  <2>1. /\ e \div B \in Int /\ e % B \in Int /\ e = B * (e \div B) + (e % B)
        /\ f \div B \in Int /\ f = B * (f \div B) + (f % B)
    OBVIOUS
  <2>2. e % B = f % B
    BY <1>1
  <2> QED BY <2>1, <2>2
<1>3. e - f = B * (p - q) /\ f - e = B * (q - p)
  BY <1>2
<1>4. p = q
  <2>1. CASE p - q >= 1
    BY <1>1, <1>3, <2>1
  <2>2. CASE q - p >= 1
    BY <1>1, <1>3, <2>2
  <2> QED BY <2>1, <2>2
<1> QED BY <1>2, <1>4

\* Time orders epochs, and a lag of less than a turn keeps a report in the window.
LEMMA EpochOrder ==
  ASSUME NEW t \in Nat, NEW u \in Nat, u <= t
  PROVE  /\ BucketEpoch(u) <= BucketEpoch(t)
         /\ t - u <= (Buckets - 1) * BucketDur => BucketEpoch(u) >= MinEpoch(t)
<1>1. /\ BucketEpoch(u) <= BucketEpoch(t)
  BY BoundsAssumption DEF BucketEpoch
<1>2. ASSUME t - u <= (Buckets - 1) * BucketDur PROVE BucketEpoch(u) >= MinEpoch(t)
  BY <1>2, BoundsAssumption DEF BucketEpoch, MinEpoch
<1> QED BY <1>1, <1>2

\* A report gets the lock before its epoch has left the window.  The clock is read just
\* before the lock is taken; a turn of the ring is the window of two minutes.
LagShort == MaxLag <= (Buckets - 1) * BucketDur

\* The reports that wait have waited no longer than that.
LagInv == \A r \in Requests : pc[r] = "reporting" => clock[r] <= now /\ now - clock[r] <= MaxLag

\* What the ring w holds of epoch e.
Kept(w, e) == IF w[e % Buckets].epoch = e THEN w[e % Buckets].count ELSE Zero

\* At time t the ring w holds no sample of the future or of another slot, and of each
\* epoch of the window all the samples that app has of it.
Ring(w, app, t) ==
    /\ \A i \in Slots : /\ w[i].epoch <= BucketEpoch(t)
                        /\ w[i].count = Zero \/ w[i].epoch % Buckets = i
    /\ \A e \in Epochs : e >= MinEpoch(t) => app[e] = Kept(w, e)

RingInv == Ring(breaker.buckets, applied, now)

\* The ring after recordLocked.
Recorded(w, e, res) ==
    [w EXCEPT ![e % Buckets] = [epoch |-> e, count |-> Add(Kept(w, e), res)]]

\* Epochs and slots are finite and every epoch has a slot.
LEMMA EpochSlots ==
  /\ Epochs \subseteq Nat /\ \A e \in Epochs : e % Buckets \in Slots
  /\ IsFiniteSet(Slots) /\ IsFiniteSet(Epochs)
<1>1. MaxTime \in Nat
  BY BoundsAssumption
<1>2. PICK last \in Nat : Epochs = 0..last
  BY <1>1, SlotOfEpoch DEF Epochs
<1>3. Epochs \subseteq Nat /\ \A e \in Epochs : e % Buckets \in Slots
  BY <1>2, BoundsAssumption DEF Slots
<1>4. IsFiniteSet(Slots) /\ IsFiniteSet(Epochs)
  <2>1. 0 \in Int /\ Buckets - 1 \in Int /\ last \in Int
    BY BoundsAssumption
  <2> QED BY <1>2, <2>1, FS_Interval DEF Slots
<1> QED BY <1>3, <1>4

\* The sums over the slots and over the epochs, for one of the counters.
LEMMA RingSum ==
  ASSUME NEW ep \in [Slots -> Nat], NEW f, NEW g, NEW t \in 0..MaxTime,
         \A i \in Slots : f[i] \in Int,
         \A i \in Slots : ep[i] <= BucketEpoch(t) /\ (f[i] = 0 \/ ep[i] % Buckets = i),
         \A e \in Epochs : e >= MinEpoch(t) =>
             g[e] = IF ep[e % Buckets] = e THEN f[e % Buckets] ELSE 0
  PROVE  SumFunctionOnSet(f, {i \in Slots : ep[i] >= MinEpoch(t)})
            = SumFunctionOnSet(g, {e \in Epochs : e >= MinEpoch(t)})
<1> DEFINE m == MinEpoch(t)
           S == {i \in Slots : ep[i] >= m}
           W == {e \in Epochs : e >= m}
           A == {i \in S : ep[i] % Buckets = i}
           V == {e \in W : ep[e % Buckets] = e}
<1>1. /\ t \in Nat /\ MaxTime \in Nat /\ m \in Int /\ BucketEpoch(t) \in Nat
      /\ BucketEpoch(t) <= BucketEpoch(MaxTime) /\ BucketEpoch(MaxTime) \in Nat
  BY BoundsAssumption, EpochOrder, SlotOfEpoch DEF MinEpoch
<1>2. Epochs \subseteq Nat /\ \A e \in Epochs : e % Buckets \in Slots
  BY EpochSlots
<1>3. IsFiniteSet(S) /\ IsFiniteSet(W) /\ IsFiniteSet(A)
  <2>1. IsFiniteSet(Slots) /\ IsFiniteSet(Epochs)
    BY EpochSlots
  <2> QED BY <2>1, FS_Subset
<1>4. Summable(f, S) /\ Summable(f, A)
  BY <1>3 DEF Summable
<1>5. Summable(g, W)
  <2>1. \A e \in W : g[e] \in Int
    BY <1>2
  <2> QED BY <1>3, <2>1 DEF Summable
<1>6. /\ A \in SUBSET S /\ V \in SUBSET W
      /\ (\A i \in A : f[i] = f[i]) /\ (\A i \in S \ A : f[i] = 0)
      /\ (\A e \in V : g[e] = g[e]) /\ (\A e \in W \ V : g[e] = 0)
  <2>1. \A i \in S \ A : f[i] = 0
    OBVIOUS
  <2>2. \A e \in W \ V : g[e] = 0
    OBVIOUS
  <2> QED BY <2>1, <2>2
<1>7. V = {ep[i] : i \in A}
  <2>1. ASSUME NEW i \in A PROVE ep[i] \in V
    <3>1. ep[i] \in Nat /\ ep[i] <= BucketEpoch(t)
      OBVIOUS
    <3>2. ep[i] \in Epochs
      BY <1>1, <3>1 DEF Epochs
    <3> QED BY <3>2
  <2>2. ASSUME NEW e \in V PROVE \E i \in A : e = ep[i]
    <3>1. e % Buckets \in A /\ e = ep[e % Buckets]
      BY <1>2
    <3> QED BY <3>1
  <2> QED BY <2>1, <2>2
<1>8. /\ \A i \in A : g[ep[i]] = f[i]
      /\ \A i, j \in A : ep[i] = ep[j] => i = j
  <2>1. ASSUME NEW i \in A PROVE g[ep[i]] = f[i]
    <3>1. ep[i] \in Epochs /\ ep[i] >= m
      BY <1>7
    <3>2. ep[i] % Buckets = i
      OBVIOUS
    <3> QED BY <3>1, <3>2
  <2>2. \A i, j \in A : ep[i] = ep[j] => i = j
    OBVIOUS
  <2> QED BY <2>1, <2>2
<1> HIDE DEF S, W, A, V, m
<1>9. SumFunctionOnSet(f, S) = SumFunctionOnSet(f, A)
  BY <1>4, <1>6, SumFilter
<1>10. SumFunctionOnSet(g, W) = SumFunctionOnSet(g, V)
  BY <1>5, <1>6, SumFilter
<1>11. SumFunctionOnSet(f, A) = SumFunctionOnSet(g, {ep[i] : i \in A})
  BY <1>4, <1>8, SumRename
<1> QED BY <1>7, <1>9, <1>10, <1>11 DEF S, W, m
\* The same, with the functions cut down to the sets that are summed over.
LEMMA RingField ==
  ASSUME NEW ep \in [Slots -> Nat], NEW F, NEW G, NEW t \in 0..MaxTime,
         \A i \in Slots : F[i] \in Int,
         \A i \in Slots : ep[i] <= BucketEpoch(t) /\ (F[i] = 0 \/ ep[i] % Buckets = i),
         \A e \in Epochs : e >= MinEpoch(t) =>
             G[e] = IF ep[e % Buckets] = e THEN F[e % Buckets] ELSE 0,
         NEW S, S = {i \in Slots : ep[i] >= MinEpoch(t)},
         NEW W, W = {e \in Epochs : e >= MinEpoch(t)},
         NEW f, \A i \in S : f[i] = F[i], NEW g, \A e \in W : g[e] = G[e]
  PROVE  SumFunctionOnSet(f, S) = SumFunctionOnSet(g, W)
<1>1. \A e \in Epochs : e % Buckets \in Slots
  BY EpochSlots
<1>2. \A e \in W : G[e] \in Int
  BY <1>1
<1>3. Summable(F, S) /\ Summable(G, W)
  <2>1. IsFiniteSet(Slots) /\ IsFiniteSet(Epochs)
    BY EpochSlots
  <2>2. IsFiniteSet(S) /\ IsFiniteSet(W)
    BY <2>1, FS_Subset
  <2> QED BY <1>2, <2>2 DEF Summable
<1>4. SumFunctionOnSet(F, S) = SumFunctionOnSet(G, W)
  BY RingSum
<1>5. SumFunctionOnSet(F, S) = SumFunctionOnSet(f, S)
  BY <1>3, SumSame
<1>6. SumFunctionOnSet(G, W) = SumFunctionOnSet(g, W)
  BY <1>3, SumSame
<1> QED BY <1>4, <1>5, <1>6

\* A ring that satisfies Ring counts its window exactly.
LEMMA RingMeans ==
  ASSUME NEW b \in BreakerType, NEW app \in [Epochs -> Counts], NEW t \in 0..MaxTime,
         Ring(b.buckets, app, t)
  PROVE  Window(b, t) = SumCounts(app, {e \in Epochs : e >= MinEpoch(t)})
<1> DEFINE w == b.buckets
           count == [i \in Slots |-> w[i].count]
           ep == [i \in Slots |-> w[i].epoch]
           S == {i \in Slots : w[i].epoch >= MinEpoch(t)}
           W == {e \in Epochs : e >= MinEpoch(t)}
<1>1. /\ w \in [Slots -> Bucket] /\ ep \in [Slots -> Nat]
      /\ \A i \in Slots : w[i].count \in Counts
  BY DEF BreakerType, Bucket
<1>2. S = {i \in Slots : ep[i] >= MinEpoch(t)} /\ S \subseteq Slots
  OBVIOUS
<1>3. \A e \in Epochs : e % Buckets \in Slots
  BY EpochSlots
<1>4. /\ \A i \in Slots : /\ ep[i] <= BucketEpoch(t)
                          /\ w[i].count = Zero \/ ep[i] % Buckets = i
      /\ \A e \in Epochs : e >= MinEpoch(t) =>
            app[e] = IF ep[e % Buckets] = e THEN w[e % Buckets].count ELSE Zero
  BY <1>3 DEF Ring, Kept
<1>6. Zero.total = 0 /\ Zero.fatal = 0 /\ Zero.transient = 0
  BY DEF Zero
<1>7. SumFunctionOnSet([x \in S |-> count[x].total], S)
         = SumFunctionOnSet([x \in W |-> app[x].total], W)
  <2> DEFINE F == [i \in Slots |-> w[i].count.total]
             G == [e \in Epochs |-> app[e].total]
             f == [x \in S |-> count[x].total]
             g == [x \in W |-> app[x].total]
  <2>1. /\ \A i \in Slots : F[i] \in Int
        /\ \A i \in Slots : ep[i] <= BucketEpoch(t) /\ (F[i] = 0 \/ ep[i] % Buckets = i)
    BY <1>1, <1>4, <1>6 DEF Counts
  <2>2. \A e \in Epochs : e >= MinEpoch(t) =>
            G[e] = IF ep[e % Buckets] = e THEN F[e % Buckets] ELSE 0
    BY <1>3, <1>4, <1>6
  <2>3. (\A i \in S : f[i] = F[i]) /\ \A e \in W : g[e] = G[e]
    BY <1>2
  <2>4. ep \in [Slots -> Nat] /\ S = {i \in Slots : ep[i] >= MinEpoch(t)}
    BY <1>1, <1>2
  <2>5. W = {e \in Epochs : e >= MinEpoch(t)}
    OBVIOUS
  <2> HIDE DEF F, G, f, g, ep, S, W
  <2>6. SumFunctionOnSet(f, S) = SumFunctionOnSet(g, W)
    BY <2>1, <2>2, <2>3, <2>4, <2>5, RingField
  <2> QED BY <2>6 DEF f, g
<1>8. SumFunctionOnSet([x \in S |-> count[x].fatal], S)
         = SumFunctionOnSet([x \in W |-> app[x].fatal], W)
  <2> DEFINE F == [i \in Slots |-> w[i].count.fatal]
             G == [e \in Epochs |-> app[e].fatal]
             f == [x \in S |-> count[x].fatal]
             g == [x \in W |-> app[x].fatal]
  <2>1. /\ \A i \in Slots : F[i] \in Int
        /\ \A i \in Slots : ep[i] <= BucketEpoch(t) /\ (F[i] = 0 \/ ep[i] % Buckets = i)
    BY <1>1, <1>4, <1>6 DEF Counts
  <2>2. \A e \in Epochs : e >= MinEpoch(t) =>
            G[e] = IF ep[e % Buckets] = e THEN F[e % Buckets] ELSE 0
    BY <1>3, <1>4, <1>6
  <2>3. (\A i \in S : f[i] = F[i]) /\ \A e \in W : g[e] = G[e]
    BY <1>2
  <2>4. ep \in [Slots -> Nat] /\ S = {i \in Slots : ep[i] >= MinEpoch(t)}
    BY <1>1, <1>2
  <2>5. W = {e \in Epochs : e >= MinEpoch(t)}
    OBVIOUS
  <2> HIDE DEF F, G, f, g, ep, S, W
  <2>6. SumFunctionOnSet(f, S) = SumFunctionOnSet(g, W)
    BY <2>1, <2>2, <2>3, <2>4, <2>5, RingField
  <2> QED BY <2>6 DEF f, g
<1>9. SumFunctionOnSet([x \in S |-> count[x].transient], S)
         = SumFunctionOnSet([x \in W |-> app[x].transient], W)
  <2> DEFINE F == [i \in Slots |-> w[i].count.transient]
             G == [e \in Epochs |-> app[e].transient]
             f == [x \in S |-> count[x].transient]
             g == [x \in W |-> app[x].transient]
  <2>1. /\ \A i \in Slots : F[i] \in Int
        /\ \A i \in Slots : ep[i] <= BucketEpoch(t) /\ (F[i] = 0 \/ ep[i] % Buckets = i)
    BY <1>1, <1>4, <1>6 DEF Counts
  <2>2. \A e \in Epochs : e >= MinEpoch(t) =>
            G[e] = IF ep[e % Buckets] = e THEN F[e % Buckets] ELSE 0
    BY <1>3, <1>4, <1>6
  <2>3. (\A i \in S : f[i] = F[i]) /\ \A e \in W : g[e] = G[e]
    BY <1>2
  <2>4. ep \in [Slots -> Nat] /\ S = {i \in Slots : ep[i] >= MinEpoch(t)}
    BY <1>1, <1>2
  <2>5. W = {e \in Epochs : e >= MinEpoch(t)}
    OBVIOUS
  <2> HIDE DEF F, G, f, g, ep, S, W
  <2>6. SumFunctionOnSet(f, S) = SumFunctionOnSet(g, W)
    BY <2>1, <2>2, <2>3, <2>4, <2>5, RingField
  <2> QED BY <2>6 DEF f, g
<1>10. Window(b, t) = SumCounts(count, S)
  BY DEF Window
<1> HIDE DEF S, W, count
<1>11. SumCounts(count, S) = SumCounts(app, W)
  BY <1>7, <1>8, <1>9 DEF SumCounts
<1> QED BY <1>10, <1>11 DEF W
\* The ring of a report: recordLocked, or the empty window after a recovery.
LEMMA ReportedRing ==
  ASSUME NEW b \in BreakerType, NEW u \in Nat, NEW res \in Results, NEW n \in Reported(b, u, res)
  PROVE  \/ /\ n.buckets = Recorded(b.buckets, BucketEpoch(u), res)
            /\ ~(b.state # "closed" /\ n.state = "closed")
         \/ /\ n.buckets = EmptyWindow
            /\ b.state # "closed" /\ n.state = "closed"
<1> DEFINE c == Counted(b, u, res)
           h == [c EXCEPT !.halfOpenSuccess = @ + 1]
           k == [c EXCEPT !.cooldown = Cooldown]
           w == Recorded(b.buckets, BucketEpoch(u), res)
<1>1. c \in BreakerType /\ c.state = b.state
  BY CountedEffect
<1>2. c.buckets = w
  <2> DEFINE a == Record(b, u, res)
             j == CASE res = "success" -> 0
                    [] res = "fatal" -> a.consecFatal + 1
                    [] OTHER -> a.consecFatal
  <2>1. a = [b EXCEPT !.buckets = w]
    BY DEF Record, Recorded, Kept
  <2>2. a.buckets = w
    BY <2>1 DEF BreakerType
  <2>3. c = [a EXCEPT !.consecFatal = j] /\ a \in BreakerType
    BY RecordEffect DEF Counted
  <2> HIDE DEF a, j
  <2>4. c.buckets = a.buckets
    BY <2>3 DEF BreakerType
  <2> QED BY <2>2, <2>4
<1> HIDE DEF c, w
<1>3. h \in BreakerType /\ h.state = c.state /\ h.buckets = c.buckets
  BY <1>1 DEF BreakerType
<1>4. k \in BreakerType /\ k.buckets = c.buckets
  BY <1>1, ConfigAssumption DEF BreakerType
<1>5. \A x \in BreakerType : /\ Trip(x, u).buckets = x.buckets /\ Trip(x, u).state = "open"
                             /\ Recovered(x).buckets = EmptyWindow /\ Recovered(x).state = "closed"
  BY DEF Trip, Recovered, BreakerType
<1>6. b.state \in States
  BY DEF BreakerType
<1> HIDE DEF h, k
<1>7. CASE b.state = "halfOpen"
  <2>1. n \in {Trip(c, u), Recovered(h), h}
    BY <1>7 DEF Reported, c, h
  <2> QED BY <1>1, <1>2, <1>3, <1>5, <1>7, <2>1 DEF w
<1>8. CASE b.state = "closed"
  <2>1. n \in {Trip(k, u), c}
    BY <1>8 DEF Reported, c, k
  <2> QED BY <1>1, <1>2, <1>4, <1>5, <1>8, <2>1 DEF w
<1>9. CASE b.state = "open"
  <2>1. n = c
    BY <1>9 DEF Reported, c
  <2> QED BY <1>1, <1>2, <1>9, <2>1 DEF w
<1> QED BY <1>6, <1>7, <1>8, <1>9 DEF States

\* A sample of an epoch in the window goes to that epoch and to no other.
LEMMA RingRecorded ==
  ASSUME NEW w \in [Slots -> Bucket], NEW app \in [Epochs -> Counts], NEW t \in 0..MaxTime,
         NEW x \in Epochs, NEW res, x >= MinEpoch(t), x <= BucketEpoch(t), Ring(w, app, t)
  PROVE  Ring(Recorded(w, x, res), [app EXCEPT ![x] = Add(@, res)], t)
<1> DEFINE s == x % Buckets
           n == Recorded(w, x, res)
           a == [app EXCEPT ![x] = Add(@, res)]
<1>1. /\ s \in Slots /\ x \in Nat /\ t \in Nat /\ BucketEpoch(t) \in Nat
      /\ Epochs \subseteq Nat /\ \A e \in Epochs : e % Buckets \in Slots
  BY EpochSlots, SlotOfEpoch, BoundsAssumption
<1>2. /\ n[s] = [epoch |-> x, count |-> Add(Kept(w, x), res)]
      /\ \A i \in Slots \ {s} : n[i] = w[i]
  BY <1>1 DEF Recorded
<1>3. n[s].epoch = x /\ n[s].count = Add(Kept(w, x), res)
  BY <1>2
<1>4. /\ \A i \in Slots : /\ w[i].epoch <= BucketEpoch(t)
                          /\ w[i].count = Zero \/ w[i].epoch % Buckets = i
      /\ \A e \in Epochs : e >= MinEpoch(t) => app[e] = Kept(w, e)
  BY DEF Ring
<1>5. a[x] = Add(app[x], res) /\ \A e \in Epochs \ {x} : a[e] = app[e]
  OBVIOUS
<1> HIDE DEF n, a
<1>6. ASSUME NEW i \in Slots
      PROVE  n[i].epoch <= BucketEpoch(t) /\ (n[i].count = Zero \/ n[i].epoch % Buckets = i)
  <2>1. CASE i = s
    BY <1>3, <2>1
  <2>2. CASE i # s
    BY <1>2, <1>4, <2>2
  <2> QED BY <2>1, <2>2
<1>7. ASSUME NEW e \in Epochs, e >= MinEpoch(t) PROVE a[e] = Kept(n, e)
  <2>1. CASE e = x
    BY <1>3, <1>4, <1>5, <2>1 DEF Kept
  <2>2. CASE e # x /\ e % Buckets = s
    <3>1. ~(e <= BucketEpoch(t))
      <4> SUFFICES ASSUME e <= BucketEpoch(t) PROVE FALSE
        OBVIOUS
      <4>1. e \in Int /\ x \in Int /\ e - x < Buckets /\ x - e < Buckets
        BY <1>1, <1>7, BoundsAssumption DEF MinEpoch
      <4> QED BY <2>2, <4>1, OneTurn
    <3>2. Kept(n, e) = Zero
      BY <1>3, <2>2 DEF Kept
    <3>3. w[s].epoch # e
      BY <1>1, <1>4, <3>1
    <3>4. Kept(w, e) = Zero
      BY <2>2, <3>3 DEF Kept
    <3> QED BY <1>4, <1>5, <1>7, <2>2, <3>2, <3>4
  <2>3. CASE e % Buckets # s
    <3>1. Kept(n, e) = Kept(w, e)
      BY <1>1, <1>2, <2>3 DEF Kept
    <3> QED BY <1>4, <1>5, <1>7, <2>3, <3>1
  <2> QED BY <2>1, <2>2, <2>3
<1> QED BY <1>6, <1>7 DEF Ring, n, a

\* An empty ring.
LEMMA RingEmpty ==
  ASSUME NEW t \in 0..MaxTime
  PROVE  Ring(EmptyWindow, NoneApplied, t)
<1>1. BucketEpoch(t) \in Nat /\ \A e \in Epochs : e % Buckets \in Slots
  BY EpochSlots, SlotOfEpoch, BoundsAssumption
<1> QED BY <1>1 DEF Ring, Kept, EmptyWindow, NoneApplied

\* The window moves on.
LEMMA RingTick ==
  ASSUME NEW w \in [Slots -> Bucket], NEW app, NEW t \in Nat, t + 1 <= MaxTime, Ring(w, app, t)
  PROVE  Ring(w, [e \in Epochs |-> IF e >= MinEpoch(t + 1) THEN app[e] ELSE Zero], t + 1)
<1>1. /\ BucketEpoch(t) <= BucketEpoch(t + 1)
      /\ BucketEpoch(t) \in Nat /\ BucketEpoch(t + 1) \in Nat
  BY EpochOrder, SlotOfEpoch
<1>2. MinEpoch(t) <= MinEpoch(t + 1) /\ MinEpoch(t) \in Int /\ MinEpoch(t + 1) \in Int
  BY <1>1, BoundsAssumption DEF MinEpoch
<1>3. \A i \in Slots : w[i].epoch \in Nat
  BY DEF Bucket
<1>4. Epochs \subseteq Nat
  BY EpochSlots
<1>5. \A e \in Epochs : e >= MinEpoch(t + 1) => e >= MinEpoch(t)
  BY <1>2, <1>4
<1> QED BY <1>1, <1>3, <1>5 DEF Ring
\* evalLocked does not touch the ring.
LEMMA EvalRing ==
  ASSUME NEW b \in BreakerType, NEW t
  PROVE  Eval(b, t).buckets = b.buckets
  BY DEF Eval, BreakerType

\* A report that waits for the lock ages with the clock, and Tick waits for it.
LEMMA LagStep ==
  ASSUME TypeOK, LagInv, [Next]_vars
  PROVE  LagInv'
<1>0. now \in Int /\ MaxLag \in Nat /\ \A q \in Requests : clock[q] \in Int
  BY BoundsAssumption DEF TypeOK
<1>1. CASE Tick
  BY <1>0, <1>1 DEF Tick, reqVars, LagInv
<1>2. CASE UNCHANGED <<now, pc, clock>>
  BY <1>2 DEF LagInv
<1>3. ASSUME NEW r \in Requests, RequestStep(r) PROVE LagInv'
  <2>1. /\ now' = now
        /\ \A q \in Requests \ {r} : pc'[q] = pc[q] /\ clock'[q] = clock[q]
        /\ pc'[r] = "reporting" => clock'[r] = now
    BY <1>3 DEF RequestStep, Snapshot, Choose, SendPinned, StartReport, Ignore, ApplyReport, TypeOK
  <2> QED BY <1>0, <2>1 DEF LagInv
<1> QED BY <1>1, <1>2, <1>3 DEF Next, Look, ResetChannelBreaker, vars, reqVars

\* Every step keeps the ring.
LEMMA RingStep ==
  ASSUME LagShort, TypeOK, LagInv, RingInv, [Next]_vars
  PROVE  RingInv'
<1> DEFINE w == breaker.buckets
<1>0. /\ breaker \in BreakerType /\ w \in [Slots -> Bucket] /\ applied \in [Epochs -> Counts]
      /\ now \in 0..MaxTime /\ now \in Nat /\ Ring(w, applied, now)
  BY BoundsAssumption DEF TypeOK, BreakerType, RingInv
<1>1. CASE Tick
  <2>1. /\ now' = now + 1 /\ now + 1 <= MaxTime /\ breaker' = breaker
        /\ applied' = [e \in Epochs |-> IF e >= MinEpoch(now + 1) THEN applied[e] ELSE Zero]
    BY <1>0, <1>1, BoundsAssumption DEF Tick
  <2>2. Ring(w, applied', now + 1)
    BY <1>0, <2>1, RingTick
  <2> QED BY <2>1, <2>2 DEF RingInv
<1>2. CASE ResetChannelBreaker
  <2>1. breaker'.buckets = EmptyWindow /\ applied' = NoneApplied /\ now' = now
    BY <1>2 DEF ResetChannelBreaker, NewBreaker
  <2> QED BY <1>0, <2>1, RingEmpty DEF RingInv
<1>3. CASE UNCHANGED <<applied, now>> /\ breaker'.buckets = breaker.buckets
  BY <1>3 DEF RingInv
<1>4. ASSUME NEW r \in Requests, ApplyReport(r), r \notin orphaned PROVE RingInv'
  <2> DEFINE x == BucketEpoch(clock[r])
  <2>1. /\ now' = now /\ breaker' \in Reported(breaker, clock[r], result[r])
        /\ applied' = IF Cleared(breaker') THEN NoneApplied
                      ELSE [applied EXCEPT ![x] = Add(@, result[r])]
    BY <1>4 DEF ApplyReport
  <2>2. /\ clock[r] \in Nat /\ clock[r] <= now /\ now - clock[r] <= MaxLag
        /\ result[r] \in Results
    BY <1>4 DEF TypeOK, LagInv, ApplyReport
  <2>3. now - clock[r] <= (Buckets - 1) * BucketDur
    BY <1>0, <2>2, BoundsAssumption DEF LagShort
  <2>4. x >= MinEpoch(now) /\ x <= BucketEpoch(now) /\ x \in Nat
    BY <1>0, <2>2, <2>3, EpochOrder, SlotOfEpoch
  <2>5. x \in Epochs
    <3>1. MaxTime \in Nat /\ now <= MaxTime
      BY <1>0, BoundsAssumption
    <3>2. BucketEpoch(now) <= BucketEpoch(MaxTime) /\ BucketEpoch(now) \in Nat
          /\ BucketEpoch(MaxTime) \in Nat
      BY <1>0, <3>1, EpochOrder, SlotOfEpoch
    <3> QED BY <2>4, <3>2 DEF Epochs
  <2>6. CASE /\ breaker'.buckets = Recorded(w, x, result[r])
             /\ ~(breaker.state # "closed" /\ breaker'.state = "closed")
    <3>1. applied' = [applied EXCEPT ![x] = Add(@, result[r])]
      BY <2>1, <2>6 DEF Cleared
    <3> HIDE DEF x, w
    <3>2. Ring(Recorded(w, x, result[r]), [applied EXCEPT ![x] = Add(@, result[r])], now)
      BY <1>0, <2>4, <2>5, RingRecorded
    <3> QED BY <2>1, <2>6, <3>1, <3>2 DEF RingInv
  <2>7. CASE breaker'.buckets = EmptyWindow /\ breaker.state # "closed" /\ breaker'.state = "closed"
    <3>1. applied' = NoneApplied
      BY <2>1, <2>7 DEF Cleared
    <3> QED BY <1>0, <2>1, <2>7, <3>1, RingEmpty DEF RingInv
  <2> QED BY <1>0, <2>1, <2>2, <2>6, <2>7, ReportedRing
<1>5. ASSUME NEW r \in Requests, RequestStep(r), ~(ApplyReport(r) /\ r \notin orphaned)
      PROVE  UNCHANGED <<applied, now>> /\ breaker'.buckets = breaker.buckets
  BY <1>0, <1>5, EvalRing DEF RequestStep, Snapshot, Choose, SendPinned, StartReport, Ignore, ApplyReport,
     histVars
<1>6. Look \/ UNCHANGED vars => UNCHANGED <<applied, now>> /\ breaker'.buckets = breaker.buckets
  BY <1>0, EvalRing DEF Look, vars, histVars
<1> QED BY <1>1, <1>2, <1>3, <1>4, <1>5, <1>6 DEF Next

\* For every configuration in which no report waits for the lock until its epoch has left
\* the window: the ring counts exactly the samples of the window (recordLocked,
\* windowLocked, clearWindowLocked), whatever reports come late, out of order or after a
\* reset.
THEOREM WindowCorrect == LagShort => (Spec => []WindowExact)
<1> SUFFICES ASSUME LagShort PROVE Spec => []WindowExact
  OBVIOUS
<1>1. Init => LagInv /\ RingInv
  <2> SUFFICES ASSUME Init PROVE LagInv /\ RingInv
    OBVIOUS
  <2>1. now \in 0..MaxTime /\ breaker.buckets = EmptyWindow /\ applied = NoneApplied /\ now = 0
    BY BoundsAssumption DEF Init, NewBreaker
  <2>2. RingInv
    BY <2>1, RingEmpty DEF RingInv
  <2>3. LagInv
    BY DEF Init, LagInv
  <2> QED BY <2>2, <2>3
<1>2. TypeOK /\ LagInv /\ RingInv /\ [Next]_vars => LagInv' /\ RingInv'
  BY LagStep, RingStep
<1>3. TypeOK /\ RingInv => WindowExact
  <2> SUFFICES ASSUME TypeOK, RingInv PROVE WindowExact
    OBVIOUS
  <2>1. /\ breaker \in BreakerType /\ applied \in [Epochs -> Counts] /\ now \in 0..MaxTime
        /\ Ring(breaker.buckets, applied, now)
    BY DEF TypeOK, RingInv
  <2> QED BY <2>1, RingMeans DEF WindowExact
<1>4. Spec => []TypeOK
  BY BreakerCorrect, PTL
<1> QED BY <1>1, <1>2, <1>3, <1>4, PTL DEF Spec
=============================================================================
