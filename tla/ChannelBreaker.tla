--------------------------- MODULE ChannelBreaker ---------------------------
(***************************************************************************)
(* The circuit breaker of one channel (service/channel_breaker.go).        *)
(* A relay attempt takes a snapshot of the open breakers, chooses a        *)
(* channel outside it once the locks are released, and reports how it      *)
(* ended.  A report takes the breaker out of the map and reads the clock   *)
(* before it gets the breaker's lock, so reports apply late, out of order, *)
(* in a state other than the one they were sent in, or to a breaker an     *)
(* administrator has replaced meanwhile.                                   *)
(*                                                                         *)
(* lastTrip, applied and overtaken are history variables.  A channel       *)
(* without a breaker is modelled by a new one, which behaves alike.        *)
(***************************************************************************)
EXTENDS Integers, Functions

CONSTANTS
    Requests,         \* relay goroutines; each makes one attempt at a time
    Pinned,           \* those whose channel the token or the affinity cache fixes
    Buckets,          \* breakerBucketCount
    BucketDur,        \* breakerBucketDur()
    MinSamples, TripScorePct, ConsecFatal, Cooldown, MaxCooldown, HalfOpenProbes,
    HealthyFrom,      \* from then on the channel answers every attempt
    MaxTime,          \* bound: the last instant
    MaxLag,           \* bound: how long a clock value waits for the lock
    MaxPinned,        \* bound: attempts of pinned requests
    MaxPerBucket,     \* bound: selections while closed, per bucket
    MaxResets         \* bound: resets by an administrator

\* What InitChannelBreakerConfig enforces, and the bounds.
ASSUME ConfigAssumption ==
    /\ MinSamples \in Nat \ {0} /\ TripScorePct \in 1..100 /\ ConsecFatal \in Nat \ {0}
    /\ Cooldown \in Nat \ {0} /\ MaxCooldown \in Nat /\ MaxCooldown >= Cooldown
    /\ HalfOpenProbes \in Nat \ {0}
ASSUME BoundsAssumption ==
    /\ Buckets \in Nat \ {0} /\ BucketDur \in Nat \ {0} /\ Pinned \subseteq Requests
    /\ HealthyFrom \in Nat /\ MaxTime \in Nat /\ MaxLag \in Nat
    /\ MaxPinned \in Nat /\ MaxPerBucket \in Nat /\ MaxResets \in Nat

None == -1

VARIABLES
    now,         \* the clock
    breaker,     \* the channelBreaker in the map
    pc,          \* pc[r]: "idle", "choosing", "sent", "reporting"
    result,      \* result[r]: what r reports
    clock,       \* clock[r]: the time r's report has read
    orphaned,    \* reports that hold a breaker no longer in the map
    pins, resets,   \* bounds
    lastTrip,    \* the clock of the breaker's last trip, or None
    applied,     \* applied[e]: samples of epoch e since the window was cleared
    overtaken    \* requests whose snapshot is older than the last trip

reqVars   == <<pc, result, clock, orphaned>>
histVars  == <<lastTrip, applied, overtaken>>
vars      == <<now, breaker, reqVars, pins, resets, histVars>>

Results == {"success", "fatal", "transient"}
States  == {"closed", "open", "halfOpen"}

Counts == [total : Nat, fatal : Nat, transient : Nat]
Zero   == [total |-> 0, fatal |-> 0, transient |-> 0]

Slots  == 0..(Buckets - 1)
Bucket == [epoch : Nat, count : Counts]

BreakerType ==
    [state : States, buckets : [Slots -> Bucket], openUntil : Int,
     cooldown : Cooldown..MaxCooldown, consecFatal : Nat, halfOpenSuccess : Nat]

EmptyWindow == [i \in Slots |-> [epoch |-> 0, count |-> Zero]]

\* getBreaker
NewBreaker ==
    [state |-> "closed", buckets |-> EmptyWindow, openUntil |-> 0,
     cooldown |-> Cooldown, consecFatal |-> 0, halfOpenSuccess |-> 0]

BucketEpoch(t) == t \div BucketDur
Epochs == 0..BucketEpoch(MaxTime)
NoneApplied == [e \in Epochs |-> Zero]

Init ==
    /\ now = 0 /\ breaker = NewBreaker
    /\ pc = [r \in Requests |-> "idle"] /\ result = [r \in Requests |-> "success"]
    /\ clock = [r \in Requests |-> 0] /\ orphaned = {}
    /\ pins = 0 /\ resets = 0 /\ lastTrip = None /\ applied = NoneApplied
    /\ overtaken = {}
-----------------------------------------------------------------------------
(***************************************************************************)
(* The methods of channelBreaker, which run under its lock: functions from *)
(* a breaker to a breaker.                                                 *)
(***************************************************************************)
Add(c, res) ==
    [total     |-> c.total + 1,
     fatal     |-> c.fatal + (IF res = "fatal" THEN 1 ELSE 0),
     transient |-> c.transient + (IF res = "transient" THEN 1 ELSE 0)]

\* Mutant: the slot is not emptied when it comes around again.
MutRecord(b, t, res) ==
    LET slot == BucketEpoch(t) % Buckets IN
    [b EXCEPT !.buckets[slot] =
        [epoch |-> BucketEpoch(t), count |-> Add(@.count, res)]]

\* recordLocked
Record(b, t, res) ==
    LET epoch == BucketEpoch(t)
        slot  == epoch % Buckets
        old   == IF b.buckets[slot].epoch = epoch THEN b.buckets[slot].count ELSE Zero
    IN [b EXCEPT !.buckets[slot] = [epoch |-> epoch, count |-> Add(old, res)]]

SumCounts(count, S) ==
    [total     |-> SumFunctionOnSet([x \in S |-> count[x].total], S),
     fatal     |-> SumFunctionOnSet([x \in S |-> count[x].fatal], S),
     transient |-> SumFunctionOnSet([x \in S |-> count[x].transient], S)]

MinEpoch(t) == BucketEpoch(t) - (Buckets - 1)

\* windowLocked
Window(b, t) ==
    SumCounts([i \in Slots |-> b.buckets[i].count],
              {i \in Slots : b.buckets[i].epoch >= MinEpoch(t)})

\* A hundred times the failures, weighted 1.0 and 0.3.
Score(w) == (10 * w.fatal + 3 * w.transient) * 10

\* shouldTripLocked: the answers it can give.  Its float comparison may go either
\* way when the score equals the threshold.
ShouldTrip(b, t) ==
    IF b.consecFatal >= ConsecFatal THEN {TRUE}
    ELSE {d \in BOOLEAN : \E w \in {Window(b, t)} :
             IF w.total < MinSamples THEN ~d
             ELSE IF d THEN Score(w) >= TripScorePct * w.total
                       ELSE Score(w) <= TripScorePct * w.total}

\* The cooldown of the next trip.
BackedOff(cooldown) ==
    IF cooldown * 2 > MaxCooldown THEN MaxCooldown ELSE cooldown * 2

\* Mutant: the backoff is applied before the deadline is computed.
MutTrip(b, t) ==
    [b EXCEPT !.state = "open", !.openUntil = t + BackedOff(b.cooldown),
              !.cooldown = BackedOff(b.cooldown), !.halfOpenSuccess = 0]

\* tripLocked
Trip(b, t) ==
    [b EXCEPT !.state = "open", !.openUntil = t + b.cooldown,
              !.cooldown = BackedOff(b.cooldown), !.halfOpenSuccess = 0]

Recovered(b) ==
    [b EXCEPT !.state = "closed", !.cooldown = Cooldown, !.consecFatal = 0,
              !.buckets = EmptyWindow]

\* The sample and the streak at the start of report.
Counted(b, t, res) ==
    [Record(b, t, res) EXCEPT
        !.consecFatal = CASE res = "success" -> 0
                          [] res = "fatal" -> @ + 1
                          [] OTHER -> @]

\* The switch of report: the breakers it can lead to.
Reported(b, t, res) ==
    LET c == Counted(b, t, res)
        h == [c EXCEPT !.halfOpenSuccess = @ + 1]
    IN CASE b.state = "halfOpen" ->
              IF res # "success" THEN {Trip(c, t)}
              ELSE {IF h.halfOpenSuccess >= HalfOpenProbes THEN Recovered(h) ELSE h}
         [] b.state = "closed" ->
              {IF d THEN Trip([c EXCEPT !.cooldown = Cooldown], t) ELSE c :
                  d \in ShouldTrip(c, t)}
         [] b.state = "open" -> {c}

\* Mutant: an open breaker never becomes half-open by itself.
MutEval(b, t) == b

\* evalLocked
Eval(b, t) ==
    IF b.state = "open" /\ t >= b.openUntil
    THEN [b EXCEPT !.state = "halfOpen", !.halfOpenSuccess = 0] ELSE b
-----------------------------------------------------------------------------
(***************************************************************************)
(* Relay attempts.                                                         *)
(***************************************************************************)
\* Keeps the counters of a closed breaker finite.
Bounded(b) ==
    b.state = "closed" =>
        b.buckets[BucketEpoch(now) % Buckets].count.total < MaxPerBucket

\* What a caller that has read the clock and waited for the lock may hold.
ReadClock == {t \in 0..now : now - t <= MaxLag}

\* Mutant: the open channels are not excluded.
MutSnapshot(r) ==
    /\ pc[r] = "idle" /\ r \notin Pinned /\ Bounded(breaker)
    /\ \E t \in ReadClock : breaker' = Eval(breaker, t)
    /\ pc' = [pc EXCEPT ![r] = "choosing"]
    /\ UNCHANGED <<now, result, clock, orphaned, pins, resets, histVars>>

\* BreakerOpenChannelIDs at the start of channel selection: a channel that is open
\* under the lock is excluded.
Snapshot(r) ==
    /\ pc[r] = "idle" /\ r \notin Pinned /\ Bounded(breaker)
    /\ \E t \in ReadClock : breaker' = Eval(breaker, t)
    /\ pc' = IF breaker'.state = "open" THEN pc ELSE [pc EXCEPT ![r] = "choosing"]
    /\ UNCHANGED <<now, result, clock, orphaned, pins, resets, histVars>>

\* The choice among the channels outside the snapshot, whatever the breaker is by now.
Choose(r) ==
    /\ pc[r] = "choosing"
    /\ pc' = [pc EXCEPT ![r] = "sent"]
    /\ overtaken' = overtaken \ {r}
    /\ UNCHANGED <<now, breaker, result, clock, orphaned, pins, resets, lastTrip, applied>>

\* An attempt that uses the channel without asking the breaker.
SendPinned(r) ==
    /\ pc[r] = "idle" /\ r \in Pinned /\ pins < MaxPinned
    /\ pins' = pins + 1
    /\ pc' = [pc EXCEPT ![r] = "sent"]
    /\ UNCHANGED <<now, breaker, result, clock, orphaned, resets, histVars>>

\* ReportRelayResult up to the lock: the breaker and the time are read.
StartReport(r) ==
    /\ pc[r] = "sent"
    /\ \E res \in IF now < HealthyFrom THEN Results ELSE {"success"} :
        result' = [result EXCEPT ![r] = res]
    /\ pc' = [pc EXCEPT ![r] = "reporting"]
    /\ clock' = [clock EXCEPT ![r] = now]
    /\ UNCHANGED <<now, breaker, orphaned, pins, resets, histVars>>

\* A client error (or one that says nothing of the channel) is not reported.
Ignore(r) ==
    /\ pc[r] = "sent" /\ now < HealthyFrom
    /\ pc' = [pc EXCEPT ![r] = "idle"]
    /\ UNCHANGED <<now, breaker, result, clock, orphaned, pins, resets, histVars>>

Cleared(b) == breaker.state # "closed" /\ b.state = "closed"

\* report, under the lock.
ApplyReport(r) ==
    /\ pc[r] = "reporting"
    /\ pc' = [pc EXCEPT ![r] = "idle"]
    /\ IF r \in orphaned THEN UNCHANGED <<breaker, histVars>>
       ELSE /\ breaker' \in Reported(breaker, clock[r], result[r])
            /\ IF breaker.state # "open" /\ breaker'.state = "open"
               THEN /\ lastTrip' = clock[r]
                    /\ overtaken' = {q \in Requests : pc[q] = "choosing"}
               ELSE UNCHANGED <<lastTrip, overtaken>>
            /\ applied' = IF Cleared(breaker') THEN NoneApplied
                          ELSE [applied EXCEPT ![BucketEpoch(clock[r])] = Add(@, result[r])]
    /\ result' = [result EXCEPT ![r] = "success"] /\ clock' = [clock EXCEPT ![r] = 0]
    /\ orphaned' = orphaned \ {r}
    /\ UNCHANGED <<now, pins, resets>>

\* BreakerStateName, for the administrator's list of channels.
Look ==
    /\ \E t \in ReadClock : breaker' = Eval(breaker, t)
    /\ UNCHANGED <<now, reqVars, pins, resets, histVars>>

ResetChannelBreaker ==
    /\ resets < MaxResets /\ resets' = resets + 1
    /\ breaker' = NewBreaker
    /\ orphaned' = {r \in Requests : pc[r] = "reporting"}
    /\ lastTrip' = None /\ applied' = NoneApplied /\ overtaken' = {}
    /\ UNCHANGED <<now, pc, result, clock, pins>>

\* Time passes; applied forgets the epochs that have left the window.
Tick ==
    /\ now < MaxTime
    /\ \A r \in Requests : pc[r] = "reporting" => now - clock[r] < MaxLag
    /\ now' = now + 1
    /\ applied' = [e \in Epochs |-> IF e >= MinEpoch(now') THEN applied[e] ELSE Zero]
    /\ UNCHANGED <<breaker, reqVars, pins, resets, lastTrip, overtaken>>

RequestStep(r) ==
    \/ Snapshot(r) \/ Choose(r) \/ SendPinned(r)
    \/ StartReport(r) \/ Ignore(r) \/ ApplyReport(r)

Next == \/ \E r \in Requests : RequestStep(r)
        \/ Look \/ ResetChannelBreaker \/ Tick

\* Time passes, attempts end and report, and unpinned requests keep coming.
Fairness ==
    /\ WF_vars(Tick)
    /\ \A r \in Requests : /\ WF_vars(Snapshot(r)) /\ WF_vars(Choose(r))
                           /\ WF_vars(StartReport(r) \/ ApplyReport(r))

Spec == Init /\ [][Next]_vars /\ Fairness
-----------------------------------------------------------------------------
(***************************************************************************)
(* Properties.                                                             *)
(***************************************************************************)
\* Every variable has its type.
TypeOK ==
    /\ now \in 0..MaxTime /\ breaker \in BreakerType
    /\ pc \in [Requests -> {"idle", "choosing", "sent", "reporting"}]
    /\ result \in [Requests -> Results] /\ clock \in [Requests -> 0..MaxTime]
    /\ orphaned \subseteq Requests /\ pins \in 0..MaxPinned /\ resets \in 0..MaxResets
    /\ lastTrip \in 0..MaxTime \cup {None} /\ applied \in [Epochs -> Counts]
    /\ overtaken \subseteq Requests

\* The ring of buckets counts exactly the samples of the window's epochs since it
\* was last cleared: no sample is lost or counted again when a slot comes around or
\* a late report arrives (recordLocked, windowLocked).
WindowExact ==
    Window(breaker, now) =
        SumCounts(applied, {e \in Epochs : e >= MinEpoch(now)})

\* "Shield channels whose breaker is Open": selection returns the channel before the
\* cooldown is over only to a request whose snapshot a trip has overtaken, whatever
\* stray reports arrive and however old the clock values are, so to each request at most
\* once per trip; only a reset by an administrator lifts the shield.
ShieldHolds ==
    [][\A r \in Requests \ Pinned :
          pc[r] # "sent" /\ pc'[r] = "sent" /\ lastTrip # None =>
              now >= lastTrip + Cooldown \/ r \in overtaken \ overtaken']_vars

\* The open period doubles with every failed probe up to its cap, and is the base
\* cooldown again when a closed breaker trips, also after a recovery or a reset.
BackoffDoubles ==
    [][breaker.state # "open" /\ breaker'.state = "open" =>
          breaker'.openUntil - lastTrip' =
              IF breaker.state = "closed" THEN Cooldown
              ELSE BackedOff(breaker.openUntil - lastTrip)]_vars

\* A closed breaker has no unpunished streak: "trip fast on a short consecutive
\* streak", also over recoveries and out-of-order reports.
ClosedIsHealthy == breaker.state = "closed" => breaker.consecFatal < ConsecFatal

\* What keeps the shield and the backoff: an open or half-open breaker remembers in
\* cooldown the next period, and it leaves "open" only after the deadline.
ShieldInv ==
    /\ breaker.state # "closed" =>
          LET period == breaker.openUntil - lastTrip IN
          /\ lastTrip # None /\ period \in Cooldown..MaxCooldown
          /\ breaker.cooldown = BackedOff(period)
    /\ breaker.state = "halfOpen" => now >= breaker.openUntil
    /\ breaker.state # "open" /\ lastTrip # None => now >= lastTrip + Cooldown

\* A request that is choosing asked after the cooldown or before the trip.
SnapshotInv ==
    \A r \in Requests :
        pc[r] = "choosing" /\ lastTrip # None =>
            now >= lastTrip + Cooldown \/ r \in overtaken

\* "Automatically probes for recovery": a channel that answers again is eventually
\* closed for good, without help of an administrator.
Recovers == <>[](breaker.state = "closed")
=============================================================================
