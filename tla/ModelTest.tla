------------------------------ MODULE ModelTest ------------------------------
(***************************************************************************)
(* The model test dialog of the console's channel page                     *)
(* (web/classic/src/hooks/channels/useChannelsData.jsx): tests of single   *)
(* models, the batch test that sends the models of a channel in groups,    *)
(* Stop, closing the dialog while answers are outstanding and opening it   *)
(* for another channel, and the removal of the models that failed.         *)
(*                                                                         *)
(* A test is a GET whose URL names channel, model, endpoint type and       *)
(* stream flag; helpers/api.js lets equal GETs share one answer. Endpoint  *)
(* type and flag are left out, so tests of a model may share their answer  *)
(* or not. The rows of the table behind the dialog, which a finished test  *)
(* patches, belong to the page and are left out.                           *)
(***************************************************************************)
EXTENDS Integers, FiniteSets

CONSTANTS
    Channels,    \* the channels of the table
    NoChannel,   \* no channel: the dialog is closed
    N,           \* each has the models 1..N
    Matches,     \* the sets of models that the search keywords select
    Limit,       \* concurrencyLimit (5 in the code)
    MaxBatches,  \* how many batches are started
    MaxOpens,    \* how often the dialog is opened
    MaxSingles   \* how many tests of one model are started

ASSUME TestAssumption == N \in Nat \ {0} /\ Limit \in Nat \ {0} /\ NoChannel \notin Channels
ASSUME BoundAssumption == MaxBatches \in Nat /\ MaxOpens \in Nat /\ MaxSingles \in Nat

Models == 1..N
Batches == 1..MaxBatches
Tests == Channels \X Models

VARIABLES
    open,       \* currentTestChannel while the dialog is shown, or NoChannel
    models,     \* models[c]: the models of channel c
    results,    \* modelTestResults
    testing,    \* testingModels: models shown as being tested
    isBatchTesting, batchStopRequested,
    progress,   \* batchTestProgress, or NoProgress
    active,     \* batchTestingActiveRef
    shouldStop, \* shouldStopBatchTestingRef
    batch,      \* batch[b]: the local state of the b-th call of batchTestModels
    single,     \* tests of one model in flight: channel, model and number of the call
    deletion,   \* the removal of failed models in flight, or NoDeletion
    \* history
    begun, opens, singles,
    mixed       \* a result was written or removed by something else than the running batch

dialog == <<open, testing, isBatchTesting, batchStopRequested, progress>>
refs == <<active, shouldStop>>
history == <<begun, opens, singles, mixed>>
vars == <<dialog, models, results, refs, batch, single, deletion, history>>

\* total is the length of the list.
Progress(c, list, completed, success) ==
    [channel |-> c, list |-> list, completed |-> completed, success |-> success]
NoProgress == Progress(NoChannel, {}, 0, 0)
NoDeletion == [channel |-> NoChannel, failed |-> {}, remaining |-> {}]
\* pc: idle, group (a group is in flight), pause (the 100 ms between groups) or final (the
\* 300 ms before the count).
NoBatch == [pc |-> "idle", channel |-> NoChannel, list |-> {}, todo |-> {}, flight |-> {},
            completed |-> 0, success |-> 0]

Running == {b \in Batches : batch[b].pc # "idle"}

Init ==
    /\ open = NoChannel /\ models = [c \in Channels |-> Models]
    /\ results = [t \in Tests |-> "none"] /\ testing = {}
    /\ isBatchTesting = FALSE /\ batchStopRequested = FALSE /\ progress = NoProgress
    /\ active = FALSE /\ shouldStop = FALSE
    /\ batch = [b \in Batches |-> NoBatch] /\ single = {} /\ deletion = NoDeletion
    /\ begun = 0 /\ opens = 0 /\ singles = 0 /\ mixed = FALSE

-----------------------------------------------------------------------------
(* The dialog.                                                             *)

Open(c) ==
    /\ open = NoChannel /\ opens < MaxOpens
    /\ open' = c /\ opens' = opens + 1
    /\ UNCHANGED <<models, results, testing, isBatchTesting, batchStopRequested, progress, refs,
                   batch, single, deletion, begun, singles, mixed>>

\* handleCloseModal: the flags of the dialog are reset although the batch still runs.
HandleCloseModal ==
    /\ open # NoChannel
    /\ open' = NoChannel
    /\ shouldStop' = (shouldStop \/ isBatchTesting)
    /\ isBatchTesting' = FALSE /\ batchStopRequested' = FALSE /\ progress' = NoProgress
    /\ testing' = {}
    /\ UNCHANGED <<models, results, active, batch, single, deletion, begun, opens, singles, mixed>>

\* stopBatchTesting
StopBatchTesting ==
    /\ open # NoChannel /\ isBatchTesting /\ ~batchStopRequested
    /\ shouldStop' = TRUE /\ batchStopRequested' = TRUE
    /\ UNCHANGED <<open, testing, isBatchTesting, progress, active, models, results, batch, single,
                   deletion, history>>

\* testChannel for one model; nothing happens while a batch is being stopped.
TestModel(m) ==
    /\ open # NoChannel /\ m \in models[open] /\ m \notin testing /\ singles < MaxSingles
    /\ ~(shouldStop /\ active)
    /\ single' = single \union {<<open, m, singles + 1>>}
    /\ testing' = testing \union {m}
    /\ singles' = singles + 1
    /\ UNCHANGED <<open, isBatchTesting, batchStopRequested, progress, models, results, refs, batch,
                   deletion, begun, opens, mixed>>

-----------------------------------------------------------------------------
(* The batch test.                                                         *)

\* The next models of the list, at most Limit of them.
NextGroup(todo) == {m \in todo : Cardinality({x \in todo : x <= m}) <= Limit}

\* The batch bt with its next group sent.
Sent(bt) ==
    LET group == NextGroup(bt.todo)
    IN [bt EXCEPT !.pc = "group", !.todo = @ \ group, !.flight = group]

\* Mutant: a running batch is known by the flag of the dialog.
MutBatchTestModels(match) ==
    LET b == begun + 1
        list == models[open] \intersect match
        bt == Sent([NoBatch EXCEPT !.channel = open, !.list = list, !.todo = list])
    IN /\ open # NoChannel /\ ~isBatchTesting /\ b \in Batches
       /\ list # {}
       /\ isBatchTesting' = TRUE /\ batchStopRequested' = FALSE
       /\ progress' = Progress(open, list, 0, 0)
       /\ active' = TRUE /\ shouldStop' = FALSE
       /\ results' = [t \in Tests |-> IF t[1] = open /\ t[2] \in list THEN "none" ELSE results[t]]
       /\ batch' = [batch EXCEPT ![b] = bt]
       /\ testing' = testing \union bt.flight
       /\ begun' = b /\ mixed' = (single # {} \/ deletion # NoDeletion)
       /\ UNCHANGED <<open, models, single, deletion, opens, singles>>

\* batchTestModels up to its first await: the list holds the models that match the
\* search keyword. Refused while another batch is active; forgets the results of the list
\* and sends the first group.
BatchTestModels(match) ==
    LET b == begun + 1
        list == models[open] \intersect match
        bt == Sent([NoBatch EXCEPT !.channel = open, !.list = list, !.todo = list])
    IN /\ open # NoChannel /\ ~isBatchTesting /\ b \in Batches
       /\ ~active /\ list # {}
       /\ isBatchTesting' = TRUE /\ batchStopRequested' = FALSE
       /\ progress' = Progress(open, list, 0, 0)
       /\ active' = TRUE /\ shouldStop' = FALSE
       /\ results' = [t \in Tests |-> IF t[1] = open /\ t[2] \in list THEN "none" ELSE results[t]]
       /\ batch' = [batch EXCEPT ![b] = bt]
       /\ testing' = testing \union bt.flight
       /\ begun' = b /\ mixed' = (single # {} \/ deletion # NoDeletion)
       /\ UNCHANGED <<open, models, single, deletion, opens, singles>>

\* Mutant: the stop request stays on the dialog.
MutEnd(b) ==
    /\ batch' = [batch EXCEPT ![b] = NoBatch]
    /\ isBatchTesting' = FALSE /\ active' = FALSE /\ UNCHANGED batchStopRequested

\* Mutant: the reference that marks a running batch is not reset.
MutEndActive(b) ==
    /\ batch' = [batch EXCEPT ![b] = NoBatch]
    /\ isBatchTesting' = FALSE /\ batchStopRequested' = FALSE /\ UNCHANGED active

\* finally
End(b) ==
    /\ batch' = [batch EXCEPT ![b] = NoBatch]
    /\ isBatchTesting' = FALSE /\ batchStopRequested' = FALSE /\ active' = FALSE

\* After Promise.allSettled: the group is counted, on whatever dialog is shown by then, and
\* the batch ends if it was stopped.
Settled(b, bt) ==
    /\ progress' = Progress(bt.channel, bt.list, bt.completed, bt.success)
    /\ IF shouldStop THEN End(b)
       ELSE /\ batch' = [batch EXCEPT ![b] = [bt EXCEPT !.pc = IF bt.todo = {} THEN "final" ELSE "pause"]]
            /\ UNCHANGED <<isBatchTesting, batchStopRequested, active>>

\* Every test of the group has been answered (Promise.allSettled).
Over(bt) == bt.flight = {}

\* The batch bt in which the test of model m has been answered.
Replied(bt, m, result) ==
    [bt EXCEPT !.flight = @ \ {m}, !.completed = @ + 1, !.success = @ + (IF result = "ok" THEN 1 ELSE 0)]

\* What batch b does with the answer.
BatchAnswer(b, bt) ==
    IF Over(bt) THEN Settled(b, bt)
    ELSE /\ batch' = [batch EXCEPT ![b] = bt]
         /\ UNCHANGED <<progress, isBatchTesting, batchStopRequested, active>>

\* A test of model m is answered: testChannel stores the result and removes the model from
\* testingModels, whose entries do not tell channels apart. The answer is that of single tests
\* (shared), or of a batch and of the single tests that share its URL.
Answer(c, m, result) ==
    /\ \E shared \in SUBSET {s \in single : s[1] = c /\ s[2] = m} :
        /\ single' = single \ shared
        /\ \/ /\ shared # {} /\ mixed' = TRUE
              /\ UNCHANGED <<batch, progress, isBatchTesting, batchStopRequested, active>>
           \/ /\ \E b \in Running :
                    /\ batch[b].channel = c /\ m \in batch[b].flight
                    /\ BatchAnswer(b, Replied(batch[b], m, result))
              /\ UNCHANGED mixed
    /\ results' = [results EXCEPT ![<<c, m>>] = result]
    /\ testing' = testing \ {m}
    /\ UNCHANGED <<open, shouldStop, models, deletion, begun, opens, singles>>

\* Mutant: the flag is not looked at between two groups.
MutPauseOver(b) ==
    /\ batch[b].pc = "pause"
    /\ LET bt == Sent(batch[b])
       IN batch' = [batch EXCEPT ![b] = bt] /\ testing' = testing \union bt.flight
    /\ UNCHANGED <<isBatchTesting, batchStopRequested, active>>
    /\ UNCHANGED <<open, progress, shouldStop, models, results, single, deletion, history>>

\* The 100 ms are over: the next group, unless the batch was stopped.
PauseOver(b) ==
    /\ batch[b].pc = "pause"
    /\ IF shouldStop THEN End(b) /\ UNCHANGED testing
       ELSE /\ LET bt == Sent(batch[b])
               IN batch' = [batch EXCEPT ![b] = bt] /\ testing' = testing \union bt.flight
            /\ UNCHANGED <<isBatchTesting, batchStopRequested, active>>
    /\ UNCHANGED <<open, progress, shouldStop, models, results, single, deletion, history>>

\* Mutant: counts the models that have a result.
MutCountAnswered(bt) == Cardinality({m \in bt.list : results[<<bt.channel, m>>] # "none"})

\* How many models of the list have succeeded, by the results that are stored now.
Count(bt) == Cardinality({m \in bt.list : results[<<bt.channel, m>>] = "ok"})

\* The 300 ms are over: the last count, whether or not the batch was stopped meanwhile.
FinalOver(b) ==
    /\ batch[b].pc = "final"
    /\ progress' = Progress(batch[b].channel, batch[b].list, Cardinality(batch[b].list), Count(batch[b]))
    /\ End(b)
    /\ UNCHANGED <<open, testing, shouldStop, models, results, single, deletion, history>>

-----------------------------------------------------------------------------
(* The removal of failed models.                                           *)

\* The failed models, of those that match the search keyword, are taken when the button is
\* clicked, before the question whether to go on and the request of deleteFailedModels.
DeleteFailedModels(match) ==
    LET failed == {m \in models[open] \intersect match : results[<<open, m>>] = "fail"}
    IN /\ open # NoChannel /\ ~isBatchTesting /\ failed # {} /\ deletion = NoDeletion
       /\ deletion' = [channel |-> open, failed |-> failed, remaining |-> models[open] \ failed]
       /\ UNCHANGED <<dialog, models, results, refs, batch, single, history>>

\* The server has stored the remaining models; or it refused, or the question was denied.
DeletionEnds(ok) ==
    /\ deletion # NoDeletion
    /\ deletion' = NoDeletion
    /\ IF ok THEN /\ models' = [models EXCEPT ![deletion.channel] = deletion.remaining]
                  /\ results' = [t \in Tests |->
                        IF t[1] = deletion.channel /\ t[2] \in deletion.failed THEN "none" ELSE results[t]]
                  /\ mixed' = TRUE
       ELSE UNCHANGED <<models, results, mixed>>
    /\ UNCHANGED <<dialog, refs, batch, single, begun, opens, singles>>

Answered == \E t \in Tests, result \in {"ok", "fail"} : Answer(t[1], t[2], result)
Timers == \E b \in Batches : PauseOver(b) \/ FinalOver(b)

Next ==
    \/ \E c \in Channels : Open(c)
    \/ HandleCloseModal \/ StopBatchTesting
    \/ \E match \in Matches : BatchTestModels(match)
    \/ \E m \in Models : TestModel(m)
    \/ \E t \in Tests, result \in {"ok", "fail"} : Answer(t[1], t[2], result)
    \/ \E b \in Batches : PauseOver(b) \/ FinalOver(b)
    \/ \E match \in Matches : DeleteFailedModels(match)
    \/ \E ok \in BOOLEAN : DeletionEnds(ok)

\* A request is answered or fails, and timers fire.
Spec == Init /\ [][Next]_vars /\ WF_vars(Answered) /\ WF_vars(Timers)

-----------------------------------------------------------------------------
(* Properties.                                                             *)

\* The variables have their types, and what a batch tests or has still to test is in its list.
TypeOK ==
    /\ open \in Channels \union {NoChannel} /\ models \in [Channels -> SUBSET Models]
    /\ results \in [Tests -> {"none", "ok", "fail"}] /\ testing \subseteq Models
    /\ isBatchTesting \in BOOLEAN /\ batchStopRequested \in BOOLEAN
    /\ progress \in [channel : Channels \union {NoChannel}, list : SUBSET Models,
                     completed : Nat, success : Nat]
    /\ active \in BOOLEAN /\ shouldStop \in BOOLEAN /\ single \subseteq Channels \X Models \X (1..MaxSingles)
    /\ batch \in [Batches -> [pc : {"idle", "group", "pause", "final"}, channel : Channels \union {NoChannel},
                             list : SUBSET Models, todo : SUBSET Models, flight : SUBSET Models,
                             completed : Nat, success : Nat]]
    /\ \A b \in Batches : batch[b].flight \union batch[b].todo \subseteq batch[b].list
    /\ deletion \in [channel : Channels \union {NoChannel}, failed : SUBSET Models, remaining : SUBSET Models]
    /\ begun \in Nat /\ opens \in Nat /\ singles \in Nat /\ mixed \in BOOLEAN

\* However the dialog is closed and opened again, the batches never have more than
\* concurrencyLimit tests in flight, all of the same channel.
LimitHolds ==
    LET flights == UNION {{b} \X batch[b].flight : b \in Batches}
    IN /\ Cardinality(flights) <= Limit
       /\ \A b1, b2 \in Running : batch[b1].channel = batch[b2].channel

\* When nothing is in flight and no timer runs, the dialog shows no test, no batch and no stop
\* in progress, and a batch can be started.
QuietIsIdle ==
    Running = {} /\ single = {} =>
        testing = {} /\ ~isBatchTesting /\ ~batchStopRequested /\ ~active

\* The counts of a batch that was the only one to change results agree with the results.
CountsAgree ==
    Running = {} /\ ~mixed /\ progress # NoProgress =>
        progress.success = Cardinality({m \in progress.list : results[<<progress.channel, m>>] = "ok"})

\* Once it was stopped, or the dialog closed, a batch sends no further test.
StopObeyed == [][shouldStop /\ shouldStop' => \A b \in Batches : batch'[b].flight \subseteq batch[b].flight]_vars

\* A batch ends, whatever answers fail and whatever happens to the dialog.
BatchEnds == active ~> ~active
=============================================================================
