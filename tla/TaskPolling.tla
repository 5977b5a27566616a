---------------------------- MODULE TaskPolling ----------------------------
(***************************************************************************)
(* Asynchronous tasks (video, Suno) after their submission: the polling    *)
(* loops of the master nodes (service/task_polling.go), the billing they   *)
(* trigger (service/task_billing.go), and the status query of a user that  *)
(* asks the upstream directly (relay/relay_task.go, tryRealtimeFetch).     *)
(*                                                                         *)
(* A poller works on rows it read earlier.  Every SQL statement is one     *)
(* step; other pollers and user queries run between them.  A poller may    *)
(* crash, and writes for a task in FaultyTasks may fail ("err") or be      *)
(* applied without acknowledgement ("lost").                               *)
(*                                                                         *)
(* paid, tokPaid, adjusted and hit are history variables.                  *)
(***************************************************************************)
EXTENDS Integers, FiniteSets

CONSTANTS
    Tasks,             \* task ids, numbered in the order of submission
    Suno,              \* tasks of the Suno platform; the others are videos
    Fetchable,         \* video tasks of Gemini or Vertex channels
    PerCall,           \* tasks billed per call
    Legacy,            \* tasks submitted before legacyTaskCutoff
    NoToken,           \* tasks without a token to adjust
    Pollers,           \* master nodes
    QueryLimit,        \* constant.TaskQueryLimit
    SweepLimit,        \* the 100 of sweepTimedOutTasks
    Quota,             \* what a submission has been charged
    Actuals,           \* recalculated quotas, 0 for "keep the estimate"
    Timeouts,          \* TaskTimeoutMinutes > 0
    ChannelMayVanish,  \* an administrator may delete the channel
    MaxFetches,        \* bound: user queries
    MaxCrashes,        \* bound: poller crashes
    FaultyTasks,       \* tasks whose writes may fail
    FaultKinds         \* subset of {"err", "lost"}

ASSUME TasksAssumption ==
    /\ Tasks \subseteq Nat /\ IsFiniteSet(Tasks)
    /\ Suno \subseteq Tasks /\ Fetchable \subseteq Tasks \ Suno
    /\ PerCall \subseteq Tasks /\ Legacy \subseteq Tasks /\ NoToken \subseteq Tasks
    /\ FaultyTasks \subseteq Tasks /\ FaultKinds \subseteq {"err", "lost"}
ASSUME NumbersAssumption ==
    /\ Quota \in Nat /\ Actuals \subseteq Nat /\ IsFiniteSet(Actuals)
    /\ QueryLimit \in Nat \ {0} /\ SweepLimit \in Nat \ {0}
    /\ MaxFetches \in Nat /\ MaxCrashes \in Nat
    /\ Timeouts \in BOOLEAN /\ ChannelMayVanish \in BOOLEAN

Terminal == {"SUCCESS", "FAILURE"}
Statuses == {"ABSENT", "UNTRACKED", "NOT_START", "IN_PROGRESS"} \cup Terminal

\* full is progress = "100%".
RowType == [status : Statuses, full : BOOLEAN]
Row(status, full) == [status |-> status, full |-> full]

\* What the upstream says of a task.  "BROKEN" is Suno's status "in progress"
\* together with a fail reason.
Reports == {"IN_PROGRESS", "BROKEN"} \cup Terminal

VARIABLES
    row,        \* row[t]: the tasks table
    old,        \* tasks whose submit_time has passed the timeout
    upstream,   \* upstream[t]: what the upstream reports
    channel,    \* the channel of the tasks exists
    pc,         \* pc[p]: where the poller's goroutine is
    todo,       \* todo[p]: tasks of the current list not yet handled
    mem,        \* mem[p][t]: the row as p read it
    resp,       \* resp[p][t]: the upstream's answer, or "none"
    bill,       \* bill[p]: the adjustment p is carrying out
    query,      \* query[t]: a user query: the row it read and the upstream's answer
    fetches, crashes,       \* bounds
    paid, tokPaid,          \* what t has cost, funding source and token
    adjusted,   \* tasks whose charge has been adjusted
    hit         \* tasks that met a failed write or a crash

pollVars == <<pc, todo, mem, resp, bill>>
envVars  == <<old, upstream, channel>>
histVars == <<paid, tokPaid, adjusted, hit>>
vars     == <<row, envVars, pollVars, query, fetches, crashes, histVars>>

NoQuery == [row |-> Row("ABSENT", TRUE), answer |-> "none"]
NoResp == [t \in Tasks |-> "none"]
NoBill == [task |-> 0, delta |-> 0, back |-> "sleep"]

Init ==
    /\ row = [t \in Tasks |-> Row("ABSENT", FALSE)]
    /\ old = {} /\ upstream = [t \in Tasks |-> "IN_PROGRESS"] /\ channel = TRUE
    /\ pc = [p \in Pollers |-> "sleep"] /\ todo = [p \in Pollers |-> {}]
    /\ mem = [p \in Pollers |-> [t \in Tasks |-> Row("ABSENT", FALSE)]]
    /\ resp = [p \in Pollers |-> NoResp] /\ bill = [p \in Pollers |-> NoBill]
    /\ query = [t \in Tasks |-> NoQuery]
    /\ fetches = 0 /\ crashes = 0
    /\ paid = [t \in Tasks |-> 0] /\ tokPaid = [t \in Tasks |-> 0]
    /\ adjusted = {} /\ hit = {}
-----------------------------------------------------------------------------
Outcomes(t) == {"ok"} \cup (IF t \in FaultyTasks THEN FaultKinds ELSE {})

Note(t, o) == hit' = IF o = "ok" THEN hit ELSE hit \cup {t}

\* The first n tasks of S in id order (LIMIT n).
LimitTo(n, S) == {t \in S : Cardinality({u \in S : u <= t}) <= n}

First(t, S) == t \in S /\ \A u \in S : t <= u

\* Mutant: the query does not look at the progress.
MutUnfinished == {t \in Tasks : row[t].status \in {"NOT_START", "IN_PROGRESS"}}

\* The WHERE clause shared by GetTimedOutUnfinishedTasks and
\* GetAllUnFinishSyncTasks.
Unfinished == {t \in Tasks : row[t].status \in {"NOT_START", "IN_PROGRESS"} /\ ~row[t].full}

\* Mutant: the update is not conditional.
MutWins(t, from) == TRUE

\* UpdateWithStatus writes only if the status is still `from'.
Wins(t, from) == row[t].status = from

\* Mutant: GORM's Save, which inserts or overwrites when no row matches.
MutUpdateWithStatus(t, from, new, o) ==
    row' = IF o # "err" THEN [row EXCEPT ![t] = new] ELSE row

UpdateWithStatus(t, from, new, o) ==
    row' = IF Wins(t, from) /\ o # "err" THEN [row EXCEPT ![t] = new] ELSE row
-----------------------------------------------------------------------------
(***************************************************************************)
(* RelayTask: the submission has been settled at Quota, then the row is    *)
(* inserted; if that fails the task is charged but never polled.           *)
(***************************************************************************)
Submit(t) ==
    /\ row[t].status = "ABSENT"
    /\ \A u \in Tasks : u < t => row[u].status # "ABSENT"
    /\ paid' = [paid EXCEPT ![t] = Quota]
    /\ tokPaid' = [tokPaid EXCEPT ![t] = IF t \in NoToken THEN 0 ELSE Quota]
    /\ \E o \in Outcomes(t) :
        /\ Note(t, o)
        /\ row' = [row EXCEPT ![t] = IF o = "err" THEN Row("UNTRACKED", FALSE)
                                     ELSE Row("NOT_START", FALSE)]
    /\ UNCHANGED <<envVars, pollVars, query, fetches, crashes, adjusted>>
-----------------------------------------------------------------------------
(***************************************************************************)
(* Billing: RefundTaskQuota and RecalculateTaskQuota adjust the funding    *)
(* source first and the token second; an error stops or is only logged.    *)
(***************************************************************************)
\* Mutant: refunds (negative differences) are skipped like zero.
MutStartBilling(p, t, d, back) ==
    IF d <= 0 THEN pc' = [pc EXCEPT ![p] = back] /\ UNCHANGED bill
    ELSE /\ pc' = [pc EXCEPT ![p] = "adjust"]
         /\ bill' = [bill EXCEPT ![p] = [task |-> t, delta |-> d, back |-> back]]

\* p continues at `back' after adjusting t by d, or at once if d = 0.
StartBilling(p, t, d, back) ==
    IF d = 0 THEN pc' = [pc EXCEPT ![p] = back] /\ UNCHANGED bill
    ELSE /\ pc' = [pc EXCEPT ![p] = "adjust"]
         /\ bill' = [bill EXCEPT ![p] = [task |-> t, delta |-> d, back |-> back]]

NoBilling(p, back) == pc' = [pc EXCEPT ![p] = back] /\ UNCHANGED bill

\* taskAdjustFunding
AdjustFunding(p) ==
    LET t == bill[p].task IN
    /\ pc[p] = "adjust"
    /\ \E o \in Outcomes(t) :
        /\ Note(t, o)
        /\ IF o = "err" THEN UNCHANGED <<paid, adjusted>>
           ELSE /\ paid' = [paid EXCEPT ![t] = @ + bill[p].delta]
                /\ adjusted' = adjusted \cup {t}
        /\ pc' = [pc EXCEPT ![p] = IF o = "ok" THEN "adjustToken" ELSE bill[p].back]
    /\ UNCHANGED <<row, envVars, todo, mem, resp, bill, query, fetches, crashes, tokPaid>>

\* taskAdjustTokenQuota
AdjustToken(p) ==
    LET t == bill[p].task IN
    /\ pc[p] = "adjustToken"
    /\ \E o \in Outcomes(t) :
        IF t \in NoToken THEN UNCHANGED <<tokPaid, hit>>
        ELSE /\ Note(t, o)
             /\ tokPaid' = IF o = "err" THEN tokPaid
                           ELSE [tokPaid EXCEPT ![t] = @ + bill[p].delta]
    /\ pc' = [pc EXCEPT ![p] = bill[p].back]
    /\ UNCHANGED <<row, envVars, todo, mem, resp, bill, query, fetches, crashes,
                   paid, adjusted>>
-----------------------------------------------------------------------------
(***************************************************************************)
(* One round of the polling loop: sweepTimedOutTasks, then the update of   *)
(* each platform's tasks.                                                  *)
(***************************************************************************)
\* Mutant: the sweep finds no task.
MutStartRound(p) ==
    /\ pc[p] = "sleep"
    /\ pc' = [pc EXCEPT ![p] = "sweep"]
    /\ todo' = [todo EXCEPT ![p] = {}]
    /\ mem' = [mem EXCEPT ![p] = row]
    /\ UNCHANGED <<row, envVars, resp, bill, query, fetches, crashes, histVars>>

StartRound(p) ==
    /\ pc[p] = "sleep"
    /\ pc' = [pc EXCEPT ![p] = "sweep"]
    /\ todo' = [todo EXCEPT ![p] = LimitTo(SweepLimit, Unfinished \cap old)]
    /\ mem' = [mem EXCEPT ![p] = row]
    /\ UNCHANGED <<row, envVars, resp, bill, query, fetches, crashes, histVars>>

SweepTask(p, t) ==
    /\ pc[p] = "sweep" /\ First(t, todo[p])
    /\ todo' = [todo EXCEPT ![p] = @ \ {t}]
    /\ \E o \in Outcomes(t) :
        /\ UpdateWithStatus(t, mem[p][t].status, Row("FAILURE", TRUE), o)
        /\ Note(t, o)
        /\ IF o = "ok" /\ Wins(t, mem[p][t].status) /\ t \notin Legacy
           THEN StartBilling(p, t, -Quota, "sweep") ELSE NoBilling(p, "sweep")
    /\ UNCHANGED <<envVars, mem, resp, query, fetches, crashes, paid, tokPaid, adjusted>>

\* GetAllUnFinishSyncTasks
ListTasks(p) ==
    /\ pc[p] = "sweep" /\ todo[p] = {}
    /\ pc' = [pc EXCEPT ![p] = "poll"]
    /\ todo' = [todo EXCEPT ![p] = LimitTo(QueryLimit, Unfinished)]
    /\ mem' = [mem EXCEPT ![p] = row]
    /\ UNCHANGED <<row, envVars, resp, bill, query, fetches, crashes, histVars>>

Pending(p) == {t \in Tasks : resp[p][t] # "none"}

\* CacheGetChannel fails: all tasks of the platform are marked as failed by an
\* unconditional update, which refunds nothing.
BulkFail(p, S) ==
    /\ ~channel
    /\ row' = [t \in Tasks |-> IF t \in S THEN Row("FAILURE", TRUE) ELSE row[t]]
    /\ todo' = [todo EXCEPT ![p] = @ \ S]

\* updateSunoTasks: load the channel.
OpenSuno(p) ==
    LET S == todo[p] \cap Suno IN
    /\ pc[p] = "poll" /\ S # {}
    /\ \/ BulkFail(p, S) /\ UNCHANGED pc
       \/ channel /\ pc' = [pc EXCEPT ![p] = "suno"] /\ UNCHANGED <<row, todo>>
    /\ UNCHANGED <<envVars, mem, resp, bill, query, fetches, crashes, histVars>>

\* FetchTask for all of them: `got' are the tasks the answer has, none of them if the
\* request failed.
FetchSuno(p) ==
    LET S == todo[p] \cap Suno IN
    /\ pc[p] = "suno" /\ Pending(p) = {} /\ S # {}
    /\ \E got \in SUBSET S :
        /\ resp' = [resp EXCEPT ![p] =
                      [t \in Tasks |-> IF t \in got THEN upstream[t] ELSE "none"]]
        /\ todo' = [todo EXCEPT ![p] = (@ \ Suno) \cup got]
    /\ UNCHANGED <<row, envVars, pc, mem, bill, query, fetches, crashes, histVars>>

Answered(p, t) == resp' = [resp EXCEPT ![p][t] = "none"]

\* A failure wins the transition first and refunds then.
SunoFailure(p, t, new, o) ==
    /\ UpdateWithStatus(t, mem[p][t].status, new, o)
    /\ IF o = "ok" /\ Wins(t, mem[p][t].status)
       THEN StartBilling(p, t, -Quota, "suno") ELSE NoBilling(p, "suno")

\* Everything else is saved unconditionally; taskNeedsUpdate may also say that
\* nothing has changed.
SunoSave(p, t, new, o) ==
    /\ \/ row' = IF o # "err" THEN [row EXCEPT ![t] = new] ELSE row
       \/ new.status = mem[p][t].status /\ UNCHANGED row
    /\ NoBilling(p, "suno")

\* The loop body of updateSunoTasks.
SunoItem(p, t) ==
    /\ pc[p] = "suno" /\ t \in Pending(p)
    /\ LET r      == resp[p][t]
           failed == r \in {"FAILURE", "BROKEN"}
           new    == Row(IF r = "BROKEN" THEN "IN_PROGRESS" ELSE r,
                         failed \/ r = "SUCCESS" \/ mem[p][t].full)
       IN \E o \in Outcomes(t) :
          /\ IF failed THEN SunoFailure(p, t, new, o) ELSE SunoSave(p, t, new, o)
          /\ Note(t, o)
    /\ Answered(p, t)
    /\ todo' = [todo EXCEPT ![p] = @ \ {t}]
    /\ UNCHANGED <<envVars, mem, query, fetches, crashes, paid, tokPaid, adjusted>>

CloseSuno(p) ==
    /\ pc[p] = "suno" /\ todo[p] \cap Suno = {}
    /\ pc' = [pc EXCEPT ![p] = "poll"]
    /\ UNCHANGED <<row, envVars, todo, mem, resp, bill, query, fetches, crashes, histVars>>

\* An answer with an id that was not asked for makes the loop panic; pollTasksOnce
\* recovers and the rest of the round is dropped.
SunoPanic(p) ==
    /\ pc[p] = "suno" /\ todo[p] \cap Suno # {}
    /\ pc' = [pc EXCEPT ![p] = "sleep"] /\ todo' = [todo EXCEPT ![p] = {}]
    /\ resp' = [resp EXCEPT ![p] = NoResp]
    /\ UNCHANGED <<row, envVars, mem, bill, query, fetches, crashes, histVars>>

\* updateVideoTasks: load the channel.
OpenVideo(p) ==
    LET S == todo[p] \ Suno IN
    /\ pc[p] = "poll" /\ S # {}
    /\ \/ BulkFail(p, S) /\ UNCHANGED pc
       \/ channel /\ pc' = [pc EXCEPT ![p] = "video"] /\ UNCHANGED <<row, todo>>
    /\ UNCHANGED <<envVars, mem, resp, bill, query, fetches, crashes, histVars>>

\* Mutant: an empty status is not turned into a failure.
MutFetchVideo(p, t) ==
    /\ pc[p] = "video" /\ Pending(p) = {} /\ First(t, todo[p] \ Suno)
    /\ \/ /\ \E r \in {upstream[t], ""} : resp' = [resp EXCEPT ![p][t] = r]
          /\ UNCHANGED todo
       \/ todo' = [todo EXCEPT ![p] = @ \ {t}] /\ UNCHANGED resp
    /\ UNCHANGED <<row, envVars, pc, mem, bill, query, fetches, crashes, histVars>>

\* FetchTask and ParseTaskResult: an error message of the upstream counts as the
\* failure of the task; a request that fails, a 429 or an answer that cannot be
\* parsed leaves the task for the next round.
FetchVideo(p, t) ==
    /\ pc[p] = "video" /\ Pending(p) = {} /\ First(t, todo[p] \ Suno)
    /\ \/ /\ \E r \in {upstream[t], "FAILURE"} : resp' = [resp EXCEPT ![p][t] = r]
          /\ UNCHANGED todo
       \/ todo' = [todo EXCEPT ![p] = @ \ {t}] /\ UNCHANGED resp
    /\ UNCHANGED <<row, envVars, pc, mem, bill, query, fetches, crashes, histVars>>

\* Mutant: a recalculated quota of 0 is settled too.
MutDifferences(t) ==
    IF t \in PerCall THEN {0} ELSE {actual - Quota : actual \in Actuals}

\* settleTaskBillingOnComplete: the difference to settle, 0 for per-call billing.
Differences(t) ==
    IF t \in PerCall THEN {0}
    ELSE {IF actual = 0 THEN 0 ELSE actual - Quota : actual \in Actuals}

\* Whether progress becomes "100%": a progress in the upstream's answer overrides the
\* one of the status, except for a failure.
Progress(r) == IF r = "FAILURE" THEN {TRUE} ELSE BOOLEAN

\* The rest of updateVideoSingleTask.
ApplyVideo(p, t) ==
    /\ pc[p] = "video" /\ t \in Pending(p)
    /\ LET r    == resp[p][t]
           from == mem[p][t].status
       IN \E o \in Outcomes(t), full \in Progress(r) :
          /\ UpdateWithStatus(t, from, Row(r, full), o)
          /\ Note(t, o)
          /\ IF o = "ok" /\ Wins(t, from) /\ r \in Terminal
             THEN \E d \in IF r = "FAILURE" THEN {-Quota} ELSE Differences(t) :
                      StartBilling(p, t, d, "video")
             ELSE NoBilling(p, "video")
    /\ Answered(p, t)
    /\ todo' = [todo EXCEPT ![p] = @ \ {t}]
    /\ UNCHANGED <<envVars, mem, query, fetches, crashes, paid, tokPaid, adjusted>>

CloseVideo(p) ==
    /\ pc[p] = "video" /\ todo[p] \ Suno = {}
    /\ pc' = [pc EXCEPT ![p] = "poll"]
    /\ UNCHANGED <<row, envVars, todo, mem, resp, bill, query, fetches, crashes, histVars>>

EndRound(p) ==
    /\ pc[p] = "poll" /\ todo[p] = {}
    /\ pc' = [pc EXCEPT ![p] = "sleep"]
    /\ UNCHANGED <<row, envVars, todo, mem, resp, bill, query, fetches, crashes, histVars>>

\* The process stops between any two statements and is started again.
Crash(p) ==
    /\ pc[p] # "sleep" /\ crashes < MaxCrashes
    /\ crashes' = crashes + 1
    /\ pc' = [pc EXCEPT ![p] = "sleep"] /\ todo' = [todo EXCEPT ![p] = {}]
    /\ resp' = [resp EXCEPT ![p] = NoResp]
    /\ hit' = IF pc[p] \in {"adjust", "adjustToken"} THEN hit \cup {bill[p].task} ELSE hit
    /\ UNCHANGED <<row, envVars, mem, bill, query, fetches, paid, tokPaid, adjusted>>
-----------------------------------------------------------------------------
(***************************************************************************)
(* A user queries a Gemini or Vertex video: tryRealtimeFetch reads the     *)
(* row whatever its status, asks the upstream and stores the answer.  It   *)
(* never bills.                                                            *)
(***************************************************************************)
QueryStart(t) ==
    /\ t \in Fetchable /\ channel /\ query[t] = NoQuery /\ fetches < MaxFetches
    /\ row[t].status \notin {"ABSENT", "UNTRACKED"}
    /\ query' = [query EXCEPT ![t].row = row[t]] /\ fetches' = fetches + 1
    /\ UNCHANGED <<row, envVars, pollVars, crashes, histVars>>

\* An answer that cannot be had or parsed ends the query.
QueryFetch(t) ==
    /\ query[t] # NoQuery /\ query[t].answer = "none"
    /\ \/ query' = [query EXCEPT ![t] = NoQuery]
       \/ \E r \in {upstream[t], "FAILURE"} : query' = [query EXCEPT ![t].answer = r]
    /\ UNCHANGED <<row, envVars, pollVars, fetches, crashes, histVars>>

QueryStore(t) ==
    LET r == query[t].answer IN
    /\ r # "none"
    /\ UpdateWithStatus(t, query[t].row.status, Row(r, r \in Terminal), "ok")
    /\ query' = [query EXCEPT ![t] = NoQuery]
    /\ UNCHANGED <<envVars, pollVars, fetches, crashes, histVars>>
-----------------------------------------------------------------------------
\* The upstream finishes or breaks a task, time passes, the channel is deleted.
UpstreamEnds(t) ==
    /\ upstream[t] = "IN_PROGRESS"
    /\ \E r \in Terminal \cup (IF t \in Suno THEN {"BROKEN"} ELSE {}) :
        upstream' = [upstream EXCEPT ![t] = r]
    /\ UNCHANGED <<row, old, channel, pollVars, query, fetches, crashes, histVars>>

TimesOut(t) ==
    /\ Timeouts /\ t \notin old /\ row[t].status # "ABSENT"
    /\ old' = old \cup {t}
    /\ UNCHANGED <<row, upstream, channel, pollVars, query, fetches, crashes, histVars>>

DeleteChannel ==
    /\ ChannelMayVanish /\ channel /\ channel' = FALSE
    /\ UNCHANGED <<row, old, upstream, pollVars, query, fetches, crashes, histVars>>

PollStep(p) ==
    \/ StartRound(p) \/ ListTasks(p) \/ OpenSuno(p) \/ CloseSuno(p) \/ OpenVideo(p)
    \/ CloseVideo(p) \/ EndRound(p) \/ AdjustFunding(p) \/ AdjustToken(p)
    \/ \E t \in Tasks : SweepTask(p, t) \/ SunoItem(p, t) \/ ApplyVideo(p, t)

\* The upstream answers, or its answer makes the loop panic.
UpstreamStep(p) == FetchSuno(p) \/ SunoPanic(p) \/ \E t \in Tasks : FetchVideo(p, t)

Next ==
    \/ \E p \in Pollers : PollStep(p) \/ UpstreamStep(p) \/ Crash(p)
    \/ \E t \in Tasks : \/ Submit(t) \/ QueryStart(t) \/ QueryFetch(t) \/ QueryStore(t)
                        \/ UpstreamEnds(t) \/ TimesOut(t)
    \/ DeleteChannel

\* The loop runs for ever (a panic is recovered, a crashed node is restarted),
\* and time passes.  FetchTask has no deadline (RELAY_TIMEOUT is 0 by default), so
\* that the upstream answers is not assumed.
Fairness ==
    /\ \A p \in Pollers : WF_vars(PollStep(p))
    /\ \A t \in Tasks : WF_vars(TimesOut(t))

Spec == Init /\ [][Next]_vars /\ Fairness
-----------------------------------------------------------------------------
(***************************************************************************)
(* Properties.                                                             *)
(***************************************************************************)
\* Every variable has its type.
TypeOK ==
    /\ row \in [Tasks -> RowType] /\ old \subseteq Tasks
    /\ upstream \in [Tasks -> Reports] /\ channel \in BOOLEAN
    /\ pc \in [Pollers -> {"sleep", "sweep", "poll", "suno", "video", "adjust", "adjustToken"}]
    /\ todo \in [Pollers -> SUBSET Tasks] /\ mem \in [Pollers -> [Tasks -> RowType]]
    /\ resp \in [Pollers -> [Tasks -> Reports \cup {"none"}]]
    /\ bill \in [Pollers -> [task : Tasks \cup {0}, delta : Int,
                             back : {"sleep", "sweep", "poll", "suno", "video"}]]
    /\ query \in [Tasks -> [row : RowType, answer : Reports \cup {"none"}]]
    /\ fetches \in 0..MaxFetches /\ crashes \in 0..MaxCrashes
    /\ paid \in [Tasks -> Int] /\ tokPaid \in [Tasks -> Int]
    /\ adjusted \subseteq Tasks /\ hit \subseteq Tasks

\* No task is refunded more than it was charged (service/task_polling.go:257-261:
\* "refund again, leaking quota"), whatever pollers overlap, crash or fail.
RefundedOnce == \A t \in Tasks : paid[t] >= 0 /\ tokPaid[t] >= 0

Adjusting(t) == \E p \in Pollers : pc[p] \in {"adjust", "adjustToken"} /\ bill[p].task = t

\* "When an asynchronous task fails, the pre-consumed quota is returned to the
\* user" (service/task_billing.go:151), unless a write failed or the process died.
FailedTasksRefunded ==
    \A t \in Tasks \ (hit \cup Legacy) :
        row[t].status = "FAILURE" /\ ~Adjusting(t) => paid[t] = 0 /\ tokPaid[t] = 0

Dearest == CHOOSE q \in Actuals \cup {Quota} : \A r \in Actuals \cup {Quota} : r <= q

\* A task never costs more than its estimate or its recalculated quota, also when
\* user queries rewrite its status while pollers settle it (relay/relay_task.go:477).
NeverOvercharged == \A t \in Tasks : paid[t] <= Dearest /\ tokPaid[t] <= Dearest

\* A Suno task that broke off is closed as failed although its row keeps the status
\* the upstream gave it; a video whose upstream says "100%" too early has not ended.
Phase(t) ==
    IF row[t].status = "ABSENT" THEN "absent"
    ELSE IF row[t].status = "SUCCESS" THEN "succeeded"
    ELSE IF row[t].status = "FAILURE" \/ (t \in Suno /\ row[t].full) THEN "failed" ELSE "open"

\* The charge of a task always fits its status: the estimate while it is open,
\* the recalculated quota after a success, nothing after a failure; a legacy task
\* that the sweep closed keeps its charge (service/task_polling.go, isLegacy).
ChargeFitsStatus ==
    \A t \in Tasks \ hit :
        ~Adjusting(t) =>
            /\ row[t].status = "SUCCESS" =>
                  paid[t] \in {Quota} \cup (IF t \in PerCall THEN {} ELSE Actuals \ {0})
            /\ Phase(t) = "open" => paid[t] = Quota
            /\ row[t].status = "FAILURE" =>
                  paid[t] \in {0} \cup (IF t \in Legacy THEN {Quota} ELSE {})
            /\ t \notin NoToken => tokPaid[t] = paid[t]

\* A poller never undoes the end of a task: a status that was won and billed stays.
EndIsFinal ==
    [][\A t \in Tasks : row[t].status \in Terminal => row'[t] = row[t]]_vars

\* p waits for an answer of the upstream.
Waiting(p) ==
    /\ Pending(p) = {}
    /\ \/ pc[p] = "suno" /\ todo[p] \cap Suno # {}
       \/ pc[p] = "video" /\ todo[p] \ Suno # {}

\* As long as some node is not kept waiting by an upstream for ever, every submitted
\* task eventually leaves the lists of unfinished tasks and nobody adjusts its charge:
\* polling, the sweep, the limits of their queries and rounds that panic leave none
\* behind (service/task_polling.go, model/task.go).
EveryTaskCloses ==
    (\E p \in Pollers : []<>~Waiting(p)) =>
        \A t \in Tasks : row[t].status = "NOT_START" ~> (t \notin Unfinished /\ ~Adjusting(t))

Outcome == INSTANCE TaskOutcome
    WITH phase <- [t \in Tasks |-> Phase(t)], charge <- paid, adjusted <- adjusted

\* Polling implements the abstract life of a task's charge.
OutcomeSpec == Outcome!Spec
=============================================================================
