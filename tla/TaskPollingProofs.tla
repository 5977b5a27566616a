------------------------- MODULE TaskPollingProofs -------------------------
(***************************************************************************)
(* Proofs about TaskPolling.                                               *)
(*                                                                         *)
(* 1. Base: types, and that a poller only handles what it listed.          *)
(* 2. Ceiling: no task is overcharged, for every value of the constants.   *)
(* 3. Ledger: refunds and settlements, for deployments in which no status  *)
(*    is written over one the writer has not seen (Unshared).              *)
(* 4. The refinement of TaskOutcome.                                       *)
(***************************************************************************)
EXTENDS TaskPolling, FiniteSetTheorems, NaturalsInduction, WellFoundedInduction, TLAPS

\* The statuses a poller lists: of a task the upstream still works on.
AtWork == {"NOT_START", "IN_PROGRESS"}
\* p carries out an adjustment, the funding source first and the token second.
Billing(p) == pc[p] \in {"adjust", "adjustToken"}
\* Where p is, or where it continues after the adjustment.
At(p) == IF Billing(p) THEN bill[p].back ELSE pc[p]

\* A poller lists unfinished rows and reads them in the same statement, so the status it
\* later compares with is never a terminal one.
Listed == \A p \in Pollers : \A t \in todo[p] :
    mem[p][t].status \in AtWork /\ mem[p][t].full = FALSE

\* Answers are kept only for listed tasks, Suno answers while p is in its Suno loop and video
\* answers in its video loop; a success was the word of the upstream.
Answers == \A p \in Pollers : \A t \in Tasks : resp[p][t] # "none" =>
    /\ t \in todo[p]
    /\ At(p) \in {"suno", "video"}
    /\ (At(p) = "suno") <=> (t \in Suno)
    /\ resp[p][t] = "SUCCESS" => upstream[t] = "SUCCESS"
    /\ resp[p][t] = "BROKEN" => t \in Suno

\* A user query exists only for a Fetchable task; once it has read a terminal status the row
\* stays terminal until the query stores its own answer.
Queries == \A t \in Tasks :
    /\ query[t] # NoQuery => t \in Fetchable
    /\ query[t].row.status \in Terminal => row[t].status \in Terminal
    /\ query[t].answer = "SUCCESS" => upstream[t] = "SUCCESS"
    /\ query[t].answer # "BROKEN"
    /\ upstream[t] = "BROKEN" => t \in Suno

\* An adjustment names a task and returns into a loop.
Bills == \A p \in Pollers : Billing(p) => bill[p].task \in Tasks /\ bill[p].back # "sleep"

\* Types with what they rest on; holds for every value of the constants.
Base == TypeOK /\ Listed /\ Answers /\ Queries /\ Bills

-----------------------------------------------------------------------------
\* The fields of a row.
LEMMA RowFields ==
    ASSUME NEW s, NEW f
    PROVE  Row(s, f).status = s /\ Row(s, f).full = f
BY DEF Row

\* A status and a flag make a row.
LEMMA RowIsRow ==
    ASSUME NEW s \in Statuses, NEW f \in BOOLEAN
    PROVE  Row(s, f) \in RowType
BY DEF Row, RowType

\* The row of an upstream answer is full exactly when the answer is terminal.
LEMMA NewRow ==
    ASSUME NEW r \in Statuses
    PROVE  /\ Row(r, r \in Terminal) \in RowType /\ Row(r, r \in Terminal).status = r
           /\ IF r \in Terminal THEN Row(r, r \in Terminal).full = TRUE
                               ELSE Row(r, r \in Terminal).full = FALSE
<1>1. CASE r \in Terminal
  <2>1. (r \in Terminal) = TRUE
    BY <1>1
  <2>2. Row(r, r \in Terminal) = Row(r, TRUE)
    BY <2>1, Zenon
  <2>3. Row(r, TRUE) \in RowType /\ Row(r, TRUE).status = r /\ Row(r, TRUE).full = TRUE
    BY RowIsRow, RowFields
  <2> QED BY <1>1, <2>2, <2>3, Zenon
<1>2. CASE r \notin Terminal
  <2>1. (r \in Terminal) = FALSE
    BY <1>2
  <2>2. Row(r, r \in Terminal) = Row(r, FALSE)
    BY <2>1, Zenon
  <2>3. Row(r, FALSE) \in RowType /\ Row(r, FALSE).status = r /\ Row(r, FALSE).full = FALSE
    BY RowIsRow, RowFields
  <2> QED BY <1>2, <2>2, <2>3, Zenon
<1> QED BY <1>1, <1>2

\* The query record of a task nobody queries.
LEMMA NoQueryFields == NoQuery.row.status = "ABSENT" /\ NoQuery.answer = "none"
BY DEF NoQuery, Row

\* LIMIT returns some of the rows.
LEMMA LimitSubset ==
    ASSUME NEW n, NEW S
    PROVE  LimitTo(n, S) \subseteq S
BY DEF LimitTo

\* UpdateWithStatus changes at most the one row, and only by winning.
LEMMA UpdateEffect ==
    ASSUME TypeOK, NEW t \in Tasks, NEW from, NEW new \in RowType, NEW o,
           UpdateWithStatus(t, from, new, o)
    PROVE  /\ row' \in [Tasks -> RowType]
           /\ \A u \in Tasks : u # t => row'[u] = row[u]
           /\ \/ row' = row /\ (o = "err" \/ ~Wins(t, from))
              \/ Wins(t, from) /\ o # "err" /\ row'[t] = new
BY DEF UpdateWithStatus, TypeOK, Wins

\* Where a poller can be.
PcType == {"sleep", "sweep", "poll", "suno", "video", "adjust", "adjustToken"}

\* The type of an adjustment.
BillType == [task : Tasks \cup {0}, delta : Int, back : {"sleep", "sweep", "poll", "suno", "video"}]

\* Starting an adjustment moves p to it, or straight on when there is nothing to adjust.
LEMMA BillingEffect ==
    ASSUME TypeOK, NEW p \in Pollers, NEW t \in Tasks, NEW d \in Int,
           NEW back \in {"sweep", "poll", "suno", "video"},
           StartBilling(p, t, d, back)
    PROVE  /\ pc' \in [Pollers -> PcType]
           /\ bill' \in [Pollers -> BillType]
           /\ \A q \in Pollers : q # p => pc'[q] = pc[q] /\ bill'[q] = bill[q]
           /\ \/ pc'[p] = back /\ bill'[p] = bill[p] /\ d = 0
              \/ /\ pc'[p] = "adjust" /\ d # 0
                 /\ bill'[p].task = t /\ bill'[p].delta = d /\ bill'[p].back = back
<1>1. CASE d = 0
  BY <1>1 DEF StartBilling, TypeOK, BillType, PcType
<1>2. CASE d # 0
  <2>1. [task |-> t, delta |-> d, back |-> back] \in BillType
    BY DEF BillType
  <2>2. /\ pc' = [pc EXCEPT ![p] = "adjust"]
        /\ bill' = [bill EXCEPT ![p] = [task |-> t, delta |-> d, back |-> back]]
    BY <1>2 DEF StartBilling
  <2>3. bill \in [Pollers -> BillType] /\ DOMAIN pc = Pollers
    BY DEF TypeOK, BillType
  <2> QED BY <1>2, <2>1, <2>2, <2>3 DEF TypeOK, PcType
<1> QED BY <1>1, <1>2

\* Without an adjustment p goes on.
LEMMA NoBillingEffect ==
    ASSUME TypeOK, NEW p \in Pollers, NEW back \in {"sweep", "poll", "suno", "video"},
           NoBilling(p, back)
    PROVE  /\ pc' \in [Pollers -> PcType]
           /\ bill' = bill
           /\ \A q \in Pollers : q # p => pc'[q] = pc[q]
           /\ pc'[p] = back
BY DEF NoBilling, TypeOK, PcType

-----------------------------------------------------------------------------
\* p goes on without an adjustment.
Unbilled(p, back) == pc'[p] = back /\ bill'[p] = bill[p]

\* p starts to adjust t by d.
Billed(p, t, d, back) ==
    /\ pc'[p] = "adjust" /\ d # 0
    /\ bill'[p].task = t /\ bill'[p].delta = d /\ bill'[p].back = back

\* A Suno task that failed although the upstream still calls it in progress.
BrokenOff(t) == t \in Suno /\ row'[t].status = "IN_PROGRESS" /\ row'[t].full = TRUE

\* The task stays open.
Kept(p, t, back) ==
    /\ row'[t].status = "IN_PROGRESS" /\ (t \in Suno => row'[t].full = FALSE)
    /\ Unbilled(p, back)

\* The task ends without an adjustment: a write failed, it succeeded at its estimate, it is a
\* legacy task, or there is nothing to refund.
EndedUnbilled(p, t, back) ==
    /\ Unbilled(p, back)
    /\ row'[t].status \in Terminal \/ BrokenOff(t)
    /\ \/ t \in hit' \/ row'[t].status = "SUCCESS"
       \/ row'[t].status = "FAILURE" /\ t \in Legacy
       \/ Quota = 0

\* The task fails and its refund starts.
Refunding(p, t, back) ==
    /\ Billed(p, t, -Quota, back)
    /\ row'[t].status = "FAILURE" \/ BrokenOff(t)

\* The task succeeds and the difference to its recalculated quota is settled.
Settling(p, t, back) ==
    /\ row'[t].status = "SUCCESS" /\ upstream[t] = "SUCCESS"
    /\ t \notin Suno /\ t \notin PerCall
    /\ \E a \in Actuals \ {0} : Billed(p, t, a - Quota, back)

\* What sweeping a task, a Suno answer and a video answer have in common: one row, one list
\* entry, one answer and the position of one poller change, and no charge.
Handled(p, t, back) ==
    /\ pc[p] = back /\ t \in todo[p]
    /\ row' \in [Tasks -> RowType] /\ \A u \in Tasks : u # t => row'[u] = row[u]
    /\ pc' \in [Pollers -> PcType] /\ bill' \in [Pollers -> BillType]
    /\ \A q \in Pollers : q # p => pc'[q] = pc[q] /\ bill'[q] = bill[q]
    /\ todo' = [todo EXCEPT ![p] = @ \ {t}]
    /\ resp' \in [Pollers -> [Tasks -> Reports \cup {"none"}]] /\ resp'[p][t] = "none"
    /\ \A q \in Pollers, u \in Tasks : <<q, u>> # <<p, t>> => resp'[q][u] = resp[q][u]
    /\ hit \subseteq hit' /\ hit' \subseteq hit \cup {t}
    /\ UNCHANGED <<envVars, mem, query, fetches, crashes, paid, tokPaid, adjusted>>

\* The four ends of handling a task, each but the first from the status the poller had read;
\* only Suno rows are also saved without looking at it.
Verdict(p, t, back) ==
    \/ row'[t] = row[t] /\ Unbilled(p, back)
    \/ /\ t \in Suno \/ row[t].status = mem[p][t].status
       /\ \/ Kept(p, t, back) \/ EndedUnbilled(p, t, back)
          \/ Refunding(p, t, back) \/ Settling(p, t, back)

\* SweepTask is one of the ways a task is handled.
LEMMA SweepHandles ==
    ASSUME Base, NEW p \in Pollers, NEW t \in Tasks, SweepTask(p, t)
    PROVE  Handled(p, t, "sweep") /\ Verdict(p, t, "sweep")
<1> DEFINE new == Row("FAILURE", TRUE)
<1>1. new \in RowType /\ new.status = "FAILURE" /\ new.full = TRUE
  BY RowIsRow, RowFields DEF Statuses, Terminal
<1>2. pc[p] = "sweep" /\ t \in todo[p]
  BY DEF SweepTask, First
<1>3. PICK o \in Outcomes(t) :
        /\ UpdateWithStatus(t, mem[p][t].status, new, o)
        /\ Note(t, o)
        /\ IF o = "ok" /\ Wins(t, mem[p][t].status) /\ t \notin Legacy
           THEN StartBilling(p, t, -Quota, "sweep") ELSE NoBilling(p, "sweep")
  BY DEF SweepTask
<1> HIDE DEF new
<1>4. /\ row' \in [Tasks -> RowType]
      /\ \A u \in Tasks : u # t => row'[u] = row[u]
      /\ \/ row' = row /\ (o = "err" \/ ~Wins(t, mem[p][t].status))
         \/ Wins(t, mem[p][t].status) /\ o # "err" /\ row'[t] = new
  BY <1>1, <1>3, UpdateEffect DEF Base
<1>5. hit \subseteq hit' /\ hit' \subseteq hit \cup {t} /\ (o # "ok" => t \in hit')
  BY <1>3 DEF Note
<1>6. /\ pc' \in [Pollers -> PcType] /\ bill' \in [Pollers -> BillType]
      /\ \A q \in Pollers : q # p => pc'[q] = pc[q] /\ bill'[q] = bill[q]
      /\ \/ Unbilled(p, "sweep") /\ (o # "ok" \/ ~Wins(t, mem[p][t].status) \/ t \in Legacy \/ Quota = 0)
         \/ /\ Billed(p, t, -Quota, "sweep")
            /\ o = "ok" /\ Wins(t, mem[p][t].status) /\ t \notin Legacy
  <2>0. -Quota \in Int /\ (-Quota = 0 => Quota = 0)
    BY NumbersAssumption
  <2>1. CASE o = "ok" /\ Wins(t, mem[p][t].status) /\ t \notin Legacy
    <3>1. StartBilling(p, t, -Quota, "sweep")
      BY <1>3, <2>1
    <3> QED BY <2>0, <2>1, <3>1, BillingEffect DEF Base, Unbilled, Billed, PcType
  <2>2. CASE ~(o = "ok" /\ Wins(t, mem[p][t].status) /\ t \notin Legacy)
    <3>1. NoBilling(p, "sweep")
      BY <1>3, <2>2
    <3>2. bill \in [Pollers -> BillType]
      BY DEF Base, TypeOK, BillType
    <3> QED BY <2>2, <3>1, <3>2, NoBillingEffect DEF Base, Unbilled, PcType
  <2> QED BY <2>1, <2>2
<1>7. resp' = resp /\ resp[p][t] = "none"
  BY <1>2 DEF SweepTask, Base, Answers, At, Billing
<1>8. Handled(p, t, "sweep")
  BY <1>2, <1>4, <1>5, <1>6, <1>7 DEF Handled, SweepTask, Base, TypeOK
<1>9. Verdict(p, t, "sweep")
  BY <1>1, <1>4, <1>5, <1>6 DEF Verdict, Refunding, EndedUnbilled, Wins, Terminal
<1> QED BY <1>8, <1>9
\* A handled answer is dropped.
LEMMA AnsweredEffect ==
    ASSUME TypeOK, NEW p \in Pollers, NEW t \in Tasks, Answered(p, t)
    PROVE  /\ resp' \in [Pollers -> [Tasks -> Reports \cup {"none"}]] /\ resp'[p][t] = "none"
           /\ \A q \in Pollers, u \in Tasks : <<q, u>> # <<p, t>> => resp'[q][u] = resp[q][u]
BY DEF Answered, TypeOK

\* So is the loop body of updateSunoTasks.
LEMMA SunoHandles ==
    ASSUME Base, NEW p \in Pollers, NEW t \in Tasks, SunoItem(p, t)
    PROVE  Handled(p, t, "suno") /\ Verdict(p, t, "suno")
<1> DEFINE r      == resp[p][t]
           failed == r \in {"FAILURE", "BROKEN"}
           full   == failed \/ r = "SUCCESS" \/ mem[p][t].full
           new    == Row(IF r = "BROKEN" THEN "IN_PROGRESS" ELSE r, full)
<1>0. pc[p] = "suno" /\ r # "none" /\ r \in Reports
  BY DEF SunoItem, Pending, Base, TypeOK
<1>1. pc[p] = "suno" /\ t \in Suno /\ r # "none" /\ r \in Reports
  BY <1>0 DEF Base, Answers, At, Billing
<1>2. t \in todo[p] /\ mem[p][t].full = FALSE
  BY <1>1 DEF Base, Answers, Listed
<1>3. full \in BOOLEAN /\ full = (r # "IN_PROGRESS")
  BY <1>1, <1>2, Zenon DEF Reports, Terminal
<1>4. /\ new \in RowType /\ new.full = (r # "IN_PROGRESS")
      /\ new.status = IF r = "BROKEN" THEN "IN_PROGRESS" ELSE r
  <2>1. (IF r = "BROKEN" THEN "IN_PROGRESS" ELSE r) \in Statuses
    BY <1>1 DEF Reports, Statuses, Terminal
  <2> HIDE DEF full, r
  <2> QED BY <1>3, <2>1, RowIsRow, RowFields
<1>5. PICK o \in Outcomes(t) :
        /\ IF failed THEN SunoFailure(p, t, new, o) ELSE SunoSave(p, t, new, o)
        /\ Note(t, o)
  BY DEF SunoItem
<1> HIDE DEF new, full
<1>6. hit \subseteq hit' /\ hit' \subseteq hit \cup {t} /\ (o # "ok" => t \in hit')
  BY <1>5 DEF Note
<1>7. bill \in [Pollers -> BillType]
  BY DEF Base, TypeOK, BillType
<1>8. /\ row' \in [Tasks -> RowType] /\ \A u \in Tasks : u # t => row'[u] = row[u]
      /\ pc' \in [Pollers -> PcType] /\ bill' \in [Pollers -> BillType]
      /\ \A q \in Pollers : q # p => pc'[q] = pc[q] /\ bill'[q] = bill[q]
      /\ Verdict(p, t, "suno")
  <2>1. CASE failed
    <3>1. SunoFailure(p, t, new, o)
      BY <1>5, <2>1
    <3>2. /\ row' \in [Tasks -> RowType]
          /\ \A u \in Tasks : u # t => row'[u] = row[u]
          /\ \/ row' = row /\ (o = "err" \/ ~Wins(t, mem[p][t].status))
             \/ Wins(t, mem[p][t].status) /\ o # "err" /\ row'[t] = new
      <4>1. UpdateWithStatus(t, mem[p][t].status, new, o) /\ new \in RowType /\ TypeOK
        BY <1>4, <3>1 DEF Base, SunoFailure
      <4> QED BY <4>1, UpdateEffect
    <3>3. /\ pc' \in [Pollers -> PcType] /\ bill' \in [Pollers -> BillType]
          /\ \A q \in Pollers : q # p => pc'[q] = pc[q] /\ bill'[q] = bill[q]
          /\ \/ Unbilled(p, "suno") /\ (o # "ok" \/ ~Wins(t, mem[p][t].status) \/ Quota = 0)
             \/ Billed(p, t, -Quota, "suno") /\ o = "ok" /\ Wins(t, mem[p][t].status)
      <4>0. -Quota \in Int /\ (-Quota = 0 => Quota = 0)
        BY NumbersAssumption
      <4>1. CASE o = "ok" /\ Wins(t, mem[p][t].status)
        <5>1. StartBilling(p, t, -Quota, "suno")
          BY <3>1, <4>1 DEF SunoFailure
        <5> QED BY <4>0, <4>1, <5>1, BillingEffect DEF Base, Unbilled, Billed, PcType
      <4>2. CASE ~(o = "ok" /\ Wins(t, mem[p][t].status))
        <5>1. NoBilling(p, "suno")
          BY <3>1, <4>2 DEF SunoFailure
        <5> QED BY <4>2, <5>1, <1>7, NoBillingEffect DEF Base, Unbilled, PcType
      <4> QED BY <4>1, <4>2
    <3>4. new.full = TRUE /\ new.status \in {"FAILURE", "IN_PROGRESS"}
      BY <1>4, <2>1
    <3> QED BY <1>1, <1>6, <3>2, <3>3, <3>4
            DEF Verdict, Refunding, EndedUnbilled, BrokenOff, Terminal
  <2>2. CASE ~failed
    <3>1. SunoSave(p, t, new, o)
      BY <1>5, <2>2
    <3>2. /\ row' \in [Tasks -> RowType] /\ \A u \in Tasks : u # t => row'[u] = row[u]
          /\ row'[t] = row[t] \/ row'[t] = new
      BY <1>4, <3>1 DEF SunoSave, Base, TypeOK
    <3>3. /\ pc' \in [Pollers -> PcType] /\ bill' = bill
          /\ \A q \in Pollers : q # p => pc'[q] = pc[q] /\ bill'[q] = bill[q]
          /\ Unbilled(p, "suno")
      BY <3>1, NoBillingEffect DEF SunoSave, Base, Unbilled, PcType
    <3>4. \/ new.status = "SUCCESS" /\ new.full = TRUE
          \/ new.status = "IN_PROGRESS" /\ new.full = FALSE
      BY <1>1, <1>4, <2>2 DEF Reports, Terminal
    <3> QED BY <1>1, <1>7, <3>2, <3>3, <3>4 DEF Verdict, Kept, EndedUnbilled, Terminal
  <2> QED BY <2>1, <2>2
<1>9. Handled(p, t, "suno")
  BY <1>1, <1>2, <1>6, <1>8, AnsweredEffect DEF Handled, SunoItem, Base
<1> QED BY <1>8, <1>9

\* So is the end of updateVideoSingleTask.
LEMMA VideoHandles ==
    ASSUME Base, NEW p \in Pollers, NEW t \in Tasks, ApplyVideo(p, t)
    PROVE  Handled(p, t, "video") /\ Verdict(p, t, "video")
<1> DEFINE r    == resp[p][t]
           from == mem[p][t].status
<1>1. pc[p] = "video" /\ r # "none" /\ r \in Reports
  BY DEF ApplyVideo, Pending, Base, TypeOK
<1>2. /\ t \in todo[p] /\ t \notin Suno /\ r # "BROKEN"
      /\ r = "SUCCESS" => upstream[t] = "SUCCESS"
  BY <1>1 DEF Base, Answers, At, Billing
<1>a. PICK o \in Outcomes(t), full \in Progress(r) :
        /\ UpdateWithStatus(t, from, Row(r, full), o)
        /\ Note(t, o)
        /\ IF o = "ok" /\ Wins(t, from) /\ r \in Terminal
           THEN \E d \in IF r = "FAILURE" THEN {-Quota} ELSE Differences(t) :
                    StartBilling(p, t, d, "video")
           ELSE NoBilling(p, "video")
  BY DEF ApplyVideo
<1> DEFINE new == Row(r, full)
<1>3. new \in RowType /\ new.status = r
  <2>1. r \in Statuses /\ full \in BOOLEAN
    BY <1>1, <1>2 DEF Reports, Statuses, Terminal, Progress
  <2> HIDE DEF r
  <2> QED BY <2>1, RowIsRow, RowFields
<1>4. /\ UpdateWithStatus(t, from, new, o)
      /\ Note(t, o)
      /\ IF o = "ok" /\ Wins(t, from) /\ r \in Terminal
         THEN \E d \in IF r = "FAILURE" THEN {-Quota} ELSE Differences(t) :
                  StartBilling(p, t, d, "video")
         ELSE NoBilling(p, "video")
  BY <1>a
<1> HIDE DEF new, r, from
<1>5. /\ row' \in [Tasks -> RowType]
      /\ \A u \in Tasks : u # t => row'[u] = row[u]
      /\ \/ row' = row /\ (o = "err" \/ ~Wins(t, from))
         \/ Wins(t, from) /\ o # "err" /\ row'[t] = new
  BY <1>3, <1>4, UpdateEffect DEF Base
<1>6. hit \subseteq hit' /\ hit' \subseteq hit \cup {t} /\ (o # "ok" => t \in hit')
  BY <1>4 DEF Note
<1>7. bill \in [Pollers -> BillType]
  BY DEF Base, TypeOK, BillType
<1>8. /\ pc' \in [Pollers -> PcType] /\ bill' \in [Pollers -> BillType]
      /\ \A q \in Pollers : q # p => pc'[q] = pc[q] /\ bill'[q] = bill[q]
      /\ Verdict(p, t, "video")
  <2>1. CASE o = "ok" /\ Wins(t, from) /\ r = "FAILURE"
    <3>0. -Quota \in Int /\ (-Quota = 0 => Quota = 0)
      BY NumbersAssumption
    <3>1. StartBilling(p, t, -Quota, "video")
      BY <1>4, <2>1 DEF Terminal
    <3>2. row'[t].status = "FAILURE"
      BY <1>3, <1>5, <2>1 DEF Terminal
    <3>3. /\ pc' \in [Pollers -> PcType] /\ bill' \in [Pollers -> BillType]
          /\ \A q \in Pollers : q # p => pc'[q] = pc[q] /\ bill'[q] = bill[q]
          /\ \/ Unbilled(p, "video") /\ Quota = 0
             \/ Billed(p, t, -Quota, "video")
      BY <3>0, <3>1, BillingEffect DEF Base, Unbilled, Billed, PcType
    <3> QED BY <2>1, <3>2, <3>3 DEF Verdict, Refunding, EndedUnbilled, Terminal, Wins, from
  <2>2. CASE o = "ok" /\ Wins(t, from) /\ r = "SUCCESS"
    <3>1. PICK d \in Differences(t) : StartBilling(p, t, d, "video")
      BY <1>4, <2>2 DEF Terminal
    <3>2. d \in Int /\ (d # 0 => t \notin PerCall /\ \E a \in Actuals \ {0} : d = a - Quota)
      <4>1. Quota \in Nat /\ Actuals \subseteq Nat
        BY NumbersAssumption
      <4>2. CASE t \in PerCall
        BY <4>2 DEF Differences
      <4>3. CASE t \notin PerCall
        <5>1. PICK a \in Actuals : d = IF a = 0 THEN 0 ELSE a - Quota
          BY <4>3 DEF Differences
        <5> QED BY <4>1, <4>3, <5>1
      <4> QED BY <4>2, <4>3
    <3>3. row'[t].status = "SUCCESS"
      BY <1>3, <1>5, <2>2 DEF Terminal
    <3>4. /\ pc' \in [Pollers -> PcType] /\ bill' \in [Pollers -> BillType]
          /\ \A q \in Pollers : q # p => pc'[q] = pc[q] /\ bill'[q] = bill[q]
          /\ Unbilled(p, "video") \/ Billed(p, t, d, "video")
      BY <3>1, <3>2, BillingEffect DEF Base, Unbilled, Billed, PcType
    <3>5. CASE Unbilled(p, "video")
      BY <2>2, <3>3, <3>4, <3>5 DEF Verdict, EndedUnbilled, Terminal, Wins, from
    <3>6. CASE Billed(p, t, d, "video")
      <4>1. d # 0
        BY <3>6 DEF Billed
      <4>2. PICK a \in Actuals \ {0} : d = a - Quota
        BY <3>2, <4>1
      <4>3. Settling(p, t, "video")
        BY <1>2, <2>2, <3>2, <3>3, <3>6, <4>1, <4>2 DEF Settling
      <4> QED BY <2>2, <3>4, <4>3 DEF Verdict, Wins, from
    <3> QED BY <3>4, <3>5, <3>6
  <2>3. CASE ~(o = "ok" /\ Wins(t, from) /\ r \in Terminal)
    <3>1. NoBilling(p, "video")
      BY <1>4, <2>3
    <3>2. /\ pc' \in [Pollers -> PcType] /\ bill' \in [Pollers -> BillType]
          /\ \A q \in Pollers : q # p => pc'[q] = pc[q] /\ bill'[q] = bill[q]
          /\ Unbilled(p, "video")
      BY <1>7, <3>1, NoBillingEffect DEF Base, Unbilled, PcType
    <3>3. CASE row' = row
      BY <3>2, <3>3 DEF Verdict
    <3>4. CASE row' # row /\ r \in Terminal
      BY <1>3, <1>5, <1>6, <2>3, <3>2, <3>4 DEF Verdict, EndedUnbilled, Wins, from
    <3>5. CASE row' # row /\ r \notin Terminal
      <4>1. r = "IN_PROGRESS"
        BY <1>1, <1>2, <3>5 DEF Reports
      <4>2. new.status = "IN_PROGRESS"
        BY <1>3, <4>1
      <4>3. Wins(t, from) /\ row'[t] = new
        BY <1>5, <3>5
      <4> QED BY <1>2, <3>2, <4>2, <4>3 DEF Verdict, Kept, Wins, from
    <3> QED BY <3>2, <3>3, <3>4, <3>5
  <2> QED BY <2>1, <2>2, <2>3 DEF Terminal
<1>9. Handled(p, t, "video")
  BY <1>1, <1>2, <1>5, <1>6, <1>8, AnsweredEffect DEF Handled, ApplyVideo, Base
<1> QED BY <1>8, <1>9
-----------------------------------------------------------------------------
\* Other pollers stay where they are.
LEMMA AtFrame ==
    ASSUME NEW q, pc'[q] = pc[q], bill'[q] = bill[q]
    PROVE  At(q)' = At(q) /\ (Billing(q)' <=> Billing(q))
BY DEF At, Billing

\* Handling a task keeps Base.
LEMMA HandledBase ==
    ASSUME Base, NEW p \in Pollers, NEW t \in Tasks, NEW back \in {"sweep", "poll", "suno", "video"},
           Handled(p, t, back), Verdict(p, t, back)
    PROVE  Base'
<1>1. TypeOK'
  BY DEF Handled, Base, TypeOK, PcType, BillType, envVars
<1>2. Listed'
  BY DEF Handled, Base, TypeOK, Listed
<1>3. At(p)' = back /\ At(p) = back /\ ~Billing(p)
  BY DEF Handled, Verdict, Kept, EndedUnbilled, Refunding, Settling, Unbilled, Billed, At, Billing
<1>4. Answers'
  BY <1>3, AtFrame DEF Handled, Base, TypeOK, Answers, envVars
<1>5. Queries'
  <2>1. query' = query /\ upstream' = upstream
    BY DEF Handled, envVars
  <2>2. ASSUME NEW u \in Tasks, query[u].row.status \in Terminal
        PROVE  row'[u].status \in Terminal
    <3>1. u \in Fetchable
      BY <2>2, NoQueryFields DEF Base, Queries, Terminal
    <3>2. row[u].status \in Terminal /\ u \notin Suno
      BY <2>2, <3>1, TasksAssumption DEF Base, Queries
    <3>3. CASE u # t
      BY <3>2, <3>3 DEF Handled
    <3>4. CASE u = t
      <4>1. row[u].status # mem[p][u].status
        BY <3>2, <3>4 DEF Handled, Base, Listed, AtWork, Terminal
      <4> QED BY <3>2, <3>4, <4>1 DEF Verdict
    <3> QED BY <3>3, <3>4
  <2> QED BY <2>1, <2>2 DEF Base, Queries
<1>6. Bills'
  <2>1. ASSUME NEW q \in Pollers, Billing(q)'
        PROVE  bill'[q].task \in Tasks /\ bill'[q].back # "sleep"
    <3>1. CASE q # p
      BY <2>1, <3>1, AtFrame DEF Handled, Base, Bills
    <3>2. CASE q = p
      BY <2>1, <3>2 DEF Verdict, Kept, EndedUnbilled, Refunding, Settling, Unbilled, Billed, Billing
    <3> QED BY <3>1, <3>2
  <2> QED BY <2>1 DEF Bills
<1> QED BY <1>1, <1>2, <1>4, <1>5, <1>6 DEF Base
\* The type of a user query.
QueryType == [row : RowType, answer : Reports \cup {"none"}]

\* No query is a query record.
LEMMA NoQueryType == NoQuery \in QueryType
BY RowIsRow DEF NoQuery, QueryType, Statuses

\* A missing channel ends all rows of the list, whatever they have become.
LEMMA BulkFailEffect ==
    ASSUME TypeOK, NEW p \in Pollers, NEW S \in SUBSET todo[p], BulkFail(p, S)
    PROVE  /\ ~channel /\ row' \in [Tasks -> RowType]
           /\ \A t \in Tasks : IF t \in S THEN row'[t].status = "FAILURE" /\ row'[t].full = TRUE
                               ELSE row'[t] = row[t]
           /\ todo' \in [Pollers -> SUBSET Tasks]
           /\ todo'[p] = todo[p] \ S /\ \A q \in Pollers : q # p => todo'[q] = todo[q]
<1>1. /\ Row("FAILURE", TRUE) \in RowType /\ Row("FAILURE", TRUE).status = "FAILURE"
      /\ Row("FAILURE", TRUE).full = TRUE
  BY RowIsRow, RowFields DEF Statuses, Terminal
<1> QED BY <1>1 DEF BulkFail, TypeOK

\* Base holds at the start.
LEMMA BaseInit == Init => Base
<1> SUFFICES ASSUME Init PROVE Base
  OBVIOUS
<1>1. Row("ABSENT", FALSE) \in RowType
  BY RowIsRow DEF Statuses
<1>2. NoResp \in [Tasks -> Reports \cup {"none"}] /\ NoBill \in BillType
  BY DEF NoResp, NoBill, BillType
<1>3. TypeOK
  <2>1. /\ row \in [Tasks -> RowType] /\ old \subseteq Tasks
        /\ upstream \in [Tasks -> Reports] /\ channel \in BOOLEAN
    BY <1>1 DEF Init, Reports
  <2>2. /\ pc \in [Pollers -> PcType] /\ todo \in [Pollers -> SUBSET Tasks]
        /\ mem \in [Pollers -> [Tasks -> RowType]] /\ bill \in [Pollers -> BillType]
        /\ resp \in [Pollers -> [Tasks -> Reports \cup {"none"}]]
    BY <1>1, <1>2 DEF Init, PcType
  <2>3. query \in [Tasks -> QueryType]
    BY NoQueryType DEF Init
  <2>4. /\ fetches \in 0..MaxFetches /\ crashes \in 0..MaxCrashes
        /\ paid \in [Tasks -> Int] /\ tokPaid \in [Tasks -> Int]
        /\ adjusted \subseteq Tasks /\ hit \subseteq Tasks
    BY NumbersAssumption DEF Init
  <2> QED BY <2>1, <2>2, <2>3, <2>4 DEF TypeOK, PcType, BillType, QueryType
<1>4. Listed /\ Answers /\ Bills
  BY DEF Init, Listed, Answers, Bills, NoResp, Billing
<1>5. Queries
  BY NoQueryFields DEF Init, Queries, Terminal
<1> QED BY <1>3, <1>4, <1>5 DEF Base

\* The two queries of a round list unfinished rows only.
LEMMA StartRoundBase ==
    ASSUME Base, NEW p \in Pollers, StartRound(p) \/ ListTasks(p)
    PROVE  Base'
<1>1. At(p) \in {"sleep", "sweep"} /\ ~Billing(p)
  BY DEF StartRound, ListTasks, At, Billing
<1>2. \A t \in Tasks : resp[p][t] = "none"
  BY <1>1 DEF Base, Answers
<1>3. PICK S \in SUBSET Unfinished : todo' = [todo EXCEPT ![p] = S]
  BY LimitSubset DEF StartRound, ListTasks
<1>4. S \subseteq Tasks /\ \A t \in S : row[t].status \in AtWork /\ row[t].full = FALSE
  BY DEF Unfinished, AtWork, Base, TypeOK, RowType
<1>5. /\ mem' = [mem EXCEPT ![p] = row] /\ pc'[p] \in {"sweep", "poll"}
      /\ pc' \in [Pollers -> PcType] /\ \A q \in Pollers : q # p => pc'[q] = pc[q]
  BY DEF StartRound, ListTasks, Base, TypeOK, PcType
<1>6. UNCHANGED <<row, envVars, resp, bill, query, fetches, crashes, histVars>>
  BY DEF StartRound, ListTasks
<1>7. TypeOK'
  BY <1>3, <1>4, <1>5, <1>6 DEF Base, TypeOK, envVars, histVars, PcType
<1>8. Listed'
  BY <1>3, <1>4, <1>5 DEF Base, TypeOK, Listed
<1>9. Answers'
  BY <1>2, <1>3, <1>5, <1>6, AtFrame DEF Base, TypeOK, Answers, envVars
<1>10. Queries' /\ Bills'
  BY <1>5, <1>6 DEF Base, Queries, Bills, Billing, envVars
<1> QED BY <1>7, <1>8, <1>9, <1>10 DEF Base

\* updateSunoTasks and updateVideoTasks before their loops: the channel is missing and the
\* listed tasks of the platform fail, or the loop begins.
LEMMA OpenEffect ==
    ASSUME NEW p \in Pollers, OpenSuno(p) \/ OpenVideo(p)
    PROVE  /\ pc[p] = "poll"
           /\ UNCHANGED <<envVars, mem, resp, bill, query, fetches, crashes, histVars>>
           /\ \/ UNCHANGED pc /\ \E S \in SUBSET todo[p] : BulkFail(p, S)
              \/ UNCHANGED <<row, todo>> /\ \E s \in {"suno", "video"} : pc' = [pc EXCEPT ![p] = s]
<1>1. CASE OpenSuno(p)
  <2>1. todo[p] \cap Suno \in SUBSET todo[p]
    OBVIOUS
  <2> QED BY <1>1, <2>1 DEF OpenSuno
<1>2. CASE OpenVideo(p)
  <2>1. todo[p] \ Suno \in SUBSET todo[p]
    OBVIOUS
  <2> QED BY <1>2, <2>1 DEF OpenVideo
<1> QED BY <1>1, <1>2

\* Both keep Base.
LEMMA OpenBase ==
    ASSUME Base, NEW p \in Pollers, OpenSuno(p) \/ OpenVideo(p)
    PROVE  Base'
<1>1. pc[p] = "poll" /\ UNCHANGED <<envVars, mem, resp, bill, query, fetches, crashes, histVars>>
  BY OpenEffect
<1>2. \A t \in Tasks : resp[p][t] = "none"
  BY <1>1 DEF Base, Answers, At, Billing
<1>3. CASE UNCHANGED pc /\ \E S \in SUBSET todo[p] : BulkFail(p, S)
  <2>1. PICK S \in SUBSET todo[p] : BulkFail(p, S)
    BY <1>3
  <2>2. /\ row' \in [Tasks -> RowType]
        /\ \A t \in Tasks : IF t \in S THEN row'[t].status = "FAILURE" ELSE row'[t] = row[t]
        /\ todo' \in [Pollers -> SUBSET Tasks]
        /\ todo'[p] = todo[p] \ S /\ \A q \in Pollers : q # p => todo'[q] = todo[q]
    BY <2>1, BulkFailEffect DEF Base
  <2>3. TypeOK'
    BY <1>1, <1>3, <2>2 DEF Base, TypeOK, envVars, histVars
  <2>4. Listed' /\ Bills'
    BY <1>1, <1>3, <2>2 DEF Base, Listed, Bills, Billing
  <2>5. Answers'
    BY <1>1, <1>2, <1>3, <2>2, AtFrame DEF Base, Answers, envVars
  <2>6. Queries'
    BY <1>1, <2>2 DEF Base, Queries, envVars, Terminal
  <2> QED BY <2>3, <2>4, <2>5, <2>6 DEF Base
<1>4. CASE UNCHANGED <<row, todo>> /\ \E s \in {"suno", "video"} : pc' = [pc EXCEPT ![p] = s]
  <2>1. TypeOK'
    BY <1>1, <1>4 DEF Base, TypeOK, envVars, histVars
  <2>2. Listed' /\ Bills' /\ Queries'
    BY <1>1, <1>4 DEF Base, TypeOK, Listed, Bills, Billing, Queries, envVars
  <2>3. Answers'
    BY <1>1, <1>2, <1>4, AtFrame DEF Base, TypeOK, Answers, envVars
  <2> QED BY <2>1, <2>2, <2>3 DEF Base
<1> QED BY <1>3, <1>4, OpenEffect

\* The fetch of all Suno tasks.
LEMMA FetchSunoBase ==
    ASSUME Base, NEW p \in Pollers, FetchSuno(p)
    PROVE  Base'
<1>1. /\ pc[p] = "suno"
      /\ UNCHANGED <<row, envVars, pc, mem, bill, query, fetches, crashes, histVars>>
  BY DEF FetchSuno
<1>2. At(p) = "suno" /\ \A q \in Pollers : At(q)' = At(q)
  BY <1>1, AtFrame DEF At, Billing
<1>3. PICK got \in SUBSET (todo[p] \cap Suno) :
           /\ resp' = [resp EXCEPT ![p] =
                         [t \in Tasks |-> IF t \in got THEN upstream[t] ELSE "none"]]
           /\ todo' = [todo EXCEPT ![p] = (@ \ Suno) \cup got]
  BY DEF FetchSuno
<1>4. TypeOK'
  BY <1>1, <1>3, TasksAssumption DEF Base, TypeOK, envVars, histVars
<1>5. Listed' /\ Bills' /\ Queries'
  BY <1>1, <1>3 DEF Base, TypeOK, Listed, Bills, Billing, Queries, envVars
<1>6. Answers'
  BY <1>1, <1>2, <1>3 DEF Base, TypeOK, Answers, envVars
<1> QED BY <1>4, <1>5, <1>6 DEF Base

\* The fetch of one video.
LEMMA FetchVideoBase ==
    ASSUME Base, NEW p \in Pollers, NEW t \in Tasks, FetchVideo(p, t)
    PROVE  Base'
<1>1. /\ pc[p] = "video" /\ Pending(p) = {} /\ t \in todo[p] \ Suno
      /\ UNCHANGED <<row, envVars, pc, mem, bill, query, fetches, crashes, histVars>>
  BY DEF FetchVideo, First
<1>2. \A u \in Tasks : resp[p][u] = "none"
  BY <1>1 DEF Pending
<1>3. At(p) = "video" /\ \A q \in Pollers : At(q)' = At(q)
  BY <1>1, AtFrame DEF At, Billing
<1>4. Queries' /\ Bills'
  BY <1>1 DEF Base, Queries, Bills, Billing, envVars
<1>5. CASE (\E r \in {upstream[t], "FAILURE"} : resp' = [resp EXCEPT ![p][t] = r]) /\ UNCHANGED todo
  <2>1. PICK r \in {upstream[t], "FAILURE"} : resp' = [resp EXCEPT ![p][t] = r]
    BY <1>5
  <2>2. r \in Reports /\ (r = "SUCCESS" => upstream[t] = "SUCCESS") /\ r # "BROKEN"
    BY <1>1, <2>1 DEF Base, TypeOK, Queries, Reports, Terminal
  <2>3. TypeOK'
    BY <1>1, <1>5, <2>1, <2>2 DEF Base, TypeOK, envVars, histVars
  <2>4. Listed'
    BY <1>1, <1>5 DEF Base, Listed
  <2>5. Answers'
    BY <1>1, <1>2, <1>3, <1>5, <2>1, <2>2 DEF Base, TypeOK, Answers, envVars
  <2> QED BY <1>4, <2>3, <2>4, <2>5 DEF Base
<1>6. CASE todo' = [todo EXCEPT ![p] = @ \ {t}] /\ UNCHANGED resp
  <2>1. TypeOK'
    BY <1>1, <1>6 DEF Base, TypeOK, envVars, histVars
  <2>2. Listed'
    BY <1>1, <1>6 DEF Base, TypeOK, Listed
  <2>3. Answers'
    BY <1>1, <1>2, <1>3, <1>6 DEF Base, TypeOK, Answers, envVars
  <2> QED BY <1>4, <2>1, <2>2, <2>3 DEF Base
<1> QED BY <1>5, <1>6 DEF FetchVideo
\* The other steps of a poller.
LEMMA PollerBase ==
    ASSUME Base, NEW p \in Pollers,
           CloseSuno(p) \/ CloseVideo(p) \/ EndRound(p) \/ AdjustFunding(p) \/ AdjustToken(p)
             \/ Crash(p) \/ SunoPanic(p)
    PROVE  Base'
<1>1. CASE CloseSuno(p) \/ CloseVideo(p) \/ EndRound(p)
  <2>1. /\ pc[p] \in {"suno", "video", "poll"} /\ \E s \in {"poll", "sleep"} : pc' = [pc EXCEPT ![p] = s]
        /\ UNCHANGED <<row, envVars, todo, mem, resp, bill, query, fetches, crashes, histVars>>
    BY <1>1 DEF CloseSuno, CloseVideo, EndRound
  <2>2. \A t \in Tasks : resp[p][t] = "none"
    <3>1. CASE CloseSuno(p) \/ CloseVideo(p)
      BY <3>1 DEF CloseSuno, CloseVideo, Base, Answers, At, Billing
    <3>2. CASE EndRound(p)
      BY <3>2 DEF EndRound, Base, Answers
    <3> QED BY <1>1, <3>1, <3>2
  <2>3. TypeOK' /\ Listed' /\ Queries' /\ Bills'
    BY <2>1 DEF Base, TypeOK, Listed, Queries, Bills, Billing, envVars, histVars
  <2>4. Answers'
    BY <2>1, <2>2, AtFrame DEF Base, TypeOK, Answers, envVars
  <2> QED BY <2>3, <2>4 DEF Base
<1>2. CASE AdjustFunding(p)
  <2>1. pc[p] = "adjust" /\ bill[p].task \in Tasks /\ bill[p].back \in {"sweep", "poll", "suno", "video"}
    BY <1>2 DEF AdjustFunding, Base, Bills, Billing, TypeOK
  <2>2. /\ \E s \in {"adjustToken", bill[p].back} : pc' = [pc EXCEPT ![p] = s]
        /\ UNCHANGED <<row, envVars, todo, mem, resp, bill, query, fetches, crashes, tokPaid>>
        /\ paid' \in [Tasks -> Int] /\ adjusted' \subseteq Tasks /\ hit' \subseteq Tasks
    <3>1. PICK o \in Outcomes(bill[p].task) :
            /\ Note(bill[p].task, o)
            /\ IF o = "err" THEN UNCHANGED <<paid, adjusted>>
               ELSE /\ paid' = [paid EXCEPT ![bill[p].task] = @ + bill[p].delta]
                    /\ adjusted' = adjusted \cup {bill[p].task}
            /\ pc' = [pc EXCEPT ![p] = IF o = "ok" THEN "adjustToken" ELSE bill[p].back]
      BY <1>2 DEF AdjustFunding
    <3>2. hit' \subseteq Tasks
      BY <2>1, <3>1 DEF Note, Base, TypeOK
    <3>3. paid' \in [Tasks -> Int] /\ adjusted' \subseteq Tasks
      BY <2>1, <3>1 DEF Base, TypeOK
    <3>4. \E s \in {"adjustToken", bill[p].back} : pc' = [pc EXCEPT ![p] = s]
      BY <3>1
    <3> QED BY <1>2, <3>2, <3>3, <3>4 DEF AdjustFunding
  <2>3. \A q \in Pollers : At(q)' = At(q) /\ (Billing(q)' => Billing(q))
    BY <2>1, <2>2 DEF At, Billing, Base, TypeOK
  <2>4. TypeOK'
    BY <2>1, <2>2 DEF Base, TypeOK, envVars
  <2> QED BY <2>2, <2>3, <2>4 DEF Base, Listed, Answers, Queries, Bills, envVars
<1>3. CASE AdjustToken(p)
  <2>1. pc[p] = "adjustToken" /\ bill[p].task \in Tasks /\ bill[p].back \in {"sweep", "poll", "suno", "video"}
    BY <1>3 DEF AdjustToken, Base, Bills, Billing, TypeOK
  <2>2. /\ pc' = [pc EXCEPT ![p] = bill[p].back]
        /\ UNCHANGED <<row, envVars, todo, mem, resp, bill, query, fetches, crashes, paid, adjusted>>
        /\ tokPaid' \in [Tasks -> Int] /\ hit' \subseteq Tasks
    BY <1>3, <2>1 DEF AdjustToken, Note, Base, TypeOK
  <2>3. \A q \in Pollers : At(q)' = At(q) /\ (Billing(q)' => Billing(q))
    BY <2>1, <2>2 DEF At, Billing, Base, TypeOK
  <2>4. TypeOK'
    BY <2>1, <2>2 DEF Base, TypeOK, envVars
  <2> QED BY <2>2, <2>3, <2>4 DEF Base, Listed, Answers, Queries, Bills, envVars
<1>4. CASE Crash(p) \/ SunoPanic(p)
  <2>1. /\ pc' = [pc EXCEPT ![p] = "sleep"] /\ todo' = [todo EXCEPT ![p] = {}]
        /\ resp' = [resp EXCEPT ![p] = NoResp]
        /\ crashes' = crashes \/ (crashes' = crashes + 1 /\ crashes < MaxCrashes)
        /\ UNCHANGED <<row, envVars, mem, bill, query, fetches, paid, tokPaid, adjusted>>
        /\ hit' \subseteq Tasks
    BY <1>4 DEF Crash, SunoPanic, Base, TypeOK, Bills, Billing, histVars
  <2>2. NoResp \in [Tasks -> Reports \cup {"none"}] /\ \A t \in Tasks : NoResp[t] = "none"
    BY DEF NoResp
  <2>3. TypeOK'
    BY <2>1, <2>2, NumbersAssumption DEF Base, TypeOK, envVars
  <2>4. Listed' /\ Queries' /\ Bills'
    BY <2>1 DEF Base, TypeOK, Listed, Queries, Bills, Billing, envVars
  <2>5. Answers'
    BY <2>1, <2>2, AtFrame DEF Base, TypeOK, Answers, envVars
  <2> QED BY <2>3, <2>4, <2>5 DEF Base
<1> QED BY <1>1, <1>2, <1>3, <1>4

\* The steps of a user query.
LEMMA QueryBase ==
    ASSUME Base, NEW t \in Tasks, QueryStart(t) \/ QueryFetch(t) \/ QueryStore(t)
    PROVE  Base'
<1> USE DEF QueryType
<1>1. CASE QueryStart(t)
  <2>1. /\ t \in Fetchable /\ query[t] = NoQuery /\ fetches < MaxFetches
        /\ query' = [query EXCEPT ![t].row = row[t]] /\ fetches' = fetches + 1
        /\ UNCHANGED <<row, envVars, pollVars, crashes, histVars>>
    BY <1>1 DEF QueryStart
  <2>2. /\ query' \in [Tasks -> QueryType] /\ query'[t].row = row[t] /\ query'[t].answer = "none"
        /\ \A u \in Tasks : u # t => query'[u] = query[u]
    BY <2>1, NoQueryFields DEF Base, TypeOK
  <2>3. TypeOK'
    BY <2>1, <2>2, NumbersAssumption DEF Base, TypeOK, envVars, pollVars, histVars
  <2>4. Listed' /\ Bills' /\ Answers'
    BY <2>1 DEF Base, Listed, Bills, Billing, Answers, At, envVars, pollVars
  <2>5. Queries'
    BY <2>1, <2>2 DEF Base, Queries, envVars
  <2> QED BY <2>3, <2>4, <2>5 DEF Base
<1>2. CASE QueryFetch(t)
  <2>1. /\ query[t] # NoQuery /\ query[t].answer = "none" /\ t \in Fetchable /\ t \notin Suno
        /\ UNCHANGED <<row, envVars, pollVars, fetches, crashes, histVars>>
    BY <1>2, TasksAssumption DEF QueryFetch, Base, Queries
  <2>2. /\ query' \in [Tasks -> QueryType]
        /\ \A u \in Tasks : u # t => query'[u] = query[u]
        /\ \/ query'[t] = NoQuery
           \/ query'[t].row = query[t].row /\ query'[t].answer \in {upstream[t], "FAILURE"}
    <3>1. CASE query' = [query EXCEPT ![t] = NoQuery]
      BY <3>1, NoQueryType DEF Base, TypeOK
    <3>2. CASE \E r \in {upstream[t], "FAILURE"} : query' = [query EXCEPT ![t].answer = r]
      <4>1. PICK r \in {upstream[t], "FAILURE"} : query' = [query EXCEPT ![t].answer = r]
        BY <3>2
      <4>2. r \in Reports
        BY DEF Base, TypeOK, Reports, Terminal
      <4> QED BY <4>1, <4>2 DEF Base, TypeOK
    <3> QED BY <1>2, <3>1, <3>2 DEF QueryFetch
  <2>3. TypeOK'
    BY <2>1, <2>2 DEF Base, TypeOK, envVars, pollVars, histVars
  <2>4. Listed' /\ Bills' /\ Answers'
    BY <2>1 DEF Base, Listed, Bills, Billing, Answers, At, envVars, pollVars
  <2>5. Queries'
    BY <2>1, <2>2, NoQueryFields DEF Base, Queries, envVars, Terminal
  <2> QED BY <2>3, <2>4, <2>5 DEF Base
<1>3. CASE QueryStore(t)
  <2> DEFINE r   == query[t].answer
             new == Row(r, r \in Terminal)
  <2>1. r # "none" /\ r \in Statuses
    BY <1>3 DEF QueryStore, Base, TypeOK, Queries, Reports, Statuses, Terminal
  <2>2. new \in RowType
    <3> HIDE DEF r
    <3> QED BY <2>1, NewRow
  <2>3. UpdateWithStatus(t, query[t].row.status, new, "ok")
    BY <1>3 DEF QueryStore
  <2>4. /\ query' = [query EXCEPT ![t] = NoQuery]
        /\ UNCHANGED <<envVars, pollVars, fetches, crashes, histVars>>
    BY <1>3 DEF QueryStore
  <2> HIDE DEF new, r
  <2>5. row' \in [Tasks -> RowType] /\ \A u \in Tasks : u # t => row'[u] = row[u]
    BY <2>2, <2>3, UpdateEffect DEF Base
  <2>6. TypeOK'
    BY <2>4, <2>5, NoQueryType DEF Base, TypeOK, envVars, pollVars, histVars
  <2>7. Listed' /\ Bills' /\ Answers'
    BY <2>4 DEF Base, Listed, Bills, Billing, Answers, At, envVars, pollVars
  <2>8. Queries'
    BY <2>4, <2>5, NoQueryFields DEF Base, TypeOK, Queries, envVars, Terminal
  <2> QED BY <2>6, <2>7, <2>8 DEF Base
<1> QED BY <1>1, <1>2, <1>3

\* A submission charges Quota and leaves an open row, tracked or not.
LEMMA SubmitEffect ==
    ASSUME TypeOK, NEW t \in Tasks, Submit(t)
    PROVE  /\ row[t].status = "ABSENT"
           /\ row' \in [Tasks -> RowType] /\ \A u \in Tasks : u # t => row'[u] = row[u]
           /\ row'[t].status \in {"UNTRACKED", "NOT_START"} /\ row'[t].full = FALSE
           /\ paid' = [paid EXCEPT ![t] = Quota]
           /\ tokPaid' = [tokPaid EXCEPT ![t] = IF t \in NoToken THEN 0 ELSE Quota]
           /\ hit \subseteq hit' /\ hit' \subseteq hit \cup {t}
           /\ UNCHANGED <<envVars, pollVars, query, fetches, crashes, adjusted>>
<1>1. \A s \in {"UNTRACKED", "NOT_START"} :
         Row(s, FALSE) \in RowType /\ Row(s, FALSE).status = s /\ Row(s, FALSE).full = FALSE
  BY RowIsRow, RowFields DEF Statuses
<1>2. PICK s \in {"UNTRACKED", "NOT_START"} : row' = [row EXCEPT ![t] = Row(s, FALSE)]
  BY DEF Submit
<1>3. hit \subseteq hit' /\ hit' \subseteq hit \cup {t}
  BY DEF Submit, Note
<1>4. /\ row' \in [Tasks -> RowType] /\ \A u \in Tasks : u # t => row'[u] = row[u]
      /\ row'[t].status \in {"UNTRACKED", "NOT_START"} /\ row'[t].full = FALSE
  BY <1>1, <1>2 DEF TypeOK
<1> QED BY <1>3, <1>4 DEF Submit

\* Submissions, the upstream and the clock.
LEMMA WorldBase ==
    ASSUME Base, NEW t \in Tasks, Submit(t) \/ UpstreamEnds(t) \/ TimesOut(t)
    PROVE  Base'
<1>1. CASE Submit(t)
  <2>1. /\ row' \in [Tasks -> RowType] /\ \A u \in Tasks : u # t => row'[u] = row[u]
        /\ row[t].status = "ABSENT" /\ hit' \subseteq hit \cup {t}
        /\ paid' = [paid EXCEPT ![t] = Quota]
        /\ tokPaid' = [tokPaid EXCEPT ![t] = IF t \in NoToken THEN 0 ELSE Quota]
        /\ UNCHANGED <<envVars, pollVars, query, fetches, crashes, adjusted>>
    BY <1>1, SubmitEffect DEF Base
  <2>2. paid' \in [Tasks -> Int] /\ tokPaid' \in [Tasks -> Int] /\ hit' \subseteq Tasks
    BY <2>1, NumbersAssumption DEF Base, TypeOK
  <2>3. TypeOK'
    BY <2>1, <2>2 DEF Base, TypeOK, envVars, pollVars
  <2>4. Listed' /\ Bills' /\ Answers'
    BY <2>1 DEF Base, Listed, Bills, Billing, Answers, At, envVars, pollVars
  <2>5. Queries'
    BY <2>1 DEF Base, Queries, envVars, Terminal
  <2> QED BY <2>3, <2>4, <2>5 DEF Base
<1>2. CASE UpstreamEnds(t)
  <2>1. PICK r \in Terminal \cup (IF t \in Suno THEN {"BROKEN"} ELSE {}) :
           upstream' = [upstream EXCEPT ![t] = r]
    BY <1>2 DEF UpstreamEnds
  <2>2. r \in Reports /\ (r = "BROKEN" => t \in Suno) /\ upstream[t] = "IN_PROGRESS"
    BY <1>2 DEF Reports, Terminal, UpstreamEnds
  <2>3. UNCHANGED <<row, old, channel, pollVars, query, fetches, crashes, histVars>>
    BY <1>2 DEF UpstreamEnds
  <2>4. TypeOK' /\ Listed' /\ Bills'
    BY <2>1, <2>2, <2>3 DEF Base, TypeOK, Listed, Bills, Billing, pollVars, histVars
  <2>5. Answers'
    BY <2>1, <2>2, <2>3 DEF Base, TypeOK, Answers, At, Billing, pollVars
  <2>6. Queries'
    BY <2>1, <2>2, <2>3 DEF Base, TypeOK, Queries
  <2> QED BY <2>4, <2>5, <2>6 DEF Base
<1>3. CASE TimesOut(t)
  <2>1. /\ old' = old \cup {t}
        /\ UNCHANGED <<row, upstream, channel, pollVars, query, fetches, crashes, histVars>>
    BY <1>3 DEF TimesOut
  <2>2. TypeOK'
    BY <2>1 DEF Base, TypeOK, pollVars, histVars
  <2>3. Listed' /\ Bills' /\ Answers' /\ Queries'
    BY <2>1 DEF Base, Listed, Bills, Billing, Answers, At, Queries, pollVars
  <2> QED BY <2>2, <2>3 DEF Base
<1> QED BY <1>1, <1>2, <1>3

\* The deletion of the channel.
LEMMA ChannelBase ==
    ASSUME Base, DeleteChannel
    PROVE  Base'
<1>1. /\ channel' = FALSE
      /\ UNCHANGED <<row, old, upstream, pollVars, query, fetches, crashes, histVars>>
  BY DEF DeleteChannel
<1>2. TypeOK'
  BY <1>1 DEF Base, TypeOK, pollVars, histVars
<1>3. Listed' /\ Bills' /\ Answers' /\ Queries'
  BY <1>1 DEF Base, Listed, Bills, Billing, Answers, At, Queries, pollVars
<1> QED BY <1>2, <1>3 DEF Base

\* Base is inductive: one step per action.
LEMMA BaseStep == Base /\ [Next]_vars => Base'
<1> SUFFICES ASSUME Base, [Next]_vars PROVE Base'
  OBVIOUS
<1>1. ASSUME NEW p \in Pollers, PollStep(p) \/ UpstreamStep(p) \/ Crash(p)
      PROVE  Base'
  <2>1. CASE StartRound(p) \/ ListTasks(p)
    BY <2>1, StartRoundBase
  <2>2. CASE OpenSuno(p) \/ OpenVideo(p)
    BY <2>2, OpenBase
  <2>3. CASE FetchSuno(p)
    BY <2>3, FetchSunoBase
  <2>4. CASE \/ CloseSuno(p) \/ CloseVideo(p) \/ EndRound(p) \/ AdjustFunding(p) \/ AdjustToken(p)
             \/ Crash(p) \/ SunoPanic(p)
    BY <2>4, PollerBase
  <2>5. ASSUME NEW t \in Tasks, SweepTask(p, t) PROVE Base'
    BY <2>5, SweepHandles, HandledBase
  <2>6. ASSUME NEW t \in Tasks, SunoItem(p, t) PROVE Base'
    BY <2>6, SunoHandles, HandledBase
  <2>7. ASSUME NEW t \in Tasks, ApplyVideo(p, t) PROVE Base'
    BY <2>7, VideoHandles, HandledBase
  <2>8. ASSUME NEW t \in Tasks, FetchVideo(p, t) PROVE Base'
    BY <2>8, FetchVideoBase
  <2> QED BY <1>1, <2>1, <2>2, <2>3, <2>4, <2>5, <2>6, <2>7, <2>8 DEF PollStep, UpstreamStep
<1>2. ASSUME NEW t \in Tasks,
             Submit(t) \/ QueryStart(t) \/ QueryFetch(t) \/ QueryStore(t)
               \/ UpstreamEnds(t) \/ TimesOut(t)
      PROVE  Base'
  BY <1>2, QueryBase, WorldBase
<1>3. CASE DeleteChannel
  BY <1>3, ChannelBase
<1>4. CASE UNCHANGED vars
  <2>1. TypeOK'
    BY <1>4 DEF vars, Base, TypeOK, envVars, pollVars, histVars
  <2>2. Listed' /\ Bills' /\ Answers' /\ Queries'
    BY <1>4 DEF vars, Base, Listed, Bills, Billing, Answers, At, Queries, envVars, pollVars
  <2> QED BY <2>1, <2>2 DEF Base
<1> QED BY <1>1, <1>2, <1>3, <1>4 DEF Next

\* Every variable keeps its type; in particular no Suno-only answer ever becomes the status of a
\* video row (updateVideoSingleTask writes the parsed status as it is).
THEOREM TypeCorrect == Spec => []TypeOK
<1>1. Base => TypeOK
  BY DEF Base
<1> QED BY <1>1, BaseInit, BaseStep, PTL DEF Spec
-----------------------------------------------------------------------------
\* A finite, non-empty set of naturals has a largest element: among the subsets without one
\* take a smallest, and leave out an element.
LEMMA Largest ==
    ASSUME NEW S, IsFiniteSet(S), S \subseteq Nat, S # {}
    PROVE  \E m \in S : \A x \in S : x <= m
<1> DEFINE HasMax(T) == \E m \in T : \A x \in T : x <= m
           Bad == {T \in SUBSET S : T # {} /\ ~HasMax(T)}
           Sizes == {Cardinality(T) : T \in Bad}
           R == OpToRel(<, Nat)
<1>1. SUFFICES ASSUME Bad # {} PROVE FALSE
  OBVIOUS
<1>2. \A T \in SUBSET S : IsFiniteSet(T) /\ Cardinality(T) \in Nat
  BY FS_Subset, FS_CardinalityType
<1>3. Sizes \subseteq Nat /\ Sizes # {}
  BY <1>1, <1>2
<1>4. IsWellFoundedOn(R, Nat)
  BY NatLessThanWellFounded
<1>5. PICK n \in Sizes : \A k \in Sizes : ~(<<k, n>> \in R)
  <2> HIDE DEF Sizes, R
  <2> QED BY <1>3, <1>4, WFMin
<1>6. \A k \in Sizes : ~(k < n)
  BY <1>3, <1>5 DEF OpToRel
<1>7. PICK T \in Bad : n = Cardinality(T)
  BY <1>5
<1>8. PICK x \in T : TRUE
  BY <1>7
<1> DEFINE U == T \ {x}
<1>9. U \in SUBSET S /\ Cardinality(U) < n
  <2>1. Cardinality(U) = n - 1 /\ n \in Nat
    BY <1>2, <1>7, <1>8, FS_RemoveElement
  <2> QED BY <2>1
<1>10. U = {} \/ HasMax(U)
  <2>1. U \notin Bad
    BY <1>6, <1>9
  <2> QED BY <1>9, <2>1
<1>11. T \subseteq Nat /\ x \in Nat
  BY <1>7, <1>8
<1>12. CASE U = {}
  <2>1. T = {x}
    BY <1>8, <1>12
  <2> QED BY <1>7, <1>11, <2>1
<1>13. CASE HasMax(U)
  <2>1. PICK m \in U : \A y \in U : y <= m
    BY <1>13
  <2>2. CASE x <= m
    BY <1>7, <1>8, <1>11, <2>1, <2>2
  <2>3. CASE ~(x <= m)
    BY <1>7, <1>8, <1>11, <2>1, <2>3
  <2> QED BY <2>2, <2>3
<1> QED BY <1>10, <1>12, <1>13

\* So the dearest price of a task exists.
LEMMA DearestIsLargest ==
    /\ Dearest \in Nat /\ Quota <= Dearest /\ \A a \in Actuals : a <= Dearest
<1> DEFINE S == Actuals \cup {Quota}
<1>1. IsFiniteSet(S) /\ S \subseteq Nat /\ S # {}
  BY NumbersAssumption, FS_AddElement
<1>2. \E m \in S : \A x \in S : x <= m
  <2> HIDE DEF S
  <2> QED BY <1>1, Largest
<1> QED BY <1>1, <1>2 DEF Dearest

-----------------------------------------------------------------------------
\* p is about to charge t more than its estimate.
Raising(p, t) == Billing(p) /\ bill[p].task = t /\ bill[p].delta > 0

\* t has cost at most its estimate and nobody is about to raise that.
Calm(t) ==
    /\ paid[t] <= Quota /\ tokPaid[t] <= Quota
    /\ \A p \in Pollers : ~Raising(p, t)

\* t has succeeded and its price was raised, or is being raised by exactly one poller: the row
\* stays terminal, because the upstream has succeeded and no query can still reopen it.
Raised(t) ==
    /\ t \notin Suno /\ row[t].status \in Terminal /\ upstream[t] = "SUCCESS"
    /\ query[t].row.status \in Terminal => query[t].answer \in Terminal \cup {"none"}
    /\ paid[t] <= Dearest /\ tokPaid[t] <= Dearest
    /\ \A p, q \in Pollers : Raising(p, t) /\ Raising(q, t) => p = q
    /\ \A p \in Pollers : Raising(p, t) =>
          /\ bill[p].delta <= Dearest - Quota /\ tokPaid[t] <= Quota
          /\ pc[p] = "adjust" => paid[t] <= Quota

\* The inductive invariant behind NeverOvercharged.
Ceiling == \A t \in Tasks : Calm(t) \/ Raised(t)

\* A step that changes neither the charges nor the bills of t, and reopens no ended video, keeps it.
LEMMA CeilingFrame ==
    ASSUME NEW t \in Tasks, Calm(t) \/ Raised(t),
           UNCHANGED upstream, paid'[t] = paid[t], tokPaid'[t] = tokPaid[t], query'[t] = query[t],
           row[t].status \in Terminal /\ t \notin Suno => row'[t].status \in Terminal,
           \A q \in Pollers : Raising(q, t)' => 
              Raising(q, t) /\ bill'[q].delta = bill[q].delta /\ pc'[q] = pc[q]
    PROVE  Calm(t)' \/ Raised(t)'
<1>1. CASE Calm(t)
  BY <1>1 DEF Calm
<1>2. CASE Raised(t)
  BY <1>2 DEF Raised
<1> QED BY <1>1, <1>2

\* Only a success won from an open row raises a price, and then nobody has raised it before.
LEMMA HandledCeiling ==
    ASSUME Base, Ceiling, NEW p \in Pollers, NEW t \in Tasks,
           NEW back \in {"sweep", "poll", "suno", "video"}, Handled(p, t, back), Verdict(p, t, back)
    PROVE  Ceiling'
<1> SUFFICES ASSUME NEW u \in Tasks PROVE Calm(u)' \/ Raised(u)'
  BY DEF Ceiling
<1>1. /\ UNCHANGED <<upstream, query, paid, tokPaid>>
      /\ \A v \in Tasks : v # t => row'[v] = row[v]
      /\ \A q \in Pollers : q # p => pc'[q] = pc[q] /\ bill'[q] = bill[q]
      /\ pc[p] = back
  BY DEF Handled, envVars
<1>2. \A q \in Pollers, v \in Tasks : q # p => (Raising(q, v)' <=> Raising(q, v))
  BY <1>1 DEF Raising, Billing
<1>3. Calm(u) \/ Raised(u)
  BY DEF Ceiling
<1>4. t \notin Suno /\ row'[t] # row[t] => row[t].status \in AtWork
  BY DEF Verdict, Handled, Base, Listed
<1>5. CASE ~Raising(p, u)'
  <2>1. row[u].status \in Terminal /\ u \notin Suno => row'[u].status \in Terminal
    BY <1>1, <1>4 DEF AtWork, Terminal
  <2>2. \A q \in Pollers : Raising(q, u)' => 
              Raising(q, u) /\ bill'[q].delta = bill[q].delta /\ pc'[q] = pc[q]
    BY <1>1, <1>2, <1>5
  <2> QED BY <1>1, <1>3, <2>1, <2>2, CeilingFrame
<1>6. CASE Raising(p, u)'
  <2>1. Quota \in Nat /\ -Quota <= 0
    BY NumbersAssumption
  <2>2. u = t /\ Settling(p, t, back)
    BY <1>1, <1>6, <2>1 DEF Raising, Billing, Verdict, Kept, EndedUnbilled, Refunding, Settling, Billed, Unbilled
  <2>3. PICK a \in Actuals \ {0} : Billed(p, t, a - Quota, back)
    BY <2>2 DEF Settling
  <2>4. bill'[p].delta <= Dearest - Quota /\ pc'[p] = "adjust"
    <3>1. a \in Nat /\ a <= Dearest /\ Dearest \in Nat
      BY <2>3, DearestIsLargest, NumbersAssumption
    <3>2. bill'[p].delta = a - Quota /\ pc'[p] = "adjust"
      BY <2>3 DEF Billed
    <3> QED BY <2>1, <3>1, <3>2
  <2>5. row[t].status \in AtWork /\ row'[t].status = "SUCCESS" /\ upstream[t] = "SUCCESS" /\ t \notin Suno
    <3>1. row'[t].status = "SUCCESS" /\ upstream[t] = "SUCCESS" /\ t \notin Suno
      BY <2>2 DEF Settling
    <3>2. row[t].status = mem[p][t].status
      BY <2>2, <2>3, <3>1, <1>1 DEF Verdict, Settling, Billed, Unbilled
    <3> QED BY <3>1, <3>2 DEF Handled, Base, Listed
  <2>6. Calm(t)
    BY <1>3, <2>2, <2>5 DEF Raised, AtWork, Terminal
  <2>7. query[t].row.status \notin Terminal
    BY <2>5 DEF Base, Queries, AtWork, Terminal
  <2>8. paid[t] \in Int /\ tokPaid[t] \in Int
    BY DEF Base, TypeOK
  <2>9. Raised(t)'
    BY <1>1, <1>2, <2>1, <2>4, <2>5, <2>6, <2>7, <2>8, DearestIsLargest DEF Raised, Calm, Terminal
  <2> QED BY <2>2, <2>9
<1> QED BY <1>5, <1>6
\* The one raise is applied once to the funding source and once to the token.
LEMMA AdjustCeiling ==
    ASSUME Base, Ceiling, NEW p \in Pollers, AdjustFunding(p) \/ AdjustToken(p)
    PROVE  Ceiling'
<1> DEFINE t == bill[p].task
           d == bill[p].delta
<1>1. /\ Billing(p) /\ t \in Tasks /\ bill[p].back \in {"sweep", "poll", "suno", "video"} /\ d \in Int
      /\ UNCHANGED <<row, upstream, query, bill>>
      /\ \A q \in Pollers : q # p => pc'[q] = pc[q]
  BY DEF AdjustFunding, AdjustToken, Billing, Base, Bills, TypeOK, envVars
<1>2. \/ /\ pc[p] = "adjust" /\ pc'[p] \in {"adjustToken", bill[p].back}
         /\ tokPaid' = tokPaid /\ (paid' = paid \/ paid' = [paid EXCEPT ![t] = @ + d])
      \/ /\ pc[p] = "adjustToken" /\ pc'[p] = bill[p].back
         /\ paid' = paid /\ (tokPaid' = tokPaid \/ tokPaid' = [tokPaid EXCEPT ![t] = @ + d])
  BY DEF AdjustFunding, AdjustToken, Base, TypeOK
<1>3. /\ paid \in [Tasks -> Int] /\ tokPaid \in [Tasks -> Int] /\ Quota \in Int /\ Dearest \in Int
      /\ Quota <= Dearest
  BY NumbersAssumption, DearestIsLargest DEF Base, TypeOK
<1> SUFFICES ASSUME NEW u \in Tasks PROVE Calm(u)' \/ Raised(u)'
  BY DEF Ceiling
<1>4. Calm(u) \/ Raised(u)
  BY DEF Ceiling
<1>5. \A q \in Pollers : /\ Raising(q, u)' => Raising(q, u)
                         /\ q # p => (Raising(q, u)' <=> Raising(q, u))
                         /\ Raising(p, u) <=> (u = t /\ d > 0)
  BY <1>1, <1>2 DEF Raising, Billing
<1> HIDE DEF t, d
<1>6. CASE u # t
  <2>1. paid'[u] = paid[u] /\ tokPaid'[u] = tokPaid[u]
    BY <1>2, <1>3, <1>6
  <2>2. \A q \in Pollers : Raising(q, u)' =>
              Raising(q, u) /\ bill'[q].delta = bill[q].delta /\ pc'[q] = pc[q]
    BY <1>1, <1>5, <1>6
  <2> QED BY <1>1, <1>4, <2>1, <2>2, CeilingFrame
<1>7. CASE u = t
  <2>1. CASE Calm(u)
    <3>1. d <= 0
      BY <1>1, <1>5, <1>7, <2>1 DEF Calm
    <3>2. paid'[u] <= paid[u] /\ tokPaid'[u] <= tokPaid[u]
      BY <1>1, <1>2, <1>3, <1>7, <3>1
    <3>3. paid'[u] \in Int /\ tokPaid'[u] \in Int
      BY <1>1, <1>2, <1>3, <1>7
    <3>4. Calm(u)'
      BY <1>3, <1>5, <2>1, <3>2, <3>3 DEF Calm
    <3> QED BY <3>4
  <2>2. CASE Raised(u) /\ d <= 0
    <3>1. paid'[u] <= paid[u] /\ tokPaid'[u] <= tokPaid[u]
      BY <1>1, <1>2, <1>3, <1>7, <2>2
    <3>2. paid'[u] \in Int /\ tokPaid'[u] \in Int
      BY <1>1, <1>2, <1>3, <1>7
    <3>3. \A q \in Pollers : Raising(q, u)' => q # p
      BY <1>1, <1>5, <2>2
    <3>4. Raised(u)'
      BY <1>1, <1>3, <1>5, <2>2, <3>1, <3>2, <3>3 DEF Raised
    <3> QED BY <3>4
  <2>3. CASE Raised(u) /\ d > 0
    <3>1. Raising(p, u) /\ d <= Dearest - Quota /\ tokPaid[u] <= Quota
      BY <1>5, <1>7, <2>3 DEF Raised, d
    <3>2. \A q \in Pollers : Raising(q, u)' => q = p
      BY <1>5, <2>3, <3>1 DEF Raised
    <3>3. pc[p] = "adjust" => paid[u] <= Quota
      BY <2>3, <3>1 DEF Raised
    <3>4. paid'[u] <= Dearest /\ tokPaid'[u] <= Dearest
      <4>1. paid[u] <= Dearest /\ tokPaid[u] <= Dearest
        BY <2>3 DEF Raised
      <4>2. paid[u] \in Int /\ tokPaid[u] \in Int
        BY <1>3
      <4>3. \/ pc[p] = "adjust" /\ tokPaid'[u] = tokPaid[u] /\ paid'[u] \in {paid[u], paid[u] + d}
            \/ pc[p] = "adjustToken" /\ paid'[u] = paid[u] /\ tokPaid'[u] \in {tokPaid[u], tokPaid[u] + d}
        BY <1>2, <1>3, <1>7
      <4> QED BY <1>1, <1>3, <3>1, <3>3, <4>1, <4>2, <4>3
    <3>5. Raising(p, u)' => pc'[p] = "adjustToken" /\ tokPaid' = tokPaid
      BY <1>1, <1>2 DEF Raising, Billing
    <3>6. Raised(u)'
      BY <1>1, <1>7, <2>3, <3>1, <3>2, <3>4, <3>5 DEF Raised, d
    <3> QED BY <3>6
  <2> QED BY <1>1, <1>4, <2>1, <2>2, <2>3
<1> QED BY <1>6, <1>7

\* A query that rewrites the row after a success can only write a terminal status.
LEMMA QueryCeiling ==
    ASSUME Base, Ceiling, NEW t \in Tasks, QueryStart(t) \/ QueryFetch(t) \/ QueryStore(t)
    PROVE  Ceiling'
<1> SUFFICES ASSUME NEW u \in Tasks PROVE Calm(u)' \/ Raised(u)'
  BY DEF Ceiling
<1>1. Calm(u) \/ Raised(u)
  BY DEF Ceiling
<1>2. /\ UNCHANGED <<upstream, paid, tokPaid, pc, bill>>
      /\ \A q \in Pollers : Raising(q, u)' <=> Raising(q, u)
  BY DEF QueryStart, QueryFetch, QueryStore, envVars, pollVars, histVars, Raising, Billing
<1>3. CASE Calm(u)
  <2>1. Calm(u)'
    BY <1>2, <1>3 DEF Calm
  <2> QED BY <2>1
<1>4. CASE Raised(u)
  <2>1. /\ row'[u].status \in Terminal
        /\ query'[u].row.status \in Terminal => query'[u].answer \in Terminal \cup {"none"}
    <3>1. CASE QueryStart(t)
      <4>1. row' = row /\ query[t] = NoQuery /\ query' = [query EXCEPT ![t].row = row[t]]
        BY <3>1 DEF QueryStart
      <4>2. query'[u] = query[u] \/ query'[u].answer = "none"
        BY <4>1, NoQueryFields DEF Base, TypeOK
      <4> QED BY <1>4, <4>1, <4>2 DEF Raised
    <3>2. CASE QueryFetch(t)
      <4>1. row' = row
        BY <3>2 DEF QueryFetch
      <4>2. CASE query' = [query EXCEPT ![t] = NoQuery]
        BY <1>4, <4>1, <4>2, NoQueryFields DEF Raised, Base, TypeOK, Terminal
      <4>3. CASE \E r \in {upstream[t], "FAILURE"} : query' = [query EXCEPT ![t].answer = r]
        <5>1. query'[u] = query[u] \/ query'[u].answer \in {upstream[u], "FAILURE"}
          BY <4>3 DEF Base, TypeOK
        <5> QED BY <1>4, <4>1, <5>1 DEF Raised, Terminal
      <4> QED BY <3>2, <4>2, <4>3 DEF QueryFetch
    <3>3. CASE QueryStore(t)
      <4> DEFINE r   == query[t].answer
                 new == Row(r, r \in Terminal)
      <4>1. r # "none" /\ r \in Statuses
        BY <3>3 DEF QueryStore, Base, TypeOK, Queries, Reports, Statuses, Terminal
      <4>2. new \in RowType /\ new.status = r
        <5> HIDE DEF r
        <5> QED BY <4>1, NewRow
      <4>3. UpdateWithStatus(t, query[t].row.status, new, "ok")
        BY <3>3 DEF QueryStore
      <4> HIDE DEF new
      <4>4. /\ \A v \in Tasks : v # t => row'[v] = row[v]
            /\ row' = row \/ (row[t].status = query[t].row.status /\ row'[t] = new)
        BY <4>2, <4>3, UpdateEffect DEF Base, Wins
      <4>5. row'[u].status \in Terminal
        BY <1>4, <4>1, <4>2, <4>4 DEF Raised
      <4>6. query' = [query EXCEPT ![t] = NoQuery]
        BY <3>3 DEF QueryStore
      <4>7. query'[u] = query[u] \/ query'[u] = NoQuery
        BY <4>6 DEF Base, TypeOK
      <4> QED BY <1>4, <4>5, <4>7, NoQueryFields DEF Raised, Terminal
    <3> QED BY <3>1, <3>2, <3>3
  <2>2. Raised(u)'
    BY <1>2, <1>4, <2>1 DEF Raised
  <2> QED BY <2>2
<1> QED BY <1>1, <1>3, <1>4

\* Ceiling is inductive.
LEMMA CeilingStep == Base /\ Ceiling /\ [Next]_vars => Ceiling'
<1> SUFFICES ASSUME Base, Ceiling, [Next]_vars PROVE Ceiling'
  OBVIOUS
<1>1. ASSUME UNCHANGED <<upstream, query, paid, tokPaid, bill>>,
             \A t \in Tasks : row[t].status \in Terminal => row'[t].status \in Terminal,
             \A q \in Pollers : pc'[q] # pc[q] => ~Billing(q)'
      PROVE  Ceiling'
  <2>1. ASSUME NEW u \in Tasks PROVE Calm(u)' \/ Raised(u)'
    <3>1. Calm(u) \/ Raised(u)
      BY DEF Ceiling
    <3>2. \A q \in Pollers : Raising(q, u)' =>
              Raising(q, u) /\ bill'[q].delta = bill[q].delta /\ pc'[q] = pc[q]
      BY <1>1 DEF Raising, Billing
    <3> QED BY <1>1, <3>1, <3>2, CeilingFrame
  <2> QED BY <2>1 DEF Ceiling
<1>2. ASSUME NEW p \in Pollers, PollStep(p) \/ UpstreamStep(p) \/ Crash(p)
      PROVE  Ceiling'
  <2>1. CASE \/ StartRound(p) \/ ListTasks(p) \/ CloseSuno(p) \/ CloseVideo(p) \/ EndRound(p)
             \/ Crash(p) \/ SunoPanic(p) \/ FetchSuno(p) \/ \E t \in Tasks : FetchVideo(p, t)
    <3>1. UNCHANGED <<row, upstream, query, paid, tokPaid, bill>>
      BY <2>1 DEF StartRound, ListTasks, CloseSuno, CloseVideo, EndRound, Crash, SunoPanic, FetchSuno,
                  FetchVideo, envVars, histVars
    <3>2. \A q \in Pollers : pc'[q] # pc[q] => ~Billing(q)'
      BY <2>1 DEF StartRound, ListTasks, CloseSuno, CloseVideo, EndRound, Crash, SunoPanic, FetchSuno,
                  FetchVideo, Billing, Base, TypeOK
    <3> QED BY <1>1, <3>1, <3>2
  <2>2. CASE OpenSuno(p) \/ OpenVideo(p)
    <3>1. UNCHANGED <<upstream, query, paid, tokPaid, bill>>
      BY <2>2, OpenEffect DEF envVars, histVars
    <3>2. \A q \in Pollers : pc'[q] # pc[q] => ~Billing(q)'
      BY <2>2, OpenEffect DEF Billing, Base, TypeOK
    <3>3. \A t \in Tasks : row[t].status \in Terminal => row'[t].status \in Terminal
      <4>1. row' = row \/ \E S \in SUBSET todo[p] : BulkFail(p, S)
        BY <2>2, OpenEffect
      <4> QED BY <4>1, BulkFailEffect DEF Base, Terminal
    <3> QED BY <1>1, <3>1, <3>2, <3>3
  <2>3. CASE AdjustFunding(p) \/ AdjustToken(p)
    BY <2>3, AdjustCeiling
  <2>4. ASSUME NEW t \in Tasks, SweepTask(p, t) PROVE Ceiling'
    BY <2>4, SweepHandles, HandledCeiling
  <2>5. ASSUME NEW t \in Tasks, SunoItem(p, t) PROVE Ceiling'
    BY <2>5, SunoHandles, HandledCeiling
  <2>6. ASSUME NEW t \in Tasks, ApplyVideo(p, t) PROVE Ceiling'
    BY <2>6, VideoHandles, HandledCeiling
  <2> QED BY <1>2, <2>1, <2>2, <2>3, <2>4, <2>5, <2>6 DEF PollStep, UpstreamStep
<1>3. ASSUME NEW t \in Tasks, Submit(t)
      PROVE  Ceiling'
  <2>1. /\ row[t].status = "ABSENT" /\ \A u \in Tasks : u # t => row'[u] = row[u]
        /\ paid' = [paid EXCEPT ![t] = Quota]
        /\ tokPaid' = [tokPaid EXCEPT ![t] = IF t \in NoToken THEN 0 ELSE Quota]
        /\ UNCHANGED <<upstream, query, pc, bill>>
    BY <1>3, SubmitEffect DEF Base, envVars, pollVars
  <2>2. ASSUME NEW u \in Tasks PROVE Calm(u)' \/ Raised(u)'
    <3>1. Calm(u) \/ Raised(u)
      BY DEF Ceiling
    <3>2. \A q \in Pollers : Raising(q, u)' <=> Raising(q, u)
      BY <2>1 DEF Raising, Billing
    <3>3. CASE u # t
      <4>1. paid'[u] = paid[u] /\ tokPaid'[u] = tokPaid[u]
        BY <2>1, <3>3 DEF Base, TypeOK
      <4> QED BY <2>1, <3>1, <3>2, <3>3, <4>1, CeilingFrame
    <3>4. CASE u = t
      <4>1. Calm(u)
        BY <2>1, <3>1, <3>4 DEF Raised, Terminal
      <4>2. paid'[u] <= Quota /\ tokPaid'[u] <= Quota
        BY <2>1, <3>4, NumbersAssumption DEF Base, TypeOK
      <4>3. Calm(u)'
        BY <3>2, <4>1, <4>2 DEF Calm
      <4> QED BY <4>3
    <3> QED BY <3>3, <3>4
  <2> QED BY <2>2 DEF Ceiling
<1>4. ASSUME NEW t \in Tasks, QueryStart(t) \/ QueryFetch(t) \/ QueryStore(t)
      PROVE  Ceiling'
  BY <1>4, QueryCeiling
<1>5. ASSUME NEW t \in Tasks, UpstreamEnds(t)
      PROVE  Ceiling'
  <2>1. /\ upstream[t] = "IN_PROGRESS" /\ UNCHANGED <<row, query, paid, tokPaid, pc, bill>>
        /\ \A u \in Tasks : u # t => upstream'[u] = upstream[u]
    BY <1>5 DEF UpstreamEnds, pollVars, histVars, Base, TypeOK
  <2>2. ASSUME NEW u \in Tasks PROVE Calm(u)' \/ Raised(u)'
    <3>1. Calm(u) \/ Raised(u)
      BY DEF Ceiling
    <3>2. \A q \in Pollers : Raising(q, u)' <=> Raising(q, u)
      BY <2>1 DEF Raising, Billing
    <3>3. CASE Calm(u)
      <4>1. Calm(u)'
        BY <2>1, <3>2, <3>3 DEF Calm
      <4> QED BY <4>1
    <3>4. CASE Raised(u)
      <4>1. Raised(u)'
        BY <2>1, <3>2, <3>4 DEF Raised
      <4> QED BY <4>1
    <3> QED BY <3>1, <3>3, <3>4
  <2> QED BY <2>2 DEF Ceiling
<1>6. CASE DeleteChannel \/ (\E t \in Tasks : TimesOut(t)) \/ UNCHANGED vars
  <2>1. UNCHANGED <<row, upstream, query, paid, tokPaid, pc, bill>>
    BY <1>6 DEF DeleteChannel, TimesOut, vars, envVars, pollVars, histVars
  <2> QED BY <1>1, <2>1
<1> QED BY <1>2, <1>3, <1>4, <1>5, <1>6 DEF Next

\* No task is ever charged more than its estimate or the dearest recalculation, for every number
\* of nodes, crash, failing write, user query and deleted channel (service/task_billing.go,
\* relay/relay_task.go:477).
THEOREM NeverOverchargedCorrect == Spec => []NeverOvercharged
<1>1. Init => Ceiling
  BY NumbersAssumption DEF Init, Ceiling, Calm, Raising, Billing
<1>2. Base /\ Ceiling => NeverOvercharged
  <2> SUFFICES ASSUME Base, Ceiling, NEW t \in Tasks
               PROVE  paid[t] <= Dearest /\ tokPaid[t] <= Dearest
    BY DEF NeverOvercharged
  <2>1. paid[t] \in Int /\ tokPaid[t] \in Int /\ Quota \in Int
    BY NumbersAssumption DEF Base, TypeOK
  <2> QED BY <2>1, DearestIsLargest DEF Ceiling, Calm, Raised
<1> QED BY <1>1, <1>2, BaseInit, BaseStep, CeilingStep, PTL DEF Spec
-----------------------------------------------------------------------------
\* The deployments in which every status write finds the row as its writer read it or is a
\* compare-and-set: no user query fetches tasks from the upstream, and Suno rows, which are saved
\* unconditionally, have a single master node.
Unshared == Fetchable = {} /\ (Suno = {} \/ \A p, q \in Pollers : p = q)

\* p adjusts the charge of t.
BillOf(t, p) == Billing(p) /\ bill[p].task = t

\* What the submission has taken from the token.
TokQuota(t) == IF t \in NoToken THEN 0 ELSE Quota

\* Phase(t) = "open", for a row that exists.
Open(t) ==
    /\ row[t].status \in {"UNTRACKED", "NOT_START", "IN_PROGRESS"}
    /\ t \in Suno => row[t].full = FALSE

\* A charge q that an adjustment may leave.
Fits(t, q) ==
    IF row[t].status = "SUCCESS" THEN q \in Actuals \ {0} /\ t \notin PerCall ELSE q = 0

\* At most one node adjusts t.
OneBiller(t) == \A p, q \in Pollers : BillOf(t, p) /\ BillOf(t, q) => p = q

\* The charge of a task that has not ended, and the lower bound of every charge.
OpenBook(t) ==
    /\ row[t].status = "ABSENT" => paid[t] = 0 /\ tokPaid[t] = 0
    /\ Open(t) => paid[t] = Quota /\ tokPaid[t] = TokQuota(t)
    /\ row[t].status = "ABSENT" \/ Open(t) => t \notin adjusted /\ \A p \in Pollers : ~BillOf(t, p)
    /\ paid[t] >= 0 /\ tokPaid[t] >= 0 /\ (t \in NoToken => tokPaid[t] = 0)

\* What a node that adjusts t relies on.
BillBook(t) == \A p \in Pollers : BillOf(t, p) =>
    /\ pc[p] = "adjust" => paid[t] = Quota /\ t \notin adjusted
    /\ pc[p] = "adjustToken" => paid[t] = Quota + bill[p].delta
    /\ tokPaid[t] = TokQuota(t)
    /\ Quota + bill[p].delta >= 0
    /\ channel => Fits(t, Quota + bill[p].delta)

\* The charge of a task that has ended and that nobody adjusts.
EndBook(t) ==
    channel /\ t \notin hit /\ row[t].status # "ABSENT" /\ ~Open(t)
        /\ (\A p \in Pollers : ~BillOf(t, p)) =>
    /\ \/ Fits(t, paid[t])
       \/ paid[t] = Quota /\ row[t].status = "SUCCESS"
       \/ paid[t] = Quota /\ row[t].status = "FAILURE" /\ t \in Legacy
    /\ t \notin NoToken => tokPaid[t] = paid[t]

\* All that is known about the charge of t.
Book(t) == OneBiller(t) /\ OpenBook(t) /\ BillBook(t) /\ EndBook(t)

\* The only node sees Suno rows as they are.
SunoFresh == \A p \in Pollers : \A t \in todo[p] : t \in Suno => row[t] = mem[p][t]

\* The inductive invariant behind the refund and settlement theorems.
Ledger == SunoFresh /\ \A t \in Tasks : Book(t)

\* A step that leaves row, charge and bills of t alone keeps its book.
LEMMA BookFrame ==
    ASSUME NEW t \in Tasks, Book(t),
           row'[t] = row[t], paid'[t] = paid[t], tokPaid'[t] = tokPaid[t],
           t \in adjusted' <=> t \in adjusted, t \in hit => t \in hit', channel' => channel,
           \A q \in Pollers :
              /\ BillOf(t, q)' <=> BillOf(t, q)
              /\ BillOf(t, q) => pc'[q] = pc[q] /\ bill'[q] = bill[q]
    PROVE  Book(t)'
<1>1. Open(t)' <=> Open(t)
  BY DEF Open
<1>2. \A x : Fits(t, x)' <=> Fits(t, x)
  BY DEF Fits
<1>3. OneBiller(t)'
  BY DEF Book, OneBiller
<1>4. OpenBook(t)'
  BY <1>1 DEF Book, OpenBook, TokQuota
<1>5. BillBook(t)'
  BY <1>2 DEF Book, BillBook, TokQuota
<1>6. EndBook(t)'
  BY <1>1, <1>2 DEF Book, EndBook
<1> QED BY <1>3, <1>4, <1>5, <1>6 DEF Book

\* Whoever changes a row or starts a bill found the row open.
LEMMA HandledOpen ==
    ASSUME Unshared, Base, Ledger, NEW p \in Pollers, NEW t \in Tasks,
           NEW back \in {"sweep", "poll", "suno", "video"}, Handled(p, t, back), Verdict(p, t, back)
    PROVE  \/ row'[t] = row[t] /\ Unbilled(p, back)
           \/ Open(t) /\ row[t].status \in AtWork
<1> SUFFICES ASSUME ~(row'[t] = row[t] /\ Unbilled(p, back))
             PROVE  Open(t) /\ row[t].status \in AtWork
  OBVIOUS
<1>1. t \in Suno \/ row[t].status = mem[p][t].status
  BY DEF Verdict
<1>2. t \in todo[p] /\ mem[p][t].status \in AtWork /\ mem[p][t].full = FALSE
  BY DEF Handled, Base, Listed
<1>3. row[t].full \in BOOLEAN 
  BY DEF Base, TypeOK, RowType, Ledger, Book
<1>4. CASE t \in Suno
  BY <1>2, <1>4 DEF Ledger, SunoFresh, Open, AtWork
<1>5. CASE t \notin Suno
  BY <1>1, <1>2, <1>3, <1>5 DEF Open, AtWork, Terminal
<1> QED BY <1>4, <1>5

\* Handling a task keeps the ledger.
LEMMA HandledLedger ==
    ASSUME Unshared, Base, Ledger, NEW p \in Pollers, NEW t \in Tasks,
           NEW back \in {"sweep", "poll", "suno", "video"}, Handled(p, t, back), Verdict(p, t, back)
    PROVE  Ledger'
<1>1. /\ t \in todo[p] /\ pc[p] = back
      /\ UNCHANGED <<channel, mem, paid, tokPaid, adjusted>>
      /\ \A u \in Tasks : u # t => row'[u] = row[u] /\ (u \in hit' <=> u \in hit)
      /\ \A q \in Pollers : q # p => pc'[q] = pc[q] /\ bill'[q] = bill[q]
      /\ todo' = [todo EXCEPT ![p] = @ \ {t}] /\ hit \subseteq hit'
  BY DEF Handled, envVars
<1>2. \A u \in Tasks : ~BillOf(u, p) /\ (BillOf(u, p)' => u = t)
  BY <1>1 DEF BillOf, Billing, Verdict, Kept, EndedUnbilled, Refunding, Settling, Billed, Unbilled
<1>3. \A q \in Pollers, u \in Tasks : q # p => (BillOf(u, q)' <=> BillOf(u, q))
  BY <1>1 DEF BillOf, Billing
<1>4. SunoFresh'
  <2> SUFFICES ASSUME NEW q \in Pollers, NEW u \in todo'[q], u \in Suno
               PROVE  row'[u] = mem'[q][u]
    BY DEF SunoFresh
  <2>1. q = p
    BY DEF Unshared
  <2>2. u # t /\ u \in todo[p] /\ u \in Tasks
    BY <1>1, <2>1 DEF Base, TypeOK
  <2> QED BY <1>1, <2>1, <2>2 DEF Ledger, SunoFresh
<1>5. ASSUME NEW u \in Tasks, u # t PROVE Book(u)'
  <2>1. \A q \in Pollers :
              /\ BillOf(u, q)' <=> BillOf(u, q)
              /\ BillOf(u, q) => pc'[q] = pc[q] /\ bill'[q] = bill[q]
    BY <1>1, <1>2, <1>3, <1>5
  <2>2. Book(u)
    BY DEF Ledger
  <2> QED BY <1>1, <1>5, <2>1, <2>2, BookFrame
<1>6. Book(t)'
  <2>1. Book(t)
    BY DEF Ledger
  <2>2. CASE row'[t] = row[t] /\ Unbilled(p, back)
    <3>1. ~BillOf(t, p)'
      BY <2>2 DEF BillOf, Billing, Unbilled
    <3>2. \A q \in Pollers :
              /\ BillOf(t, q)' <=> BillOf(t, q)
              /\ BillOf(t, q) => pc'[q] = pc[q] /\ bill'[q] = bill[q]
      BY <1>1, <1>2, <1>3, <3>1
    <3> QED BY <1>1, <2>1, <2>2, <3>2, BookFrame
  <2>3. CASE ~(row'[t] = row[t] /\ Unbilled(p, back))
    <3>4. Open(t)
      BY <2>3, HandledOpen
    <3>5. /\ paid[t] = Quota /\ tokPaid[t] = TokQuota(t) /\ t \notin adjusted
          /\ \A q \in Pollers : ~BillOf(t, q)
      BY <2>1, <3>4 DEF Book, OpenBook
    <3>6. /\ Quota \in Nat /\ Actuals \subseteq Nat
          /\ Quota + (-Quota) = 0 /\ \A a \in Actuals : Quota + (a - Quota) = a
      BY NumbersAssumption
    <3>7. \A q \in Pollers : BillOf(t, q)' => q = p
      BY <1>3, <3>5
    <3>8. OneBiller(t)'
      BY <3>7 DEF OneBiller
    <3>9. /\ paid'[t] = Quota /\ tokPaid'[t] = TokQuota(t) /\ t \notin adjusted' /\ channel' = channel
          /\ paid'[t] >= 0 /\ tokPaid'[t] >= 0
          /\ IF t \in NoToken THEN tokPaid'[t] = 0 ELSE tokPaid'[t] = paid'[t]
      BY <1>1, <3>5, <3>6 DEF TokQuota
    <3>10. CASE Kept(p, t, back)
      <4>1. ~BillOf(t, p)'
        BY <3>10 DEF Kept, Unbilled, BillOf, Billing
      <4>2. Open(t)' /\ row'[t].status # "ABSENT"
        BY <3>10 DEF Kept, Open
      <4> QED BY <3>7, <3>8, <3>9, <4>1, <4>2
              DEF Book, OpenBook, BillBook, EndBook, TokQuota, Open, Terminal
    <3>11. CASE EndedUnbilled(p, t, back)
      <4>1. ~BillOf(t, p)'
        BY <3>11 DEF EndedUnbilled, Unbilled, BillOf, Billing
      <4>2. ~Open(t)' /\ row'[t].status # "ABSENT"
        BY <3>11 DEF EndedUnbilled, BrokenOff, Open, Terminal
      <4>3. EndBook(t)'
        BY <3>9, <3>11 DEF EndedUnbilled, BrokenOff, EndBook, Fits
      <4> QED BY <3>7, <3>8, <3>9, <4>1, <4>2, <4>3 DEF Book, OpenBook, BillBook
    <3>12. CASE Refunding(p, t, back) \/ Settling(p, t, back)
      <4>1. BillOf(t, p)' /\ pc'[p] = "adjust"
        BY <3>12 DEF Refunding, Settling, Billed, BillOf, Billing
      <4>2. ~Open(t)' /\ row'[t].status # "ABSENT"
        BY <3>12 DEF Refunding, Settling, BrokenOff, Open, Terminal
      <4>3. Quota + bill'[p].delta >= 0 /\ Fits(t, Quota + bill[p].delta)'
        <5>1. CASE Refunding(p, t, back)
          BY <3>6, <5>1 DEF Refunding, BrokenOff, Billed, Fits
        <5>2. CASE Settling(p, t, back)
          <6>1. PICK a \in Actuals \ {0} : bill'[p].delta = a - Quota
            BY <5>2 DEF Settling, Billed
          <6>2. Quota + bill'[p].delta = a /\ a >= 0
            BY <3>6, <6>1
          <6> QED BY <5>2, <6>2 DEF Settling, Fits
        <5> QED BY <3>12, <5>1, <5>2
      <4>4. OpenBook(t)' /\ EndBook(t)'
        BY <3>9, <4>1, <4>2 DEF OpenBook, EndBook
      <4>5. BillBook(t)'
        BY <3>7, <3>9, <4>1, <4>3 DEF BillBook, TokQuota
      <4> QED BY <3>8, <4>2, <4>4, <4>5 DEF Book
    <3> QED BY <2>3, <3>10, <3>11, <3>12 DEF Verdict
  <2> QED BY <2>2, <2>3
<1> QED BY <1>4, <1>5, <1>6 DEF Ledger
\* So does an adjustment, also one that fails or is not acknowledged.
LEMMA AdjustLedger ==
    ASSUME Base, Ledger, NEW p \in Pollers, AdjustFunding(p) \/ AdjustToken(p)
    PROVE  Ledger'
<1>a. PICK t \in Tasks : bill[p].task = t
  BY DEF AdjustFunding, AdjustToken, Billing, Base, Bills
<1>b. PICK d \in Int : bill[p].delta = d
  BY DEF Base, TypeOK
<1>1. /\ BillOf(t, p) /\ t \in Tasks /\ bill[p].back \in {"sweep", "poll", "suno", "video"} /\ d \in Int
      /\ UNCHANGED <<row, channel, bill, todo, mem>>
      /\ \A q \in Pollers : q # p => pc'[q] = pc[q]
  BY <1>a, <1>b DEF AdjustFunding, AdjustToken, BillOf, Billing, Base, Bills, TypeOK, envVars
<1>2. SunoFresh'
  BY <1>1 DEF Ledger, SunoFresh
<1>3. /\ paid \in [Tasks -> Int] /\ tokPaid \in [Tasks -> Int]
      /\ pc \in [Pollers -> PcType] /\ Quota \in Nat
  BY NumbersAssumption DEF Base, TypeOK, PcType
<1>4. /\ \A u \in Tasks : u # t => /\ paid'[u] = paid[u] /\ tokPaid'[u] = tokPaid[u]
                                   /\ (u \in hit' <=> u \in hit) /\ (u \in adjusted' <=> u \in adjusted)
      /\ hit \subseteq hit'
  BY <1>a, <1>3 DEF AdjustFunding, AdjustToken, Note
<1>5. \/ /\ pc[p] = "adjust" /\ tokPaid' = tokPaid
         /\ \/ pc'[p] = "adjustToken" /\ paid'[t] = paid[t] + d
            \/ pc'[p] = bill[p].back /\ t \in hit' /\ paid'[t] \in {paid[t], paid[t] + d}
      \/ /\ pc[p] = "adjustToken" /\ paid' = paid /\ pc'[p] = bill[p].back
         /\ \/ t \in NoToken /\ tokPaid' = tokPaid
            \/ t \notin NoToken /\ (tokPaid'[t] = tokPaid[t] + d \/ (tokPaid' = tokPaid /\ t \in hit'))
  <2>1. CASE AdjustFunding(p)
    <3>1. PICK o \in Outcomes(t) :
            /\ Note(t, o)
            /\ IF o = "err" THEN UNCHANGED <<paid, adjusted>>
               ELSE /\ paid' = [paid EXCEPT ![t] = @ + bill[p].delta]
                    /\ adjusted' = adjusted \cup {t}
            /\ pc' = [pc EXCEPT ![p] = IF o = "ok" THEN "adjustToken" ELSE bill[p].back]
      BY <1>a, <2>1 DEF AdjustFunding
    <3>2. pc[p] = "adjust" /\ tokPaid' = tokPaid
      BY <2>1 DEF AdjustFunding
    <3> QED BY <1>b, <1>1, <1>3, <3>1, <3>2 DEF Note
  <2>2. CASE AdjustToken(p)
    <3>1. PICK o \in Outcomes(t) :
            IF t \in NoToken THEN UNCHANGED <<tokPaid, hit>>
            ELSE /\ Note(t, o)
                 /\ tokPaid' = IF o = "err" THEN tokPaid
                               ELSE [tokPaid EXCEPT ![t] = @ + bill[p].delta]
      BY <1>a, <2>2 DEF AdjustToken
    <3>2. pc[p] = "adjustToken" /\ paid' = paid /\ pc' = [pc EXCEPT ![p] = bill[p].back]
      BY <2>2 DEF AdjustToken
    <3> QED BY <1>b, <1>1, <1>3, <3>1, <3>2 DEF Note
  <2> QED BY <2>1, <2>2
<1>6. \A q \in Pollers, u \in Tasks : q # p => (BillOf(u, q)' <=> BillOf(u, q))
  BY <1>1 DEF BillOf, Billing
<1>7. \A u \in Tasks : BillOf(u, p) <=> u = t
  BY <1>a, <1>1 DEF BillOf
<1>8. BillOf(t, p)' <=> pc'[p] = "adjustToken"
  BY <1>a, <1>1, <1>5 DEF BillOf, Billing
<1>9. ASSUME NEW u \in Tasks, u # t PROVE Book(u)'
  <2>1. ~BillOf(u, p)'
    BY <1>a, <1>1, <1>9 DEF BillOf
  <2>2. \A q \in Pollers :
              /\ BillOf(u, q)' <=> BillOf(u, q)
              /\ BillOf(u, q) => pc'[q] = pc[q] /\ bill'[q] = bill[q]
    BY <1>1, <1>6, <1>7, <1>9, <2>1
  <2>3. Book(u)
    BY DEF Ledger
  <2> QED BY <1>1, <1>4, <1>9, <2>2, <2>3, BookFrame
<1>10. Book(t)'
  <2>1. Book(t)
    BY <1>1 DEF Ledger
  <2>2. \A q \in Pollers : BillOf(t, q) => q = p
    BY <1>1, <2>1 DEF Book, OneBiller
  <2>3. \A q \in Pollers : BillOf(t, q)' => q = p
    BY <1>1, <1>6, <2>2
  <2>4. row[t].status # "ABSENT" /\ ~Open(t)
    BY <1>1, <2>1 DEF Book, OpenBook
  <2>5. row'[t].status # "ABSENT" /\ ~Open(t)' /\ OneBiller(t)'
    BY <1>1, <2>1, <2>3, <2>4 DEF Open, Book, OneBiller
  <2>6. /\ pc[p] = "adjust" => paid[t] = Quota
        /\ pc[p] = "adjustToken" => paid[t] = Quota + d
        /\ tokPaid[t] = TokQuota(t) /\ Quota + d >= 0
        /\ channel => Fits(t, Quota + d)
    BY <1>b, <1>1, <2>1 DEF Book, BillBook
  <2>7. /\ paid[t] >= 0 /\ tokPaid[t] >= 0 /\ paid[t] \in Int /\ tokPaid[t] \in Int
        /\ t \in NoToken => tokPaid[t] = 0
    BY <1>1, <1>3, <2>1 DEF Book, OpenBook
  <2>8. Fits(t, Quota + d) => Fits(t, Quota + d)'
    BY <1>1 DEF Fits
  <2>9. paid'[t] >= 0 /\ tokPaid'[t] >= 0 /\ (t \in NoToken => tokPaid'[t] = 0)
    BY <1>3, <1>5, <2>6, <2>7 DEF TokQuota
  <2>10. OpenBook(t)'
    BY <2>5, <2>9 DEF OpenBook
  <2>11. CASE pc'[p] = "adjustToken"
    <3>1. pc[p] = "adjust" /\ paid'[t] = Quota + d /\ tokPaid'[t] = TokQuota(t)
      BY <1>1, <1>5, <2>6, <2>11
    <3>2. \A q \in Pollers : BillOf(t, q)' => pc'[q] = "adjustToken" /\ bill'[q].delta = d
      BY <1>1, <1>b, <2>3, <2>11
    <3>3. BillBook(t)'
      BY <1>1, <2>6, <3>1, <3>2 DEF BillBook, TokQuota, Fits
    <3>4. EndBook(t)'
      BY <1>8, <2>11 DEF EndBook
    <3> QED BY <2>1, <2>5, <2>10, <3>3, <3>4 DEF Book
  <2>12. CASE pc'[p] # "adjustToken"
    <3>1. \A q \in Pollers : ~BillOf(t, q)'
      BY <1>8, <2>3, <2>12
    <3>2. BillBook(t)'
      BY <3>1 DEF BillBook
    <3>3. CASE t \in hit'
      BY <2>5, <2>10, <3>2, <3>3 DEF Book, EndBook
    <3>4. CASE t \notin hit'
      <4>1. /\ pc[p] = "adjustToken" /\ paid'[t] = Quota + d
            /\ t \notin NoToken => tokPaid'[t] = paid'[t]
        BY <1>5, <2>6, <2>12, <3>4 DEF TokQuota
      <4>2. EndBook(t)'
        BY <1>1, <2>6, <4>1 DEF EndBook, Fits
      <4> QED BY <2>5, <2>10, <3>2, <4>2 DEF Book
    <3> QED BY <3>3, <3>4
  <2> QED BY <2>11, <2>12
<1> QED BY <1>2, <1>9, <1>10 DEF Ledger

\* So does a crash: the task it interrupts has been hit.
LEMMA CrashLedger ==
    ASSUME Base, Ledger, NEW p \in Pollers, Crash(p)
    PROVE  Ledger'
<1>1. /\ UNCHANGED <<row, channel, mem, bill, paid, tokPaid, adjusted>>
      /\ pc' = [pc EXCEPT ![p] = "sleep"] /\ todo' = [todo EXCEPT ![p] = {}]
      /\ hit' = IF Billing(p) THEN hit \cup {bill[p].task} ELSE hit
  BY DEF Crash, Billing, envVars
<1>2. /\ \A u \in Tasks : ~BillOf(u, p)'
      /\ \A q \in Pollers : q # p => pc'[q] = pc[q]
      /\ \A q \in Pollers, u \in Tasks : q # p => (BillOf(u, q)' <=> BillOf(u, q))
  BY <1>1 DEF BillOf, Billing, Base, TypeOK
<1>3. SunoFresh'
  BY <1>1 DEF Ledger, SunoFresh, Base, TypeOK
<1>4. ASSUME NEW u \in Tasks PROVE Book(u)'
  <2>1. Book(u)
    BY DEF Ledger
  <2>2. CASE ~BillOf(u, p)
    <3>1. \A q \in Pollers :
              /\ BillOf(u, q)' <=> BillOf(u, q)
              /\ BillOf(u, q) => pc'[q] = pc[q] /\ bill'[q] = bill[q]
      BY <1>1, <1>2, <2>2
    <3>2. u \in hit => u \in hit'
      BY <1>1
    <3> QED BY <1>1, <2>1, <3>1, <3>2, BookFrame
  <2>3. CASE BillOf(u, p)
    <3>1. u \in hit' /\ \A q \in Pollers : ~BillOf(u, q)'
      BY <1>1, <1>2, <2>1, <2>3 DEF BillOf, Book, OneBiller
    <3> QED BY <1>1, <2>1, <3>1
            DEF Book, OneBiller, OpenBook, Open, BillBook, EndBook, TokQuota
  <2> QED BY <2>2, <2>3
<1> QED BY <1>3, <1>4 DEF Ledger

\* So does ending all tasks of a missing channel, which promises nothing about refunds.
LEMMA BulkFailLedger ==
    ASSUME Unshared, Base, Ledger, NEW p \in Pollers, NEW S \in SUBSET todo[p],
           BulkFail(p, S),
           UNCHANGED <<pc, bill, mem, channel, paid, tokPaid, adjusted, hit>>
    PROVE  Ledger'
<1>1. /\ ~channel /\ todo'[p] = todo[p] \ S
      /\ \A t \in Tasks : IF t \in S THEN row'[t].status = "FAILURE" /\ row'[t].full = TRUE
                          ELSE row'[t] = row[t]
      /\ \A q \in Pollers : q # p => todo'[q] = todo[q]
  BY BulkFailEffect DEF Base
<1>2. SunoFresh'
  <2> SUFFICES ASSUME NEW q \in Pollers, NEW u \in todo'[q], u \in Suno
               PROVE  row'[u] = mem'[q][u]
    BY DEF SunoFresh
  <2>1. q = p
    BY DEF Unshared
  <2>2. u \in todo[p] /\ u \notin S /\ u \in Tasks
    BY <1>1, <2>1 DEF Base, TypeOK
  <2> QED BY <1>1, <2>1, <2>2 DEF Ledger, SunoFresh
<1>3. ASSUME NEW u \in Tasks PROVE Book(u)'
  <2>1. Book(u)
    BY DEF Ledger
  <2>2. \A q \in Pollers : BillOf(u, q)' <=> BillOf(u, q)
    BY DEF BillOf, Billing
  <2>3. CASE u \in S
    <3>1. row'[u].status = "FAILURE" /\ row'[u].full = TRUE /\ ~channel'
      BY <1>1, <2>3
    <3>2. OneBiller(u)' /\ EndBook(u)'
      BY <2>1, <2>2, <3>1 DEF Terminal, Book, OneBiller, EndBook
    <3>3. OpenBook(u)'
      BY <2>1, <3>1 DEF Book, OpenBook, Open
    <3>4. BillBook(u)'
      BY <2>1, <2>2, <3>1 DEF Book, BillBook, TokQuota
    <3> QED BY <3>2, <3>3, <3>4 DEF Book
  <2>4. CASE u \notin S
    BY <1>1, <2>1, <2>2, <2>4, BookFrame
  <2> QED BY <2>3, <2>4
<1> QED BY <1>2, <1>3 DEF Ledger

\* So does a step that touches neither rows nor charges.
LEMMA LedgerFrame ==
    ASSUME Ledger, UNCHANGED <<row, bill, paid, tokPaid, adjusted, hit>>, channel' => channel,
           \A q \in Pollers : pc'[q] # pc[q] => ~Billing(q) /\ ~Billing(q)',
           SunoFresh'
    PROVE  Ledger'
<1>1. ASSUME NEW u \in Tasks PROVE Book(u)'
  <2>1. \A q \in Pollers :
              /\ BillOf(u, q)' <=> BillOf(u, q)
              /\ BillOf(u, q) => pc'[q] = pc[q] /\ bill'[q] = bill[q]
    BY DEF BillOf, Billing
  <2>2. Book(u)
    BY DEF Ledger
  <2> QED BY <2>1, <2>2, BookFrame
<1> QED BY <1>1 DEF Ledger

\* So does a submission.
LEMMA SubmitLedger ==
    ASSUME Base, Ledger, NEW t \in Tasks, Submit(t)
    PROVE  Ledger'
<1>1. /\ row[t].status = "ABSENT" /\ \A u \in Tasks : u # t => row'[u] = row[u]
      /\ row'[t].status \in {"UNTRACKED", "NOT_START"} /\ row'[t].full = FALSE
      /\ paid' = [paid EXCEPT ![t] = Quota]
      /\ tokPaid' = [tokPaid EXCEPT ![t] = IF t \in NoToken THEN 0 ELSE Quota]
      /\ hit \subseteq hit' /\ hit' \subseteq hit \cup {t}
      /\ UNCHANGED <<channel, pc, bill, todo, mem, adjusted>>
  BY SubmitEffect DEF Base, envVars, pollVars
<1>2. /\ paid \in [Tasks -> Int] /\ tokPaid \in [Tasks -> Int] /\ Quota \in Nat
      /\ todo \in [Pollers -> SUBSET Tasks]
  BY NumbersAssumption DEF Base, TypeOK
<1>3. \A q \in Pollers, u \in Tasks : BillOf(u, q)' <=> BillOf(u, q)
  BY <1>1 DEF BillOf, Billing
<1>4. SunoFresh'
  <2> SUFFICES ASSUME NEW q \in Pollers, NEW u \in todo[q], u \in Suno
               PROVE  row'[u] = mem[q][u]
    BY <1>1 DEF SunoFresh
  <2>1. row[u] = mem[q][u] /\ mem[q][u].status # "ABSENT" /\ u \in Tasks
    BY <1>2 DEF Ledger, SunoFresh, Base, Listed, AtWork
  <2> QED BY <1>1, <2>1
<1>5. ASSUME NEW u \in Tasks, u # t PROVE Book(u)'
  <2>1. /\ paid'[u] = paid[u] /\ tokPaid'[u] = tokPaid[u] /\ (u \in hit => u \in hit') /\ Book(u)
    BY <1>1, <1>2, <1>5 DEF Ledger
  <2> QED BY <1>1, <1>3, <1>5, <2>1, BookFrame
<1>6. Book(t)'
  <2>1. t \notin adjusted /\ \A q \in Pollers : ~BillOf(t, q)
    BY <1>1 DEF Ledger, Book, OpenBook
  <2>2. Open(t)' /\ row'[t].status # "ABSENT" /\ row'[t].full = FALSE
    BY <1>1 DEF Open
  <2>3. paid'[t] = Quota /\ tokPaid'[t] = TokQuota(t) /\ paid'[t] >= 0 /\ tokPaid'[t] >= 0
    BY <1>1, <1>2 DEF TokQuota
  <2> QED BY <1>1, <1>3, <2>1, <2>2, <2>3
          DEF Book, OneBiller, OpenBook, BillBook, EndBook, TokQuota, Open, Terminal
<1> QED BY <1>4, <1>5, <1>6 DEF Ledger

\* The ledger holds at the start.
LEMMA LedgerInit == Init => Ledger
<1> SUFFICES ASSUME Init PROVE Ledger
  OBVIOUS
<1>1. \A t \in Tasks : row[t].status = "ABSENT" /\ row[t].full = FALSE
  BY RowFields DEF Init
<1>2. SunoFresh
  BY DEF Init, SunoFresh
<1>3. ASSUME NEW t \in Tasks PROVE Book(t)
  <2>1. \A p \in Pollers : ~BillOf(t, p)
    BY DEF Init, BillOf, Billing
  <2>2. paid[t] = 0 /\ tokPaid[t] = 0 /\ t \notin adjusted
    BY DEF Init
  <2> QED BY <1>1, <2>1, <2>2
          DEF Book, OneBiller, OpenBook, Open, BillBook, EndBook, Terminal
<1> QED BY <1>2, <1>3 DEF Ledger

\* The ledger is inductive.
LEMMA LedgerStep ==
    ASSUME Unshared
    PROVE  Base /\ Ledger /\ [Next]_vars => Ledger'
<1> SUFFICES ASSUME Base, Ledger, [Next]_vars PROVE Ledger'
  OBVIOUS
<1>1. ASSUME NEW p \in Pollers, PollStep(p) \/ UpstreamStep(p) \/ Crash(p)
      PROVE  Ledger'
  <2>1. CASE StartRound(p) \/ ListTasks(p)
    <3>1. UNCHANGED <<row, channel, bill, paid, tokPaid, adjusted, hit>>
      BY <2>1 DEF StartRound, ListTasks, envVars, histVars
    <3>2. \A q \in Pollers : pc'[q] # pc[q] => ~Billing(q) /\ ~Billing(q)'
      BY <2>1 DEF StartRound, ListTasks, Billing, Base, TypeOK
    <3>3. SunoFresh'
      <4>1. mem' = [mem EXCEPT ![p] = row] /\ \E S : todo' = [todo EXCEPT ![p] = S]
        BY <2>1 DEF StartRound, ListTasks
      <4> QED BY <3>1, <4>1 DEF Ledger, SunoFresh, Base, TypeOK
    <3> QED BY <3>1, <3>2, <3>3, LedgerFrame
  <2>2. CASE \/ CloseSuno(p) \/ CloseVideo(p) \/ EndRound(p) \/ SunoPanic(p) \/ FetchSuno(p)
             \/ \E t \in Tasks : FetchVideo(p, t)
    <3>1. UNCHANGED <<row, channel, bill, mem, paid, tokPaid, adjusted, hit>>
      BY <2>2 DEF CloseSuno, CloseVideo, EndRound, SunoPanic, FetchSuno, FetchVideo, envVars, histVars
    <3>2. \A q \in Pollers : pc'[q] # pc[q] => ~Billing(q) /\ ~Billing(q)'
      BY <2>2 DEF CloseSuno, CloseVideo, EndRound, SunoPanic, FetchSuno, FetchVideo, Billing, Base, TypeOK
    <3>3. \A q \in Pollers : todo'[q] \subseteq todo[q]
      BY <2>2 DEF CloseSuno, CloseVideo, EndRound, SunoPanic, FetchSuno, FetchVideo, Base, TypeOK
    <3>4. SunoFresh'
      BY <3>1, <3>3 DEF Ledger, SunoFresh
    <3> QED BY <3>1, <3>2, <3>4, LedgerFrame
  <2>3. CASE OpenSuno(p) \/ OpenVideo(p)
    <3>1. pc[p] = "poll" /\ UNCHANGED <<channel, mem, bill, paid, tokPaid, adjusted, hit>>
      BY <2>3, OpenEffect DEF envVars, histVars
    <3>2. CASE UNCHANGED pc /\ \E S \in SUBSET todo[p] : BulkFail(p, S)
      BY <3>1, <3>2, BulkFailLedger
    <3>3. CASE UNCHANGED <<row, todo>> /\ \E s \in {"suno", "video"} : pc' = [pc EXCEPT ![p] = s]
      <4>1. \A q \in Pollers : pc'[q] # pc[q] => ~Billing(q) /\ ~Billing(q)'
        BY <3>1, <3>3 DEF Billing, Base, TypeOK
      <4>2. SunoFresh'
        BY <3>1, <3>3 DEF Ledger, SunoFresh
      <4> QED BY <3>1, <3>3, <4>1, <4>2, LedgerFrame
    <3> QED BY <2>3, <3>2, <3>3, OpenEffect
  <2>5. CASE AdjustFunding(p) \/ AdjustToken(p)
    BY <2>5, AdjustLedger
  <2>6. CASE Crash(p)
    BY <2>6, CrashLedger
  <2>7. ASSUME NEW t \in Tasks, SweepTask(p, t) PROVE Ledger'
    BY <2>7, SweepHandles, HandledLedger
  <2>8. ASSUME NEW t \in Tasks, SunoItem(p, t) PROVE Ledger'
    BY <2>8, SunoHandles, HandledLedger
  <2>9. ASSUME NEW t \in Tasks, ApplyVideo(p, t) PROVE Ledger'
    BY <2>9, VideoHandles, HandledLedger
  <2> QED BY <1>1, <2>1, <2>2, <2>3, <2>5, <2>6, <2>7, <2>8, <2>9 DEF PollStep, UpstreamStep
<1>2. ASSUME NEW t \in Tasks, Submit(t) PROVE Ledger'
  BY <1>2, SubmitLedger
<1>3. ASSUME NEW t \in Tasks, QueryStart(t) \/ QueryFetch(t) \/ QueryStore(t) PROVE Ledger'
  <2>1. query[t] = NoQuery /\ t \notin Fetchable
    BY DEF Unshared, Base, Queries
  <2> QED BY <1>3, <2>1, NoQueryFields DEF QueryStart, QueryFetch, QueryStore
<1>4. CASE DeleteChannel \/ (\E t \in Tasks : UpstreamEnds(t) \/ TimesOut(t)) \/ UNCHANGED vars
  <2>1. UNCHANGED <<row, bill, pc, todo, mem, paid, tokPaid, adjusted, hit>> /\ (channel' => channel)
    BY <1>4 DEF DeleteChannel, UpstreamEnds, TimesOut, vars, envVars, pollVars, histVars
  <2>2. SunoFresh'
    BY <2>1 DEF Ledger, SunoFresh
  <2> QED BY <2>1, <2>2, LedgerFrame
<1> QED BY <1>1, <1>2, <1>3, <1>4 DEF Next
-----------------------------------------------------------------------------
\* As Unshared, and nobody deletes the channel.
Settled == Unshared /\ ~ChannelMayVanish

\* The ledger always holds.
LEMMA LedgerCorrect ==
    ASSUME Unshared
    PROVE  Spec => [](Base /\ Ledger)
<1>1. Base /\ Ledger /\ [Next]_vars => Ledger'
  BY LedgerStep
<1> QED BY <1>1, BaseInit, LedgerInit, BaseStep, PTL DEF Spec

\* A channel nobody deletes exists.
LEMMA ChannelStays ==
    ASSUME ~ChannelMayVanish
    PROVE  Spec => [](channel = TRUE)
<1>1. Init => channel = TRUE
  BY DEF Init
<1>2. channel = TRUE /\ [Next]_vars => (channel = TRUE)'
  <2> SUFFICES ASSUME channel = TRUE, [Next]_vars PROVE channel' = channel
    OBVIOUS
  <2>1. ASSUME NEW p \in Pollers, PollStep(p) \/ UpstreamStep(p) \/ Crash(p) PROVE channel' = channel
    <3>1. CASE \E t \in Tasks : SweepTask(p, t) \/ SunoItem(p, t) \/ FetchVideo(p, t) \/ ApplyVideo(p, t)
      BY <3>1 DEF SweepTask, SunoItem, FetchVideo, ApplyVideo, envVars
    <3>2. CASE StartRound(p) \/ ListTasks(p) \/ OpenSuno(p) \/ FetchSuno(p) \/ OpenVideo(p) \/ Crash(p)
      BY <3>2 DEF StartRound, ListTasks, OpenSuno, FetchSuno, OpenVideo, Crash, envVars
    <3>3. CASE \/ CloseSuno(p) \/ SunoPanic(p) \/ CloseVideo(p) \/ EndRound(p) \/ AdjustFunding(p)
               \/ AdjustToken(p)
      BY <3>3 DEF CloseSuno, SunoPanic, CloseVideo, EndRound, AdjustFunding, AdjustToken, envVars
    <3> QED BY <2>1, <3>1, <3>2, <3>3 DEF PollStep, UpstreamStep
  <2>2. ASSUME NEW t \in Tasks,
               Submit(t) \/ QueryStart(t) \/ QueryFetch(t) \/ QueryStore(t)
                 \/ UpstreamEnds(t) \/ TimesOut(t)
        PROVE  channel' = channel
    BY <2>2 DEF Submit, QueryStart, QueryFetch, QueryStore, UpstreamEnds, TimesOut, envVars
  <2>3. CASE DeleteChannel
    BY <2>3 DEF DeleteChannel
  <2>4. CASE UNCHANGED vars
    BY <2>4 DEF vars, envVars
  <2> QED BY <2>1, <2>2, <2>3, <2>4 DEF Next
<1> QED BY <1>1, <1>2, PTL DEF Spec

\* No task is refunded more than it was charged, whatever nodes overlap, crash or meet failing
\* writes, also when its channel is deleted (service/task_polling.go:257-261).
THEOREM RefundedOnceCorrect ==
    ASSUME Unshared
    PROVE  Spec => []RefundedOnce
<1>1. Ledger => RefundedOnce
  BY DEF Ledger, Book, OpenBook, RefundedOnce
<1> QED BY <1>1, LedgerCorrect, PTL

\* Adjusting in terms of BillOf.
LEMMA NotAdjusting ==
    ASSUME NEW t
    PROVE  ~Adjusting(t) <=> \A p \in Pollers : ~BillOf(t, p)
BY DEF Adjusting, BillOf, Billing

\* A failed task is refunded in full as soon as nobody adjusts it any more, unless a write
\* failed or the process died (service/task_billing.go:151).
THEOREM FailedTasksRefundedCorrect ==
    ASSUME Settled
    PROVE  Spec => []FailedTasksRefunded
<1>1. Ledger /\ channel = TRUE => FailedTasksRefunded
  <2> SUFFICES ASSUME Ledger, channel = TRUE, NEW t \in Tasks, t \notin hit, t \notin Legacy,
                      row[t].status = "FAILURE", ~Adjusting(t)
               PROVE  paid[t] = 0 /\ tokPaid[t] = 0
    BY DEF FailedTasksRefunded
  <2>1. EndBook(t) /\ OpenBook(t)
    BY DEF Ledger, Book
  <2>2. ~Open(t) /\ \A p \in Pollers : ~BillOf(t, p)
    BY NotAdjusting DEF Open
  <2> QED BY <2>1, <2>2 DEF EndBook, OpenBook, Fits
<1> QED BY <1>1, LedgerCorrect, ChannelStays, PTL DEF Settled

\* The phase a row stands for.
LEMMA PhaseValue ==
    ASSUME Base, NEW t \in Tasks
    PROVE  /\ row[t].status = "ABSENT" => Phase(t) = "absent"
           /\ row[t].status = "SUCCESS" => Phase(t) = "succeeded"
           /\ Open(t) => Phase(t) = "open"
           /\ row[t].status \notin {"ABSENT", "SUCCESS"} /\ ~Open(t) => Phase(t) = "failed"
BY DEF Phase, Open, Base, TypeOK, RowType, Statuses, Terminal

\* The same after the step.
LEMMA NextPhaseValue ==
    ASSUME NEW t \in Tasks, row' \in [Tasks -> RowType]
    PROVE  /\ row'[t].status = "ABSENT" => Phase(t)' = "absent"
           /\ row'[t].status = "SUCCESS" => Phase(t)' = "succeeded"
           /\ Open(t)' => Phase(t)' = "open"
           /\ row'[t].status \notin {"ABSENT", "SUCCESS"} /\ ~Open(t)' => Phase(t)' = "failed"
BY DEF Phase, Open, RowType, Statuses, Terminal

\* The charge of a task always fits its status (service/task_polling.go, task_billing.go).
THEOREM ChargeFitsStatusCorrect ==
    ASSUME Settled
    PROVE  Spec => []ChargeFitsStatus
<1>1. Base /\ Ledger /\ channel = TRUE => ChargeFitsStatus
  <2> SUFFICES ASSUME Base, Ledger, channel = TRUE, NEW t \in Tasks, t \notin hit, ~Adjusting(t)
               PROVE  /\ row[t].status = "SUCCESS" =>
                           paid[t] \in {Quota} \cup (IF t \in PerCall THEN {} ELSE Actuals \ {0})
                      /\ Phase(t) = "open" => paid[t] = Quota
                      /\ row[t].status = "FAILURE" =>
                            paid[t] \in {0} \cup (IF t \in Legacy THEN {Quota} ELSE {})
                      /\ t \notin NoToken => tokPaid[t] = paid[t]
    BY DEF ChargeFitsStatus
  <2>1. EndBook(t) /\ OpenBook(t) /\ \A p \in Pollers : ~BillOf(t, p)
    BY NotAdjusting DEF Ledger, Book
  <2>2. /\ row[t].status = "ABSENT" => Phase(t) = "absent"
        /\ row[t].status # "ABSENT" /\ ~Open(t) => Phase(t) \in {"failed", "succeeded"}
    BY PhaseValue
  <2>3. CASE row[t].status = "ABSENT" \/ Open(t)
    BY <2>1, <2>2, <2>3 DEF OpenBook, Open, TokQuota
  <2>4. CASE row[t].status # "ABSENT" /\ ~Open(t)
    BY <2>1, <2>2, <2>4 DEF EndBook, Open, Fits
  <2> QED BY <2>3, <2>4
<1> QED BY <1>1, LedgerCorrect, ChannelStays, PTL DEF Settled
-----------------------------------------------------------------------------
\* The refinement mapping of phase.
PhaseOf == [t \in Tasks |-> Phase(t)]

\* Unchanged rows have unchanged phases.
LEMMA PhaseFrame ==
    ASSUME \A u \in Tasks : row'[u] = row[u]
    PROVE  PhaseOf' = PhaseOf
<1>1. \A u \in Tasks : Phase(u)' = Phase(u)
  BY DEF Phase
<1> QED BY <1>1 DEF PhaseOf

\* One changed row changes one phase.
LEMMA PhaseChange ==
    ASSUME NEW t \in Tasks, NEW ph, Phase(t)' = ph, \A u \in Tasks : u # t => row'[u] = row[u]
    PROVE  PhaseOf' = [PhaseOf EXCEPT ![t] = ph]
<1>1. \A u \in Tasks : u # t => Phase(u)' = Phase(u)
  BY DEF Phase
<1> QED BY <1>1 DEF PhaseOf

\* The step leaves an ended row alone.
FinalRow(t) == row[t].status \in Terminal => row'[t] = row[t]

\* Handling a task stutters or finishes it.
LEMMA HandledOutcome ==
    ASSUME Unshared, Base, Ledger, NEW p \in Pollers, NEW t \in Tasks,
           NEW back \in {"sweep", "poll", "suno", "video"}, Handled(p, t, back), Verdict(p, t, back)
    PROVE  /\ \A u \in Tasks : FinalRow(u)
           /\ [Outcome!Next]_(Outcome!vars)
<1>1. UNCHANGED <<paid, adjusted>> /\ \A u \in Tasks : u # t => row'[u] = row[u]
  BY DEF Handled
<1>2. \/ row'[t] = row[t]
      \/ Open(t) /\ row[t].status \in AtWork
  BY HandledOpen
<1>3. \A u \in Tasks : FinalRow(u)
  BY <1>1, <1>2 DEF FinalRow, AtWork, Terminal
<1>4. CASE row'[t] = row[t]
  BY <1>1, <1>3, <1>4, PhaseFrame DEF PhaseOf, Outcome!vars
<1>5. CASE row'[t] # row[t]
  <2>1. Phase(t) = "open"
    BY <1>2, <1>5, PhaseValue
  <2>2. row' \in [Tasks -> RowType] /\ row'[t].status \in {"SUCCESS", "FAILURE", "IN_PROGRESS"}
    BY <1>5 DEF Handled, Verdict, Kept, EndedUnbilled, Refunding, Settling, BrokenOff, Terminal
  <2>3. Phase(t)' \in {"open", "failed", "succeeded"}
    BY <2>2, NextPhaseValue
  <2>4. CASE Phase(t)' = "open"
    <3>1. PhaseOf' = [PhaseOf EXCEPT ![t] = "open"]
      BY <1>1, <2>4, PhaseChange
    <3>2. PhaseOf' = PhaseOf
      BY <2>1, <3>1 DEF PhaseOf
    <3> QED BY <1>1, <1>3, <3>2 DEF PhaseOf, Outcome!vars
  <2>5. CASE Phase(t)' \in {"failed", "succeeded"}
    <3>1. PICK f \in {"failed", "succeeded"} : Phase(t)' = f
      BY <2>5
    <3>2. PhaseOf' = [PhaseOf EXCEPT ![t] = f]
      BY <1>1, <3>1, PhaseChange
    <3>3. Outcome!Finish(t)
      BY <1>1, <2>1, <3>2 DEF PhaseOf, Outcome!Finish
    <3> QED BY <1>3, <3>3 DEF Outcome!Next
  <2> QED BY <2>3, <2>4, <2>5
<1> QED BY <1>4, <1>5

\* Adjusting the funding source stutters or adjusts the abstract charge, once.
LEMMA AdjustOutcome ==
    ASSUME Base, Ledger, channel = TRUE, NEW p \in Pollers, AdjustFunding(p)
    PROVE  [Outcome!Next]_(Outcome!vars)
<1>1. PICK t \in Tasks : bill[p].task = t
  BY DEF AdjustFunding, Billing, Base, Bills
<1>2. BillOf(t, p) /\ pc[p] = "adjust" /\ row' = row /\ Book(t)
  BY <1>1 DEF AdjustFunding, BillOf, Billing, Ledger
<1>3. PhaseOf' = PhaseOf
  BY <1>2, PhaseFrame
<1>4. CASE UNCHANGED <<paid, adjusted>>
  BY <1>3, <1>4 DEF PhaseOf, Outcome!vars
<1>5. CASE ~UNCHANGED <<paid, adjusted>>
  <2>1. paid' = [paid EXCEPT ![t] = @ + bill[p].delta] /\ adjusted' = adjusted \cup {t}
    BY <1>1, <1>5 DEF AdjustFunding
  <2>2. paid[t] = Quota /\ t \notin adjusted /\ Fits(t, Quota + bill[p].delta)
    BY <1>2 DEF Book, BillBook
  <2>3. paid' = [paid EXCEPT ![t] = Quota + bill[p].delta]
    BY <2>1, <2>2
  <2>4. row[t].status # "ABSENT" /\ ~Open(t)
    BY <1>2 DEF Book, OpenBook
  <2>7. /\ Phase(t) \in {"failed", "succeeded"}
        /\ Phase(t) = "failed" => Quota + bill[p].delta = 0
        /\ Phase(t) = "succeeded" => Quota + bill[p].delta \in Actuals
    BY <2>2, <2>4, PhaseValue DEF Fits
  <2>8. Outcome!Adjust(t)
    BY <1>3, <2>1, <2>2, <2>3, <2>7 DEF PhaseOf, Outcome!Adjust
  <2> QED BY <2>8 DEF Outcome!Next
<1> QED BY <1>4, <1>5

\* A submission submits.
LEMMA SubmitOutcome ==
    ASSUME Base, Ledger, NEW t \in Tasks, Submit(t)
    PROVE  (\A u \in Tasks : FinalRow(u)) /\ [Outcome!Next]_(Outcome!vars)
<1>1. /\ row[t].status = "ABSENT" /\ \A u \in Tasks : u # t => row'[u] = row[u]
      /\ row'[t].status \in {"UNTRACKED", "NOT_START"} /\ row'[t].full = FALSE
      /\ row' \in [Tasks -> RowType]
      /\ paid' = [paid EXCEPT ![t] = Quota] /\ UNCHANGED adjusted
  BY SubmitEffect DEF Base
<1>2. Phase(t) = "absent" /\ Phase(t)' = "open"
  BY <1>1, PhaseValue, NextPhaseValue DEF Open
<1>3. PhaseOf' = [PhaseOf EXCEPT ![t] = "open"]
  BY <1>1, <1>2, PhaseChange
<1>4. Outcome!Submit(t)
  BY <1>1, <1>2, <1>3 DEF PhaseOf, Outcome!Submit
<1> QED BY <1>1, <1>4 DEF FinalRow, Terminal, Outcome!Next

\* Every step implements a step of TaskOutcome or stutters, and leaves ended rows alone.
LEMMA OutcomeStep ==
    ASSUME Unshared
    PROVE  Base /\ Ledger /\ channel = TRUE /\ [Next]_vars =>
             (\A u \in Tasks : FinalRow(u)) /\ [Outcome!Next]_(Outcome!vars)
<1> DEFINE Goal == (\A u \in Tasks : FinalRow(u)) /\ [Outcome!Next]_(Outcome!vars)
<1> SUFFICES ASSUME Base, Ledger, channel = TRUE, [Next]_vars PROVE Goal
  OBVIOUS
<1>1. ASSUME UNCHANGED <<row, paid, adjusted>> PROVE Goal
  BY <1>1, PhaseFrame DEF FinalRow, PhaseOf, Outcome!vars
<1> HIDE DEF Goal
<1>2. ASSUME NEW p \in Pollers, PollStep(p) \/ UpstreamStep(p) \/ Crash(p) PROVE Goal
  <2>1. CASE \/ StartRound(p) \/ ListTasks(p) \/ CloseSuno(p) \/ CloseVideo(p) \/ EndRound(p)
             \/ Crash(p) \/ SunoPanic(p) \/ AdjustToken(p) \/ FetchSuno(p)
             \/ \E t \in Tasks : FetchVideo(p, t)
    BY <1>1, <2>1 DEF StartRound, ListTasks, CloseSuno, CloseVideo, EndRound, Crash, SunoPanic,
                      AdjustToken, FetchSuno, FetchVideo, histVars
  <2>2. CASE OpenSuno(p) \/ OpenVideo(p)
    BY <1>1, <2>2 DEF OpenSuno, OpenVideo, BulkFail, histVars
  <2>3. CASE AdjustFunding(p)
    <3>1. row' = row
      BY <2>3 DEF AdjustFunding
    <3> QED BY <2>3, <3>1, AdjustOutcome DEF Goal, FinalRow
  <2>4. ASSUME NEW t \in Tasks, SweepTask(p, t) PROVE Goal
    BY <2>4, SweepHandles, HandledOutcome DEF Goal
  <2>5. ASSUME NEW t \in Tasks, SunoItem(p, t) PROVE Goal
    BY <2>5, SunoHandles, HandledOutcome DEF Goal
  <2>6. ASSUME NEW t \in Tasks, ApplyVideo(p, t) PROVE Goal
    BY <2>6, VideoHandles, HandledOutcome DEF Goal
  <2> QED BY <1>2, <2>1, <2>2, <2>3, <2>4, <2>5, <2>6 DEF PollStep, UpstreamStep
<1>3. ASSUME NEW t \in Tasks, Submit(t) PROVE Goal
  BY <1>3, SubmitOutcome DEF Goal
<1>4. ASSUME NEW t \in Tasks, QueryStart(t) \/ QueryFetch(t) \/ QueryStore(t) PROVE Goal
  <2>1. query[t] = NoQuery /\ t \notin Fetchable
    BY DEF Unshared, Base, Queries
  <2> QED BY <1>4, <2>1, NoQueryFields DEF QueryStart, QueryFetch, QueryStore
<1>5. CASE DeleteChannel \/ (\E t \in Tasks : UpstreamEnds(t) \/ TimesOut(t)) \/ UNCHANGED vars
  BY <1>1, <1>5 DEF DeleteChannel, UpstreamEnds, TimesOut, vars, histVars
<1>6. Goal
  BY <1>2, <1>3, <1>4, <1>5 DEF Next
<1> QED BY <1>6

\* No poller undoes the end of a task (Task.UpdateWithStatus, model/task.go).
THEOREM EndIsFinalCorrect ==
    ASSUME Settled
    PROVE  Spec => EndIsFinal
<1>1. Base /\ Ledger /\ channel = TRUE /\ [Next]_vars
        => [\A t \in Tasks : row[t].status \in Terminal => row'[t] = row[t]]_vars
  BY OutcomeStep DEF Settled, FinalRow
<1> QED BY <1>1, LedgerCorrect, ChannelStays, PTL DEF Settled, Spec, EndIsFinal

\* Polling implements the abstract life of a charge that TaskOutcome describes: charged once,
\* finished once, adjusted at most once and to the right amount (service/task_billing.go).
THEOREM OutcomeCorrect ==
    ASSUME Settled
    PROVE  Spec => OutcomeSpec
<1>1. Init => Outcome!Init
  <2> SUFFICES ASSUME Init PROVE Outcome!Init
    OBVIOUS
  <2>1. \A t \in Tasks : Phase(t) = "absent"
    BY RowFields DEF Init, Phase
  <2> QED BY <2>1 DEF Init, Outcome!Init
<1>2. Base /\ Ledger /\ channel = TRUE /\ [Next]_vars => [Outcome!Next]_(Outcome!vars)
  BY OutcomeStep DEF Settled
<1> QED BY <1>1, <1>2, LedgerCorrect, ChannelStays, PTL DEF Settled, Spec, OutcomeSpec, Outcome!Spec
=============================================================================
