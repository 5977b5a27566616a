--------------------------- MODULE PlaygroundChat ---------------------------
(***************************************************************************)
(* The chat playground of the web console: the conversation shown, its     *)
(* copy in localStorage, the requests whose answers are still arriving,    *)
(* and what the user may do to the conversation meanwhile                  *)
(* (web/classic/src/hooks/playground, pages/Playground).                   *)
(*                                                                         *)
(* Every handler of an answer updates the LAST message of the list,        *)
(* whatever request the answer belongs to. A message carries the requests  *)
(* its text came from, which is all of its text the model keeps.           *)
(***************************************************************************)
EXTENDS Integers, Sequences, SequencesExt

CONSTANTS
    MaxRequests,  \* how many requests are sent
    MaxChunks,    \* how many chunks a stream delivers
    MaxLoads,     \* how often the page is loaded again
    MaxOps,       \* how often a message is edited, deleted or given another role, the language changed,
                  \* or a custom request refused
    MaxSaves,     \* saves that may be waiting at once
    MaxResends,   \* delayed sends that may be waiting when a message is regenerated
    CustomModes   \* CustomModes[k]: whether request k is sent in the custom request mode (TRUE), not in it,
                  \* or either

ASSUME BoundAssumption ==
    /\ MaxRequests \in Nat /\ MaxChunks \in Nat /\ MaxLoads \in Nat
    /\ MaxOps \in Nat /\ MaxSaves \in Nat \ {0}
    /\ MaxResends \in Nat /\ CustomModes \in [1..MaxRequests -> SUBSET BOOLEAN]

Requests == 1..MaxRequests
FirstId == 4        \* messageId when the page is loaded (helpers/utils.jsx)

VARIABLES
    message,   \* the conversation shown
    stored,    \* playground_messages in localStorage, or Nothing
    fresh,     \* nothing was stored when the page was loaded (initialMessages is null)
    saves,     \* lists that setTimeout(..., 0) will store, oldest first
    resend,    \* sends waiting for their setTimeout(..., 100), oldest first
    nextId,    \* messageId
    request,   \* request[k]: "none", an open "stream" or "fetch", or "closed"
    chunks,    \* chunks[k]: chunks received by stream k
    sent,      \* how many requests have been sent
    sseRef,    \* sseSourceRef.current: the stream that Stop closes, or 0
    editing,   \* the message that is being edited, or NoMessage
    dialog,    \* the confirmation dialog that is open, or NoDialog
    crashed,   \* an updater threw: the error boundary has replaced the page
    \* history
    loads, ops,
    loose,     \* requests left open although nothing waits for their answer any more, and those
               \* whose message was edited while another one had its id
    silent,    \* an answer ended without a choice, without [DONE] and without an error
    stale,     \* a dialog put back a list from before it was opened
    crossed,   \* a delayed send was overtaken by another request
    wiped,     \* a change of language has replaced the conversation by the defaults, or the
               \* message cut from it was not sent again
    dropped    \* localStorage refused the last list that was to be stored

conversation == <<message, stored, saves, resend, nextId>>
network == <<request, chunks, sent, sseRef>>
page == <<editing, dialog, crashed, fresh>>
history == <<loads, ops, loose, silent, stale, crossed, wiped, dropped>>
vars == <<conversation, network, page, history>>

\* uid is the identity of a message: 2k for what the user said in request k, 2k+1 for the
\* reply to it. id is the id the page gives it.
Msg(uid, id, role, status, parts) ==
    [uid |-> uid, id |-> id, role |-> role, status |-> status, parts |-> parts]
ReplyOf(m) == m.uid \div 2
NoMessage == Msg(-1, -1, "none", "none", {})
\* stored when localStorage has no playground_messages
Nothing == <<NoMessage>>
NoDialog == [kind |-> "none", list |-> <<>>, index |-> 0]

\* getDefaultMessages
Default == <<Msg(0, 2, "user", "none", {}), Msg(1, 3, "assistant", "none", {})>>

\* What a load of the page would find.
Kept == IF stored = Nothing THEN Default ELSE stored

\* The messages of a list at some of its positions, in their order.
Keep(list, at) ==
    LET F[n \in 0..Len(list)] ==
            IF n = 0 THEN <<>> ELSE IF n \in at THEN Append(F[n - 1], list[n]) ELSE F[n - 1]
    IN F[Len(list)]

Uids(list) == [i \in DOMAIN list |-> list[i].uid]
Said(list) == Keep(list, {i \in DOMAIN list : list[i].role = "user"})
Statuses(list) == [i \in DOMAIN list |-> list[i].status]
Generating(m) == m.status \in {"loading", "incomplete"}
AnyGenerating == \E i \in DOMAIN message : Generating(message[i])
LastGenerating == message # <<>> /\ Generating(Last(message))
SetLast(m) == Front(message) \o <<m>>
Open == {k \in Requests : request[k] \in {"stream", "fetch"}}
\* The open requests that the last message does not wait for.
Unawaited == {k \in Open : ~LastGenerating \/ ReplyOf(Last(message)) # k}

Save(list) == saves' = Append(saves, list)
\* The page reacts to the user: no dialog covers it, and the timers that are due have run.
Reacts == ~crashed /\ dialog = NoDialog /\ Len(saves) < MaxSaves

Init ==
    /\ message = Default /\ stored = Nothing /\ saves = <<>> /\ resend = <<>> /\ nextId = FirstId
    /\ request = [k \in Requests |-> "none"] /\ chunks = [k \in Requests |-> 0]
    /\ sent = 0 /\ sseRef = 0
    /\ editing = NoMessage /\ dialog = NoDialog /\ crashed = FALSE /\ fresh = TRUE
    /\ loads = 0 /\ ops = 0
    /\ loose = {} /\ silent = FALSE /\ stale = FALSE /\ crossed = FALSE
    /\ wiped = FALSE /\ dropped = FALSE

-----------------------------------------------------------------------------
(* Sending.                                                                *)

\* sendRequest
SendRequest(k, kind) ==
    /\ sent' = k
    /\ request' = [request EXCEPT ![k] = kind]
    /\ sseRef' = IF kind = "stream" THEN k ELSE sseRef
    /\ UNCHANGED chunks

\* onMessageSend makes the user's message and the reply. With a custom request body these two
\* are shown; otherwise the user's message is made again with its images, and gets the third id.
OnMessageSend(kind, custom) ==
    LET k == sent + 1
        list == message \o <<Msg(2 * k, IF custom THEN nextId ELSE nextId + 2, "user", "none", {k}),
                             Msg(2 * k + 1, nextId + 1, "assistant", "loading", {})>>
    IN /\ sent < MaxRequests /\ custom \in CustomModes[k]
       /\ message' = list /\ nextId' = IF custom THEN nextId + 2 ELSE nextId + 3
       /\ Save(list) /\ SendRequest(k, kind)

\* A custom request body that is no JSON: the two messages made are not shown.
BadCustomBody ==
    /\ \E k \in Requests : TRUE \in CustomModes[k]
    /\ nextId' = nextId + 2 /\ UNCHANGED <<message, saves, network>>

\* The chat component offers no sending while the last message is being generated.
Send(kind, custom) ==
    /\ Reacts /\ ~LastGenerating
    /\ OnMessageSend(kind, custom)
    /\ UNCHANGED <<stored, resend, page, history>>

SendRefused ==
    /\ Reacts /\ ~LastGenerating /\ ops < MaxOps
    /\ BadCustomBody /\ ops' = ops + 1
    /\ UNCHANGED <<stored, resend, page, loads, loose, silent, stale, crossed, wiped, dropped>>

\* The send that handleMessageReset or the edit dialog put off fires; nothing looks at what
\* the conversation has become.
FireResend(kind, custom) ==
    /\ resend # <<>> /\ ~crashed /\ Len(saves) < MaxSaves
    /\ resend' = Tail(resend)
    /\ IF Head(resend) = "send" THEN OnMessageSend(kind, custom)
       ELSE /\ sent < MaxRequests
            /\ message' = Append(message, Msg(2 * sent + 3, nextId, "assistant", "loading", {}))
            /\ nextId' = nextId + 1
            /\ SendRequest(sent + 1, kind)
            /\ UNCHANGED saves
    /\ crossed' = (crossed \/ AnyGenerating)
    /\ loose' = loose \union Open
    /\ UNCHANGED <<stored, page, loads, ops, silent, stale, wiped, dropped>>

\* What handleMessageReset cut from the conversation does not come back.
ResendRefused ==
    /\ resend # <<>> /\ ~crashed /\ Head(resend) = "send"
    /\ resend' = Tail(resend) /\ BadCustomBody
    /\ wiped' = TRUE
    /\ UNCHANGED <<stored, page, loads, ops, loose, silent, stale, crossed, dropped>>

\* setTimeout(() => saveMessages(list), 0). A write that localStorage refuses is only logged.
FireSave ==
    /\ saves # <<>> /\ saves' = Tail(saves)
    /\ \/ stored' = Head(saves) /\ dropped' = FALSE
       \/ stored' = stored /\ dropped' = TRUE
    /\ UNCHANGED <<message, resend, nextId, network, page, loads, ops, loose, silent, stale, crossed, wiped>>

-----------------------------------------------------------------------------
(* Answers.                                                                *)

\* streamMessageUpdate
Streamed(k) ==
    IF message = <<>> \/ Last(message).role # "assistant" \/ ~Generating(Last(message)) THEN message
    ELSE SetLast([Last(message) EXCEPT !.parts = @ \union {k}, !.status = "incomplete"])

\* completeMessage applied to a list: throws on an empty one, and saves what it changes.
Complete(list, status) ==
    IF list = <<>> THEN /\ crashed' = TRUE /\ message' = list /\ UNCHANGED saves
    ELSE /\ UNCHANGED crashed
         /\ IF Last(list).status \in {"complete", "error"} THEN message' = list /\ UNCHANGED saves
            ELSE LET done == Front(list) \o <<[Last(list) EXCEPT !.status = status]>>
                 IN message' = done /\ Save(done)

\* A stream is listened to until it is closed.
Listens(k) == request[k] = "stream" /\ ~crashed /\ Len(saves) < MaxSaves

\* Request k ends what is the last message. If k had been left open that is another request's
\* message, and it is now that one which is left open.
Ends(k) == loose' = IF k \in loose THEN loose \union Unawaited' ELSE loose

Chunk(k) ==
    /\ Listens(k) /\ chunks[k] < MaxChunks
    /\ message' = Streamed(k)
    /\ chunks' = [chunks EXCEPT ![k] = @ + 1]
    /\ UNCHANGED <<stored, saves, resend, nextId, request, sent, sseRef, page, history>>

\* [DONE]: forgets the stream Stop would close, even if that is another one by now.
Done(k) ==
    /\ Listens(k)
    /\ request' = [request EXCEPT ![k] = "closed"] /\ sseRef' = 0
    /\ Complete(message, "complete") /\ Ends(k)
    /\ UNCHANGED <<stored, resend, nextId, chunks, sent, editing, dialog, fresh,
                   loads, ops, silent, stale, crossed, wiped, dropped>>

\* A chunk that is no JSON ends the message but not the stream.
ParseError(k) ==
    /\ Listens(k) /\ chunks[k] < MaxChunks
    /\ chunks' = [chunks EXCEPT ![k] = @ + 1]
    /\ Complete(Streamed(k), "error")
    /\ loose' = loose \union Open
    /\ UNCHANGED <<stored, resend, nextId, request, sent, sseRef, editing, dialog, fresh,
                   loads, ops, silent, stale, crossed, wiped, dropped>>

\* readystatechange with an HTTP status other than 200
HttpError(k) ==
    /\ Listens(k)
    /\ request' = [request EXCEPT ![k] = "closed"]
    /\ Complete(Streamed(k), "error") /\ Ends(k)
    /\ UNCHANGED <<stored, resend, nextId, chunks, sent, sseRef, editing, dialog, fresh,
                   loads, ops, silent, stale, crossed, wiped, dropped>>

\* The error event: marks whatever message is last, a user's too, and does not save.
SseError(k) ==
    /\ Listens(k)
    /\ message' = IF message = <<>> \/ Last(message).status \in {"complete", "error"} THEN message
                  ELSE SetLast([Last(message) EXCEPT !.status = "error", !.parts = @ \union {k}])
    /\ request' = [request EXCEPT ![k] = "closed"] /\ sseRef' = 0
    /\ Ends(k)
    /\ UNCHANGED <<stored, saves, resend, nextId, chunks, sent, page,
                   loads, ops, silent, stale, crossed, wiped, dropped>>

\* The stream ends with status 200 and without [DONE], or the answer to a fetch has no choice
\* in it: no handler does anything.
EndSilently(k) ==
    /\ k \in Open /\ ~crashed
    /\ request' = [request EXCEPT ![k] = "closed"]
    /\ silent' = TRUE
    /\ UNCHANGED <<conversation, chunks, sent, sseRef, page, loads, ops, loose, stale, crossed, wiped, dropped>>

\* handleNonStreamRequest: an answer or an error fills a last message that still loads.
FetchEnds(k, status) ==
    /\ request[k] = "fetch" /\ ~crashed
    /\ request' = [request EXCEPT ![k] = "closed"]
    /\ message' = IF message = <<>> \/ Last(message).status # "loading" THEN message
                  ELSE SetLast([Last(message) EXCEPT !.status = status, !.parts = {k}])
    /\ Ends(k)
    /\ UNCHANGED <<stored, saves, resend, nextId, chunks, sent, sseRef, page,
                   loads, ops, silent, stale, crossed, wiped, dropped>>

\* Mutant: marks the message but does not close the stream.
MutStop ==
    /\ Reacts /\ LastGenerating
    /\ LET done == SetLast([Last(message) EXCEPT !.status = "complete"])
       IN message' = done /\ Save(done)
    /\ loose' = loose \union (Open \ {sseRef})
    /\ UNCHANGED <<stored, resend, nextId, network, page, loads, ops, silent, stale, crossed, wiped, dropped>>

\* onStopGenerator, offered while the last message is being generated; a fetch goes on.
Stop ==
    /\ Reacts /\ LastGenerating
    /\ request' = IF sseRef = 0 THEN request ELSE [request EXCEPT ![sseRef] = "closed"]
    /\ sseRef' = 0
    /\ LET done == SetLast([Last(message) EXCEPT !.status = "complete"])
       IN message' = done /\ Save(done)
    /\ loose' = loose \union (Open \ {sseRef})
    /\ UNCHANGED <<stored, resend, nextId, chunks, sent, page,
                   loads, ops, silent, stale, crossed, wiped, dropped>>

-----------------------------------------------------------------------------
(* What the user does to the conversation.                                 *)

\* Mutant: clears what is shown and not what is stored.
MutClear ==
    /\ Reacts
    /\ message' = <<>>
    /\ loose' = loose \union Open
    /\ UNCHANGED <<stored, saves, resend, nextId, network, page, loads, ops, silent, stale, crossed, wiped, dropped>>

\* handleClearMessages: open requests go on.
Clear ==
    /\ Reacts
    /\ message' = <<>> /\ Save(<<>>)
    /\ loose' = loose \union Open
    /\ UNCHANGED <<stored, resend, nextId, network, page, loads, ops, silent, stale, crossed, wiped, dropped>>

\* The buttons below a message are disabled while any message is being generated or this one
\* is being edited.
Enabled(i) == Reacts /\ ~AnyGenerating /\ editing.id # message[i].id

\* The user message at or before i.
Prompt(i) == SelectLastInSubSeq(message, 1, i, LAMBDA m : m.role = "user")

\* handleMessageReset: cuts the conversation and sends again 100 ms later.
Reset(i) ==
    /\ Enabled(i) /\ Prompt(i) > 0 /\ Len(resend) < MaxResends
    /\ message' = SubSeq(message, 1, Prompt(i) - 1)
    /\ resend' = Append(resend, "send")
    /\ loose' = loose \union Open
    /\ UNCHANGED <<stored, saves, nextId, network, page, loads, ops, silent, stale, crossed, wiped, dropped>>

\* handleRoleToggle changes every message with the same id.
RoleToggle(i) ==
    /\ Enabled(i) /\ message[i].role \in {"assistant", "system"} /\ ops < MaxOps
    /\ LET role == IF message[i].role = "assistant" THEN "system" ELSE "assistant"
           list == [j \in DOMAIN message |->
                      IF message[j].id = message[i].id /\ message[j].role # "user"
                      THEN [message[j] EXCEPT !.role = role] ELSE message[j]]
       IN message' = list /\ Save(list)
    /\ ops' = ops + 1
    /\ UNCHANGED <<stored, resend, nextId, network, page, loads, loose, silent, stale, crossed, wiped, dropped>>

\* handleMessageDelete asks first.
AskDelete(i) ==
    /\ Enabled(i) /\ ops < MaxOps
    /\ dialog' = [kind |-> "delete", list |-> <<message[i]>>, index |-> i]
    /\ ops' = ops + 1
    /\ UNCHANGED <<conversation, network, editing, crashed, fresh, loads, loose, silent, stale, crossed, wiped, dropped>>

\* The message itself, or the first one with its id; 0 if there is none.
Find(m) == LET same == SelectInSeq(message, LAMBDA x : x = m)
           IN IF same > 0 THEN same ELSE SelectInSeq(message, LAMBDA x : x.id = m.id)

\* A user's message takes its reply with it; any other deletion is by id.
Delete ==
    /\ dialog.kind = "delete" /\ ~crashed
    /\ LET m == Head(dialog.list)
           at == Find(m)
           gone == IF m.role = "user" /\ at < Len(message) /\ message[at + 1].role = "assistant"
                   THEN {at, at + 1} ELSE {j \in DOMAIN message : message[j].id = m.id}
           list == Keep(message, DOMAIN message \ gone)
       IN IF at = 0 THEN UNCHANGED <<message, saves>> ELSE message' = list /\ Save(list)
    /\ dialog' = NoDialog
    /\ UNCHANGED <<stored, resend, nextId, network, editing, crashed, fresh,
                   loads, ops, silent, stale, crossed, wiped, dropped>>
    /\ loose' = loose \union Unawaited'

\* A reply that got no text cannot be edited.
HasText(m) == m.uid <= 1 \/ m.parts # {}

Edit(i) ==
    /\ Enabled(i) /\ HasText(message[i]) /\ ops < MaxOps
    /\ editing' = message[i] /\ ops' = ops + 1
    /\ UNCHANGED <<conversation, network, dialog, crashed, fresh, loads, loose, silent, stale, crossed, wiped, dropped>>

EditCancel ==
    /\ editing # NoMessage /\ Reacts
    /\ editing' = NoMessage
    /\ UNCHANGED <<conversation, network, dialog, crashed, fresh, history>>

\* The new text goes to every message with the id; it belongs to the exchange edited.
Edited(m) ==
    [j \in DOMAIN message |->
        IF message[j].id = m.id THEN [message[j] EXCEPT !.parts = {ReplyOf(m)} \intersect Requests]
        ELSE message[j]]

\* handleEditSave: a user's message with a reply asks what to do with the list as it is now.
EditSave ==
    /\ Reacts /\ editing # NoMessage /\ Find(editing) > 0
    /\ LET at == Find(editing)
           asks == message[at].role = "user" /\ at < Len(message) /\ message[at + 1].role = "assistant"
           list == Edited(editing)
       IN IF asks
          THEN /\ dialog' = [kind |-> "edit", list |-> list, index |-> at]
               /\ UNCHANGED <<message, saves>>
          ELSE message' = list /\ Save(list) /\ UNCHANGED dialog
    /\ editing' = NoMessage
    /\ loose' = IF \E j \in DOMAIN message : message[j].id = editing.id /\ ReplyOf(message[j]) # ReplyOf(editing)
                THEN loose \union ({ReplyOf(editing)} \intersect Requests) ELSE loose
    /\ UNCHANGED <<stored, resend, nextId, network, crashed, fresh, loads, ops, silent, stale, crossed, wiped, dropped>>

\* The edit dialog: the list from before it was opened, up to the edited message or whole.
EditDialog(regenerate) ==
    /\ dialog.kind = "edit" /\ ~crashed
    /\ LET list == IF regenerate THEN SubSeq(dialog.list, 1, dialog.index) ELSE dialog.list
       IN message' = list /\ Save(list)
    /\ resend' = IF regenerate THEN Append(resend, "reply") ELSE resend
    /\ dialog' = NoDialog
    /\ stale' = (stale \/ Uids(message) # Uids(dialog.list) \/ Statuses(message) # Statuses(dialog.list))
    /\ loose' = loose \union Open
    /\ UNCHANGED <<stored, nextId, network, editing, crashed, fresh, loads, ops, silent, crossed, wiped, dropped>>

DialogCancel ==
    /\ dialog.kind = "delete" /\ dialog' = NoDialog
    /\ UNCHANGED <<conversation, network, editing, crashed, fresh, history>>

\* The two default messages alone; if their text is an old one, a load takes them away.
DefaultsOnly(list) == Len(list) = 2 /\ list[1].id = 2 /\ list[2].id = 3

\* Mutant: a last message that was being generated comes back as it was.
MutRestore ==
    /\ message' = Kept /\ saves' = <<>>
    /\ fresh' = (stored = Nothing) /\ UNCHANGED stored

\* What was stored comes back with a last message that was being generated marked complete.
Restore ==
    /\ LET fixed == Front(Kept) \o <<[Last(Kept) EXCEPT !.status = "complete"]>>
       IN IF Kept # <<>> /\ Generating(Last(Kept))
          THEN message' = fixed /\ saves' = <<fixed>>
          ELSE message' = Kept /\ saves' = <<>>
    /\ fresh' = (stored = Nothing) /\ UNCHANGED stored

\* The page is loaded again, and ids are counted from the start.
Reload ==
    /\ loads < MaxLoads
    /\ loads' = loads + 1 /\ nextId' = FirstId
    /\ \/ Restore
       \/ /\ DefaultsOnly(stored)
          /\ stored' = Nothing /\ message' = Default /\ saves' = <<>> /\ fresh' = TRUE
    /\ resend' = <<>> /\ sseRef' = 0
    /\ request' = [k \in Requests |-> IF k \in Open THEN "closed" ELSE request[k]]
    /\ editing' = NoMessage /\ dialog' = NoDialog /\ crashed' = FALSE
    /\ wiped' = FALSE /\ dropped' = FALSE
    /\ UNCHANGED <<chunks, sent, ops, loose, silent, stale, crossed>>

\* The effect that follows a change of language shows the default messages again, in the new
\* language, if nothing was stored when the page was loaded. What is shown is not stored.
ChangeLanguage ==
    /\ ~crashed /\ dialog = NoDialog /\ ops < MaxOps
    /\ ops' = ops + 1
    /\ IF fresh THEN /\ message' = Default
                    /\ wiped' = (wiped \/ message # Default)
                    /\ loose' = loose \union Open
       ELSE UNCHANGED <<message, wiped, loose>>
    /\ UNCHANGED <<stored, saves, resend, nextId, network, page, loads, silent, stale, crossed, dropped>>

Next ==
    \/ \E kind \in {"stream", "fetch"}, custom \in BOOLEAN : Send(kind, custom) \/ FireResend(kind, custom)
    \/ SendRefused \/ ResendRefused \/ FireSave
    \/ \E k \in Requests :
        \/ Chunk(k) \/ Done(k) \/ ParseError(k) \/ HttpError(k) \/ SseError(k) \/ EndSilently(k)
        \/ \E status \in {"complete", "error"} : FetchEnds(k, status)
    \/ Stop \/ Clear
    \/ \E i \in DOMAIN message : Reset(i) \/ RoleToggle(i) \/ AskDelete(i) \/ Edit(i)
    \/ Delete \/ EditCancel \/ EditSave \/ DialogCancel
    \/ \E regenerate \in BOOLEAN : EditDialog(regenerate)
    \/ Reload \/ ChangeLanguage

Spec == Init /\ [][Next]_vars

-----------------------------------------------------------------------------
(* Properties.                                                             *)

Messages == [uid : 0..2 * MaxRequests + 1, id : Nat, role : {"user", "assistant", "system"},
             status : {"none", "loading", "incomplete", "complete", "error"}, parts : SUBSET Requests]

\* The conversation, its copies and the state of the page have their type.
TypeOK ==
    /\ message \in Seq(Messages) /\ stored \in Seq(Messages) \union {Nothing} /\ saves \in Seq(Seq(Messages))
    /\ Len(saves) <= MaxSaves + 1 /\ resend \in Seq({"send", "reply"}) /\ nextId \in Nat
    /\ request \in [Requests -> {"none", "stream", "fetch", "closed"}]
    /\ chunks \in [Requests -> 0..MaxChunks] /\ sent \in 0..MaxRequests /\ sseRef \in 0..sent
    /\ editing \in Messages \union {NoMessage} /\ crashed \in BOOLEAN
    /\ dialog.kind \in {"none", "delete", "edit"} /\ loose \subseteq Requests

\* The text of a reply comes from its own request, unless the text is that of a request left
\* open when the user stopped a fetch, cleared, cut or restored the conversation, when a
\* malformed chunk ended the message but not its stream, when a delayed send came late, or when
\* the end of another such request ended the message it was to fill. And only such a request can
\* end on an empty conversation, where its handler throws.
OwnWords ==
    /\ \A i \in DOMAIN message :
            LET m == message[i]
            IN m.parts \subseteq {ReplyOf(m)} \union loose
    /\ crashed => loose # {}

\* A message that is being generated is the last one and some request is still open for it,
\* unless an answer ended without a word, a dialog put an old list back, a delayed send was
\* overtaken, or a request left open took the stream or the end of this one. So Stop and a
\* reload, which only look at the last message, can always free the page.
SpinnerIsLast ==
    \A i \in DOMAIN message :
        Generating(message[i]) =>
            \/ i = Len(message) /\ ReplyOf(message[i]) \in Open
            \/ silent \/ stale \/ crossed
            \/ ~(message[i].parts \subseteq {ReplyOf(message[i])})

\* When nothing is waiting to happen the user's messages that are stored are those shown: the
\* snapshots that the handlers store later are stored in order, and the last of them is what is
\* shown. Not so when localStorage refused the last of them, which is only logged; and, until
\* the next load, when a change of language replaced what is shown or a message cut from the
\* conversation was not sent again because the custom request body is no JSON.
UserWordsStored ==
    saves = <<>> /\ resend = <<>> /\ ~wiped /\ ~dropped => Uids(Said(message)) = Uids(Said(Kept))
=============================================================================
