---------------------------- MODULE DesktopShell ----------------------------
(***************************************************************************)
(* The Electron main process (electron/main.js): it starts the Go server   *)
(* as a child process, probes its port until it answers, shows one window  *)
(* and a tray icon, and takes the server down when the application quits.  *)
(* Development mode starts no server and waits for the frontend's own.     *)
(* The specification's names begin with Shell: ClientProofs extends this   *)
(* module together with PlaygroundChat.                                    *)
(***************************************************************************)
EXTENDS Integers

CONSTANTS
    MaxRetries,  \* maxRetries of checkServerAvailability (30 in the code)
    Windows      \* identities for windows

ASSUME ShellAssumption == MaxRetries \in Nat \ {0} /\ Windows \subseteq Nat \ {0}

VARIABLES
    isDev,       \* NODE_ENV is development
    foreign,     \* some other program answers on the port
    proc,        \* the child process: none, alive, dead, or failed to spawn
    listening,   \* the child process answers on the port
    exit,        \* its 'close' event, not handled yet: none, clean (code 0 or a signal), error
    serverProcess, \* the variable holds the child process
    start,       \* startServer's promise: none, pending, resolved, rejected
    attempts,    \* currentAttempt
    inflight,    \* probes sent and not answered
    scheduled,   \* probes waiting for their setTimeout
    windows, visible, mainWindow,  \* the windows, those shown, and the variable (0 is null)
    tray,        \* the tray icon exists
    dialogs,     \* message boxes on the screen
    isQuitting,  \* app.isQuitting
    shutdown,    \* before-quit has told the server to stop: its timer and listener are set
    exited,      \* the application is gone
    early        \* history: a window was opened before the start was over

probing == <<attempts, inflight, scheduled>>
screen == <<windows, visible, mainWindow, tray, dialogs, early>>
server == <<proc, listening, exit, serverProcess>>
quitting == <<isQuitting, shutdown, exited>>
setting == <<isDev, foreign>>
shellVars == <<setting, server, start, probing, screen, quitting>>

ShellInit ==
    /\ isDev \in BOOLEAN /\ foreign \in BOOLEAN
    /\ proc = "none" /\ listening = FALSE /\ exit = "none" /\ serverProcess = FALSE
    /\ start = "none" /\ attempts = 0 /\ inflight = 0 /\ scheduled = 0
    /\ windows = {} /\ visible = {} /\ mainWindow = 0 /\ tray = FALSE /\ dialogs = {} /\ early = FALSE
    /\ isQuitting = FALSE /\ shutdown = FALSE /\ exited = FALSE

-----------------------------------------------------------------------------
(* Windows.                                                                *)

\* createWindow: the new window becomes mainWindow, whatever mainWindow was.
CreateWindow ==
    \E w \in Windows \ windows :
        windows' = windows \union {w} /\ visible' = visible \union {w} /\ mainWindow' = w

\* Mutant: mainWindow is forgotten when the window is only hidden.
MutClose(w) ==
    IF isQuitting
    THEN windows' = windows \ {w} /\ visible' = visible \ {w} /\ mainWindow' = 0
    ELSE visible' = visible \ {mainWindow} /\ mainWindow' = 0 /\ UNCHANGED windows

\* The 'close' handler of window w hides mainWindow, which need not be w; once the application
\* is quitting the window goes, and 'closed' forgets mainWindow.
Close(w) ==
    IF isQuitting
    THEN windows' = windows \ {w} /\ visible' = visible \ {w} /\ mainWindow' = 0
    ELSE visible' = visible \ {mainWindow} /\ UNCHANGED <<windows, mainWindow>>

ClickClose(w) ==
    /\ ~exited /\ w \in visible
    /\ Close(w)
    /\ UNCHANGED <<setting, server, start, probing, tray, dialogs, early, quitting>>

\* "Show" in the tray menu
TrayShow ==
    /\ ~exited /\ tray
    /\ IF mainWindow = 0 THEN CreateWindow
       ELSE visible' = visible \union {mainWindow} /\ UNCHANGED <<windows, mainWindow>>
    /\ UNCHANGED <<setting, server, start, probing, tray, dialogs, early, quitting>>

\* A click on the tray icon
TrayClick ==
    /\ ~exited /\ tray
    /\ IF mainWindow = 0 THEN CreateWindow
       ELSE /\ visible' = IF mainWindow \in visible THEN visible \ {mainWindow}
                          ELSE visible \union {mainWindow}
            /\ UNCHANGED <<windows, mainWindow>>
    /\ UNCHANGED <<setting, server, start, probing, tray, dialogs, early, quitting>>

\* 'activate' (macOS): opens a window if there is none, also while the server is starting
\* or after it could not be started.
Activate ==
    /\ ~exited /\ start # "none" /\ windows = {}
    /\ CreateWindow
    /\ early' = (early \/ start # "resolved")
    /\ UNCHANGED <<setting, server, start, probing, tray, dialogs, quitting>>

-----------------------------------------------------------------------------
(* The start of the server.                                                *)

\* whenReady: startServer spawns the server, except in development, and sends the first probe.
Ready ==
    /\ ~exited /\ start = "none"
    /\ start' = "pending"
    /\ proc' \in (IF isDev THEN {"none"} ELSE {"alive", "failed"})
    /\ serverProcess' = ~isDev
    /\ attempts' = 1 /\ inflight' = 1
    /\ UNCHANGED <<setting, listening, exit, scheduled, screen, quitting>>

\* resolve: the rest of the whenReady handler shows the tray and the window.
Resolve ==
    IF start = "pending"
    THEN start' = "resolved" /\ tray' = TRUE /\ CreateWindow
    ELSE UNCHANGED <<start, tray, windows, visible, mainWindow>>

\* reject: the whenReady handler tells the user.
Reject ==
    IF start = "pending" THEN start' = "rejected" /\ dialogs' = dialogs \union {"start"}
    ELSE UNCHANGED <<start, dialogs>>

\* startServer throws before there is a process: the data directory cannot be made, or spawn
\* refuses at once. The promise is rejected and no probe is sent.
ReadyFails ==
    /\ ~exited /\ start = "none" /\ ~isDev
    /\ start' = "rejected" /\ dialogs' = dialogs \union {"start"}
    /\ UNCHANGED <<setting, server, probing, windows, visible, mainWindow, tray, early, quitting>>

\* tryConnect
TryConnect ==
    /\ ~exited /\ scheduled > 0
    /\ scheduled' = scheduled - 1 /\ attempts' = attempts + 1 /\ inflight' = inflight + 1
    /\ UNCHANGED <<setting, server, start, screen, quitting>>

Answers == foreign \/ listening

\* The response callback
ProbeAnswered ==
    /\ ~exited /\ inflight > 0 /\ Answers
    /\ inflight' = inflight - 1
    /\ Resolve
    /\ UNCHANGED <<setting, server, attempts, scheduled, dialogs, early, quitting>>

\* Mutant: an attempt too many gives up.
MutRetry(chains) ==
    IF attempts > MaxRetries THEN Reject /\ UNCHANGED scheduled
    ELSE scheduled' = scheduled + chains /\ UNCHANGED <<start, dialogs>>

\* Mutant: the last attempt that fails does not reject.
MutRetryForever(chains) ==
    IF attempts >= MaxRetries THEN UNCHANGED <<scheduled, start, dialogs>>
    ELSE scheduled' = scheduled + chains /\ UNCHANGED <<start, dialogs>>

\* What the handlers of a failed probe do: reject, or try again.
Retry(chains) ==
    IF attempts >= MaxRetries THEN Reject /\ UNCHANGED scheduled
    ELSE scheduled' = scheduled + chains /\ UNCHANGED <<start, dialogs>>

\* The 'error' handler: nothing accepts the connection, or what did has broken it off.
ProbeRefused ==
    /\ ~exited /\ inflight > 0
    /\ inflight' = inflight - 1
    /\ Retry(1)
    /\ UNCHANGED <<setting, server, attempts, windows, visible, mainWindow, tray, early, quitting>>

\* Something accepts the connection and is silent for ten seconds. The 'timeout' handler
\* destroys the request, which raises 'error' as well: both handlers try again, so that two
\* chains of probes go on.
ProbeTimesOut ==
    /\ ~exited /\ inflight > 0 /\ (foreign \/ isDev \/ proc = "alive")
    /\ inflight' = inflight - 1
    /\ Retry(2)
    /\ UNCHANGED <<setting, server, attempts, windows, visible, mainWindow, tray, early, quitting>>

ProbeEnds == ProbeAnswered \/ ProbeRefused \/ ProbeTimesOut

-----------------------------------------------------------------------------
(* The child process.                                                      *)

ServerListens ==
    /\ ~exited /\ proc = "alive" /\ ~foreign
    /\ listening' = TRUE
    /\ UNCHANGED <<setting, proc, exit, serverProcess, start, probing, screen, quitting>>

\* The server ends, by itself, killed by a signal, or because the port is taken.
ServerExits ==
    /\ ~exited /\ proc = "alive"
    /\ proc' = "dead" /\ listening' = FALSE
    /\ exit' \in {"clean", "error"}
    /\ UNCHANGED <<setting, serverProcess, start, probing, screen, quitting>>

\* The 'error' event of a process that could not be spawned; its 'close' event follows.
SpawnError ==
    /\ ~exited /\ proc = "failed"
    /\ proc' = "dead" /\ exit' = "error"
    /\ Reject
    /\ UNCHANGED <<setting, listening, serverProcess, probing, windows, visible, mainWindow, tray, early, quitting>>

\* The 'close' handlers: startServer's tells the user of an error and otherwise closes the
\* window; the one that before-quit added ends the application.
ServerClose ==
    /\ ~exited /\ exit # "none"
    /\ exit' = "none"
    /\ IF exit = "error"
       THEN dialogs' = dialogs \union {"crash"} /\ UNCHANGED <<windows, visible, mainWindow>>
       ELSE /\ UNCHANGED dialogs
            /\ IF mainWindow # 0 THEN Close(mainWindow) ELSE UNCHANGED <<windows, visible, mainWindow>>
    /\ serverProcess' = (serverProcess /\ ~shutdown) /\ exited' = shutdown
    /\ UNCHANGED <<setting, proc, listening, start, probing, tray, early, isQuitting, shutdown>>

-----------------------------------------------------------------------------
(* Quitting.                                                               *)

\* Mutant: before-quit stops the server and lets the application go.
MutQuit ==
    exited' = TRUE /\ UNCHANGED <<shutdown, windows, visible, mainWindow>>

\* app.quit: before-quit holds it back until the server is gone. Without a server the windows
\* are closed, and one that only hides calls the quitting off.
Quit ==
    IF serverProcess
    THEN shutdown' = TRUE /\ UNCHANGED <<exited, windows, visible, mainWindow>>
    ELSE /\ UNCHANGED shutdown
         /\ IF isQuitting' \/ windows = {}
            THEN exited' = TRUE /\ windows' = {} /\ visible' = {} /\ mainWindow' = 0
            ELSE visible' = visible \ {mainWindow} /\ UNCHANGED <<exited, windows, mainWindow>>

\* "Quit" in the tray menu
TrayQuit ==
    /\ ~exited /\ tray
    /\ isQuitting' = TRUE
    /\ Quit
    /\ UNCHANGED <<setting, server, start, probing, tray, dialogs, early>>

\* Quit of the application menu or of the operating system
SystemQuit ==
    /\ ~exited /\ start # "none"
    /\ UNCHANGED isQuitting
    /\ Quit
    /\ UNCHANGED <<setting, server, start, probing, tray, dialogs, early>>

\* The user chooses to see the log: another message box takes the place of this one.
ViewLog(d) ==
    /\ ~exited /\ d \in dialogs \intersect {"start", "crash"}
    /\ dialogs' = (dialogs \ {d}) \union {IF d = "start" THEN "startLog" ELSE "crashLog"}
    /\ UNCHANGED <<setting, server, start, probing, windows, visible, mainWindow, tray, early, quitting>>

\* The user chooses to quit. Only the dialog of a crash sets isQuitting.
AnswerDialog(d) ==
    /\ ~exited /\ d \in dialogs
    /\ dialogs' = dialogs \ {d}
    /\ isQuitting' = (isQuitting \/ d \in {"crash", "crashLog"})
    /\ Quit
    /\ UNCHANGED <<setting, server, start, probing, tray, early>>

\* Mutant: the timer only kills a server.
MutShutdownTimer ==
    /\ ~exited /\ shutdown /\ proc = "alive"
    /\ proc' = "dead" /\ listening' = FALSE
    /\ exited' = TRUE
    /\ UNCHANGED <<setting, exit, serverProcess, start, probing, screen, isQuitting, shutdown>>

\* Five seconds after before-quit: kills the server and exits.
ShutdownTimer ==
    /\ ~exited /\ shutdown
    /\ proc' = IF proc = "alive" THEN "dead" ELSE proc
    /\ listening' = FALSE
    /\ exited' = TRUE
    /\ UNCHANGED <<setting, exit, serverProcess, start, probing, screen, isQuitting, shutdown>>

ShellNext ==
    \/ Ready \/ ReadyFails \/ TryConnect \/ ProbeAnswered \/ ProbeRefused \/ ProbeTimesOut
    \/ ServerListens \/ ServerExits \/ SpawnError \/ ServerClose
    \/ \E w \in Windows : ClickClose(w)
    \/ TrayShow \/ TrayClick \/ Activate \/ TrayQuit \/ SystemQuit
    \/ \E d \in {"start", "crash", "startLog", "crashLog"} : ViewLog(d) \/ AnswerDialog(d)
    \/ ShutdownTimer

\* Timers fire, a probe is answered, refused or times out after ten seconds, and the event
\* loop delivers the events of the child process.
ShellFairness ==
    /\ WF_shellVars(TryConnect) /\ WF_shellVars(ProbeEnds)
    /\ WF_shellVars(SpawnError) /\ WF_shellVars(ServerClose) /\ WF_shellVars(ShutdownTimer)

ShellSpec == ShellInit /\ [][ShellNext]_shellVars /\ ShellFairness

-----------------------------------------------------------------------------
(* Properties.                                                             *)

\* The variables have their types, and mainWindow is a window that exists.
ShellTypeOK ==
    /\ isDev \in BOOLEAN /\ foreign \in BOOLEAN
    /\ proc \in {"none", "alive", "dead", "failed"} /\ listening \in BOOLEAN
    /\ exit \in {"none", "clean", "error"} /\ serverProcess \in BOOLEAN
    /\ start \in {"none", "pending", "resolved", "rejected"}
    /\ attempts \in Nat /\ inflight \in Nat /\ scheduled \in Nat
    /\ windows \subseteq Windows /\ visible \subseteq windows /\ mainWindow \in windows \union {0}
    /\ tray \in BOOLEAN /\ dialogs \subseteq {"start", "crash", "startLog", "crashLog"}
    /\ isQuitting \in BOOLEAN /\ shutdown \in BOOLEAN /\ exited \in BOOLEAN /\ early \in BOOLEAN

\* However the application ends, it leaves no server behind: the two ways out of before-quit
\* are the server's 'close' event and SIGKILL.
NoOrphan == exited => proc # "alive"

\* Although every timeout doubles the chains of probes, the probes stay below twice maxRetries:
\* the attempts that are already scheduled when the limit is reached are the last.
ProbesBounded == attempts + scheduled < 2 * MaxRetries

\* A window that the user cannot see is the one the tray shows again, unless a window was
\* opened (activate) before the start was over: then the start opens a second one, the first
\* is forgotten, and closing it hides the second.
HiddenReachable ==
    \A w \in windows : w \in visible \/ w = mainWindow \/ isQuitting \/ early

\* Starting ends: the promise of startServer is settled even if every probe times out.
StartDecides == (start = "pending") ~> (start # "pending" \/ exited)

\* Once quitting was decided the application exits, whether or not the server obeys.
QuitCompletes == (isQuitting \/ shutdown) ~> exited
=============================================================================
