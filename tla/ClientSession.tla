--------------------------- MODULE ClientSession ---------------------------
(***************************************************************************)
(* The desktop client's session: MainWindow on the GUI thread, RpcWorker on  *)
(* its QThread and the joinable log-stream thread the worker starts.         *)
(*                                                                         *)
(* GUI and worker talk through Qt's queued connections: `requests` is the    *)
(* worker's event queue, `events` the GUI's.  The worker runs one slot at a  *)
(* time.  A message box, a confirmation or a file dialog runs a NESTED event *)
(* loop: while it is open the user can only answer the topmost one, but      *)
(* queued events are still handled, so `boxes` is a stack of suspended       *)
(* handlers.                                                                *)
(*                                                                         *)
(* The widgets' data is left out; what remains is the status label, which    *)
(* buttons are enabled, and the timers.  "session" stands for the buttons    *)
(* SetConnected only ever switches together: disconnect, reconnect, network  *)
(* refresh, log refresh and service refresh.                                *)
(*                                                                         *)
(* An operator X_Y beside X is X with the defect Y: it is not part of the    *)
(* specification, and shows that a property is sensitive to it.             *)
(***************************************************************************)
EXTENDS Naturals, SequencesExt

CONSTANTS RefreshBurst,  \* refresh requests HandleConnected emits (5 in the code)
          MaxClicks,     \* bound: what the user clicks and chooses in dialogs
          MaxTicks       \* bound: expiries of the refresh timers

ASSUME BoundsAssumption == RefreshBurst \in Nat /\ MaxClicks \in Nat /\ MaxTicks \in Nat

VARIABLES
    status,    \* connection_status_ label
    buttons,   \* the enabled buttons
    timers,    \* metrics_timer_ and processes_timer_ are running
    boxes,     \* the open modal boxes, outermost first
    window,    \* "open", "closing" (in ~MainWindow) or "gone"
    requests,  \* queued slot calls of the worker, in order
    events,    \* queued slot calls of the window, in order
    slot,      \* the request the worker is serving, or "none"
    phase,     \* how far the worker is in it
    client,    \* client_ is not null
    stream,    \* stream_thread_: "none" (not joinable), "running",
               \* "reporting" (its RpcError is emitted) or "ended"
    cancelled, \* TryCancel was called on stream_context_
    clicks, ticks

vars == <<status, buttons, timers, boxes, window, requests, events,
          slot, phase, client, stream, cancelled, clicks, ticks>>
guiVars    == <<status, buttons, timers, boxes, window>>
workerVars == <<slot, phase, client, cancelled>>
bounds     == <<clicks, ticks>>

(* What the window asks of the worker.  "call" is a slot with one RPC (the   *)
(* refreshes, process details, log reading), "pair" one with two (process    *)
(* and service control followed by their refresh; the network slot).         *)
StopsStream == {"connect", "disconnect", "start", "stop"}
Calls       == {"call", "pair", "diagnostic"}
Requests    == StopsStream \cup Calls

(* What the worker and the stream thread tell the window.                    *)
Event(kind) == [kind |-> kind, operation |-> "none", lost |-> FALSE]
RpcError(operation, lost) == [kind |-> "RpcError", operation |-> operation, lost |-> lost]
Events == {Event(k) : k \in {"Connected", "Disconnected", "LogStreamStopped", "DiagnosticReady"}}
          \cup {RpcError(o, l) : o \in {"Connect", "Call", "Diagnostic", "StreamLog"}, l \in BOOLEAN}

Statuses == {"Disconnected", "Connecting", "Connected", "Reconnecting"}
Buttons  == {"connect", "session", "start", "stop", "diagnostic"}
Boxes    == {"notice", "connect_failed", "confirm", "save"}

(* SetConnected: label, buttons and (when disconnected) the timers.          *)
ConnectedButtons(connected) == IF connected THEN {"session", "start", "diagnostic"} ELSE {"connect"}
SetConnected(connected) ==
    /\ status' = IF connected THEN "Connected" ELSE "Disconnected"
    /\ buttons' = ConnectedButtons(connected)

Init ==
    /\ status = "Disconnected" /\ buttons = ConnectedButtons(FALSE)
    /\ timers = FALSE /\ boxes = <<>> /\ window = "open"
    /\ requests = <<>> /\ events = <<>>
    /\ slot = "none" /\ phase = "idle" /\ client = FALSE
    /\ stream = "none" /\ cancelled = FALSE
    /\ clicks = 0 /\ ticks = 0

Emit(event) == events' = Append(events, event)

-----------------------------------------------------------------------------
(* The user.  Only the topmost box takes input; process and service control  *)
(* and process details have buttons that are never disabled.                 *)
UserActs ==
    /\ window = "open" /\ clicks < MaxClicks
    /\ clicks' = clicks + 1
    /\ UNCHANGED <<window, workerVars, stream, events, ticks>>

ClickConnect ==
    /\ UserActs /\ boxes = <<>> /\ "connect" \in buttons
    /\ status' = "Connecting"
    /\ buttons' = buttons \ {"connect"}
    /\ requests' = Append(requests, "connect")
    /\ UNCHANGED <<timers, boxes>>

ClickDisconnect ==
    /\ UserActs /\ boxes = <<>> /\ "session" \in buttons
    /\ timers' = FALSE
    /\ requests' = requests \o <<"stop", "disconnect">>
    /\ UNCHANGED <<status, buttons, boxes>>

ClickReconnect ==
    /\ UserActs /\ boxes = <<>> /\ "session" \in buttons
    /\ timers' = FALSE
    /\ status' = "Reconnecting"
    /\ requests' = requests \o <<"stop", "disconnect", "connect">>
    /\ UNCHANGED <<buttons, boxes>>

ClickStart ==
    /\ UserActs /\ boxes = <<>> /\ "start" \in buttons
    /\ buttons' = (buttons \ {"start"}) \cup {"stop"}
    /\ requests' = Append(requests, "start")
    /\ UNCHANGED <<status, timers, boxes>>

ClickStop ==
    /\ UserActs /\ boxes = <<>> /\ "stop" \in buttons
    /\ requests' = Append(requests, "stop")
    /\ UNCHANGED <<status, buttons, timers, boxes>>

\* Refresh buttons (with the session) and process details (always).
ClickRefresh ==
    /\ UserActs /\ boxes = <<>>
    /\ \E r \in {"call"} \cup (IF "session" \in buttons THEN {"pair"} ELSE {}) :
          requests' = Append(requests, r)
    /\ UNCHANGED <<status, buttons, timers, boxes>>

\* ConfirmProcessControl, ConfirmServiceControl: QMessageBox::question.
ClickControl ==
    /\ UserActs /\ boxes = <<>>
    /\ boxes' = Append(boxes, "confirm")
    /\ UNCHANGED <<status, buttons, timers, requests>>

\* CreateDiagnostic: QFileDialog::getSaveFileName.
ClickDiagnostic ==
    /\ UserActs /\ boxes = <<>> /\ "diagnostic" \in buttons
    /\ boxes' = Append(boxes, "save")
    /\ UNCHANGED <<status, buttons, timers, requests>>

\* An empty host, no log source, no process or service row selected: the
\* handler only shows a box.  What is selected is left out, so any click may
\* be refused this way.
Refused ==
    /\ UserActs /\ boxes = <<>>
    /\ boxes' = Append(boxes, "notice")
    /\ UNCHANGED <<status, buttons, timers, requests>>

Accept ==
    /\ UserActs /\ boxes # <<>>
    /\ boxes' = Front(boxes)
    /\ \/ /\ Last(boxes) = "confirm"
          /\ requests' = Append(requests, "pair")
          /\ UNCHANGED buttons
       \/ /\ Last(boxes) = "save"
          /\ buttons' = buttons \ {"diagnostic"}
          /\ requests' = Append(requests, "diagnostic")
    /\ UNCHANGED <<status, timers>>

\* Closing a message box, declining a question, cancelling a dialog.  The
\* handler the box had suspended goes on: a failed connect ends in
\* SetConnected(FALSE) only now.
Dismiss_ForgettingConnect ==
    /\ window = "open" /\ boxes # <<>>
    /\ boxes' = Front(boxes)
    /\ UNCHANGED <<status, buttons, timers, window, workerVars, stream, requests, events, bounds>>

Dismiss ==
    /\ window = "open" /\ boxes # <<>>
    /\ boxes' = Front(boxes)
    /\ IF Last(boxes) = "connect_failed"
       THEN SetConnected(FALSE) /\ timers' = FALSE
       ELSE UNCHANGED <<status, buttons, timers>>
    /\ UNCHANGED <<window, workerVars, stream, requests, events, bounds>>

\* The window is closed; ~MainWindow stops the timers and calls
\* DisconnectFromAgent with a BlockingQueuedConnection.
Close_WithoutDisconnect ==
    /\ window = "open" /\ boxes = <<>>
    /\ window' = "closing"
    /\ timers' = FALSE
    /\ UNCHANGED <<status, buttons, boxes, workerVars, stream, requests, events, bounds>>

Close ==
    /\ window = "open" /\ boxes = <<>>
    /\ window' = "closing"
    /\ timers' = FALSE
    /\ requests' = Append(requests, "disconnect")
    /\ UNCHANGED <<status, buttons, boxes, workerVars, stream, events, bounds>>

\* The blocking call has returned: quit() and wait(), the worker is deleted
\* (~RpcWorker finds nothing to stop).
Closed ==
    /\ window = "closing" /\ requests = <<>> /\ slot = "none"
    /\ window' = "gone"
    /\ UNCHANGED <<status, buttons, timers, boxes, requests, events, workerVars, stream, bounds>>

TimerExpires ==
    /\ window = "open" /\ timers /\ ticks < MaxTicks
    /\ ticks' = ticks + 1
    /\ requests' = Append(requests, "call")
    /\ UNCHANGED <<guiVars, events, workerVars, stream, clicks>>

-----------------------------------------------------------------------------
(* The window handles the event at the head of its queue, in its main loop   *)
(* or in the nested loop of a box.                                          *)
Handles(kind) ==
    /\ window = "open" /\ events # <<>>
    /\ Head(events).kind = kind
    /\ events' = Tail(events)
    /\ UNCHANGED <<window, workerVars, stream, bounds>>

HandleConnected ==
    /\ Handles("Connected")
    /\ SetConnected(TRUE)
    /\ timers' = TRUE
    /\ requests' = requests \o [i \in 1..RefreshBurst |-> "call"]
    /\ UNCHANGED boxes

HandleDisconnected ==
    /\ Handles("Disconnected")
    /\ SetConnected(FALSE)
    /\ timers' = FALSE
    /\ UNCHANGED <<boxes, requests>>

HandleLogStreamStopped ==
    /\ Handles("LogStreamStopped")
    /\ buttons' = (buttons \ {"stop", "start"})
                  \cup (IF status = "Connected" THEN {"start"} ELSE {})
    /\ UNCHANGED <<status, timers, boxes, requests>>

DiagnosticCompleted ==
    /\ Handles("DiagnosticReady")
    /\ buttons' = buttons \cup {"diagnostic"}
    /\ UNCHANGED <<status, timers, boxes, requests>>

\* HandleRpcError re-enables the diagnostic button for its own operations.
Reenabled(operation) == IF operation = "Diagnostic" THEN {"diagnostic"} ELSE {}

HandleConnectionLost_KeepingTimers ==
    /\ Handles("RpcError") /\ Head(events).lost
    /\ SetConnected(FALSE)
    /\ requests' = Append(requests, "stop")
    /\ boxes' = Append(boxes, "notice")
    /\ UNCHANGED timers

HandleConnectionLost ==
    /\ Handles("RpcError") /\ Head(events).lost
    /\ SetConnected(FALSE) /\ timers' = FALSE
    /\ requests' = Append(requests, "stop")
    /\ boxes' = Append(boxes, "notice")

HandleOperationFailed ==
    /\ Handles("RpcError") /\ ~Head(events).lost
    /\ buttons' = buttons \cup Reenabled(Head(events).operation)
    /\ boxes' = Append(boxes, IF Head(events).operation = "Connect"
                              THEN "connect_failed" ELSE "notice")
    /\ UNCHANGED <<status, timers, requests>>

-----------------------------------------------------------------------------
(* The worker takes the next request.  A slot that begins with StopLogStream *)
(* cancels the stream's context and joins its thread; a call without a       *)
(* client returns silently.                                                 *)
TakeRequest_WithoutCancel ==
    /\ slot = "none" /\ requests # <<>> /\ window # "gone"
    /\ requests' = Tail(requests)
    /\ LET r == Head(requests)
       IN \/ /\ r \in StopsStream
             /\ slot' = r /\ phase' = "joining"
          \/ /\ r \in Calls /\ client
             /\ slot' = r /\ phase' = "first"
          \/ /\ r \in Calls /\ ~client
             /\ UNCHANGED <<slot, phase>>
    /\ UNCHANGED <<guiVars, events, client, stream, cancelled, bounds>>

TakeRequest ==
    /\ slot = "none" /\ requests # <<>> /\ window # "gone"
    /\ requests' = Tail(requests)
    /\ LET r == Head(requests)
       IN \/ /\ r \in StopsStream
             /\ slot' = r /\ phase' = "joining"
             /\ cancelled' = (stream # "none")
          \/ /\ r \in Calls /\ client
             /\ slot' = r /\ phase' = "first"
             /\ UNCHANGED cancelled
          \/ /\ r \in Calls /\ ~client
             /\ UNCHANGED <<slot, phase, cancelled>>
    /\ UNCHANGED <<guiVars, events, client, stream, bounds>>

SlotReturns_KeepingPhase == slot' = "none" /\ UNCHANGED phase

SlotReturns == slot' = "none" /\ phase' = "idle"

\* The join at the end of StopLogStream, and the rest of the slot.
Joined == phase = "joining" /\ stream \in {"none", "ended"}

FinishStop ==
    /\ Joined /\ slot = "stop"
    /\ stream' = "none" /\ cancelled' = FALSE
    /\ SlotReturns
    /\ UNCHANGED <<guiVars, requests, events, client, bounds>>

FinishDisconnect ==
    /\ Joined /\ slot = "disconnect"
    /\ stream' = "none" /\ cancelled' = FALSE
    /\ client' = FALSE
    /\ Emit(Event("Disconnected"))
    /\ SlotReturns
    /\ UNCHANGED <<guiVars, requests, bounds>>

\* StartLogStream starts the stream thread, if there is a client.
StartLogStream ==
    /\ Joined /\ slot = "start"
    /\ stream' = IF client THEN "running" ELSE "none"
    /\ cancelled' = FALSE
    /\ SlotReturns
    /\ UNCHANGED <<guiVars, requests, events, client, bounds>>

ConnectToAgent ==
    /\ Joined /\ slot = "connect"
    /\ stream' = "none" /\ cancelled' = FALSE
    /\ client' = TRUE
    /\ phase' = "first"
    /\ UNCHANGED <<guiVars, requests, events, slot, bounds>>

InCall == phase \in {"first", "second"}

\* An RPC of the slot succeeds: the first of two leads to the second, the last
\* one to the slot's signal (the refreshes' data signals are left out).
CallSucceeds ==
    /\ InCall
    /\ \/ /\ phase = "first" /\ slot \in {"pair", "diagnostic"}
          /\ phase' = "second"
          /\ UNCHANGED <<slot, events>>
       \/ /\ slot \in {"call", "pair"}
          /\ slot = "pair" => phase = "second"
          /\ SlotReturns
          /\ UNCHANGED events
       \/ /\ slot = "connect"
          /\ Emit(Event("Connected"))
          /\ SlotReturns
       \/ /\ slot = "diagnostic" /\ phase = "second"
          /\ Emit(Event("DiagnosticReady"))
          /\ SlotReturns
    /\ UNCHANGED <<guiVars, requests, client, stream, cancelled, bounds>>

\* An RPC fails.  EmitRpcError drops the client when the status says the
\* connection is lost (UNAVAILABLE or DEADLINE_EXCEEDED); ConnectToAgent drops
\* it on every failure.  A local failure of a download is a failure not lost.
CallFails_Silently(lost) ==
    /\ InCall
    /\ client' = (client /\ ~lost /\ slot # "connect")
    /\ SlotReturns
    /\ UNCHANGED <<guiVars, requests, events, stream, cancelled, bounds>>

CallFails(lost) ==
    /\ InCall
    /\ client' = (client /\ ~lost /\ slot # "connect")
    /\ Emit(RpcError(CASE slot = "connect"    -> "Connect"
                       [] slot = "diagnostic" -> "Diagnostic"
                       [] OTHER               -> "Call", lost))
    /\ SlotReturns
    /\ UNCHANGED <<guiVars, requests, stream, cancelled, bounds>>

-----------------------------------------------------------------------------
(* The stream thread: StreamLog returns, by cancellation or with an error    *)
(* (a cancelled stream may still lose the race and end with one); the        *)
(* thread emits RpcError for an error and then LogStreamStopped.             *)
StreamCancelled ==
    /\ stream = "running" /\ cancelled
    /\ stream' = "ended"
    /\ Emit(Event("LogStreamStopped"))
    /\ UNCHANGED <<guiVars, requests, workerVars, bounds>>

StreamFails(lost) ==
    /\ stream = "running"
    /\ stream' = "reporting"
    /\ Emit(RpcError("StreamLog", lost))
    /\ UNCHANGED <<guiVars, requests, workerVars, bounds>>

StreamReported ==
    /\ stream = "reporting"
    /\ stream' = "ended"
    /\ Emit(Event("LogStreamStopped"))
    /\ UNCHANGED <<guiVars, requests, workerVars, bounds>>

Gone == window = "gone" /\ UNCHANGED vars

User ==
    \/ ClickConnect \/ ClickDisconnect \/ ClickReconnect
    \/ ClickStart \/ ClickStop \/ ClickRefresh \/ ClickControl \/ ClickDiagnostic
    \/ Refused
    \/ Accept \/ Dismiss \/ Close

Window ==
    \/ HandleConnected \/ HandleDisconnected \/ HandleLogStreamStopped
    \/ DiagnosticCompleted \/ HandleConnectionLost \/ HandleOperationFailed
    \/ Closed

Worker ==
    \/ TakeRequest \/ FinishStop \/ FinishDisconnect \/ StartLogStream \/ ConnectToAgent
    \/ CallSucceeds \/ \E lost \in BOOLEAN : CallFails(lost)

StreamThread == StreamCancelled \/ (\E lost \in BOOLEAN : StreamFails(lost)) \/ StreamReported

Next == User \/ TimerExpires \/ Window \/ Worker \/ StreamThread \/ Gone

Spec == Init /\ [][Next]_vars

(* The Qt event loops and the stream thread are scheduled; every RPC ends,   *)
(* because each has a deadline (EdgeScopeClient: 3 s, 30 s and 5 min) except *)
(* StreamLog, which ends once it is cancelled.  Nothing is asked of the user.*)
Fairness ==
    /\ WF_vars(Window)
    /\ WF_vars(Worker)
    /\ WF_vars(StreamCancelled)
    /\ WF_vars(StreamReported)

FairSpec == Spec /\ Fairness

-----------------------------------------------------------------------------
(* Every variable has its type.  The stream context is cancelled only while  *)
(* a slot is joining, and the worker's phase fits its slot.                  *)
TypeOK ==
    /\ status \in Statuses
    /\ buttons \subseteq Buttons
    /\ timers \in BOOLEAN
    /\ boxes \in Seq(Boxes)
    /\ window \in {"open", "closing", "gone"}
    /\ requests \in Seq(Requests)
    /\ events \in Seq(Events)
    /\ slot \in Requests \cup {"none"}
    /\ phase \in {"idle", "joining", "first", "second"}
    /\ (phase = "idle") <=> (slot = "none")
    /\ phase = "joining" => slot \in StopsStream
    /\ phase = "second" => slot \in {"pair", "diagnostic"}
    /\ client \in BOOLEAN
    /\ stream \in {"none", "running", "reporting", "ended"}
    /\ cancelled \in BOOLEAN
    /\ cancelled => phase = "joining"
    /\ clicks \in 0..MaxClicks /\ ticks \in 0..MaxTicks

(* Both queues are empty, no slot runs, no box is open: what the window shows *)
(* now it shows until the user or a timer acts.                             *)
Quiet == window = "open" /\ boxes = <<>> /\ requests = <<>> /\ events = <<>> /\ slot = "none"

StreamActive == stream \in {"running", "reporting"}

(* Whatever the user clicked while connections came and went, and in which    *)
(* order boxes were closed, a settled window that says Connected has a worker *)
(* with a client (HandleRpcError, SetConnected against client_.reset()).     *)
ConnectedMeansClient == Quiet /\ status = "Connected" => client

(* A settled window polls the Agent exactly when it says Connected, and then  *)
(* offers a diagnostic, and a log stream when none is running: every path     *)
(* that stops the timers also ends the connection on the label, no late      *)
(* handler undoes what HandleConnected started, and no button stays disabled *)
(* because a slot returned silently or its event came before a reconnect.    *)
ControlsMatchTheLabel ==
    Quiet =>
        /\ timers <=> status = "Connected"
        /\ status = "Connected" =>
              "diagnostic" \in buttons /\ (StreamActive \/ "start" \in buttons)

(* architecture.md, Concurrency: closing the window cancels streaming, joins  *)
(* the thread, stops the QThread and then destroys the channel.              *)
ClosedCleanly == window = "gone" => stream = "none" /\ ~client

(* README.md:35, a log stream can be stopped actively: a settled window with  *)
(* a stream running has its Stop button enabled.                             *)
RunningStreamCanBeStopped == Quiet /\ StreamActive => "stop" \in buttons

(* A connection attempt is resolved: the label leaves "Connecting..." and     *)
(* "Reconnecting...", or a box waits for the user, or the window was closed. *)
ConnectingResolves ==
    (status \in {"Connecting", "Reconnecting"}) ~>
    (status \in {"Connected", "Disconnected"} \/ boxes # <<>> \/ window # "open")

(* The destructor's blocking call returns, however much was queued before it  *)
(* and whatever the stream is doing.                                        *)
ClosingTerminates == (window = "closing") ~> (window = "gone")


=============================================================================
