------------------------- MODULE ClientSessionProofs -------------------------
(***************************************************************************)
(* Proofs about ClientSession: whatever the user clicks, whichever calls fail *)
(* and however long the queues are, a settled window tells the truth, and a  *)
(* closed one has left nothing behind.                                      *)
(***************************************************************************)
EXTENDS ClientSession, SequenceTheorems, TLAPS

(* Some element of a sequence is in a set, and one that is in `down' is  *)
(* followed by none that is in `up'.                                        *)
Has(s, set)          == \E i \in 1..Len(s) : s[i] \in set
EndsIn(s, down, up)  == \E i \in 1..Len(s) : s[i] \in down /\ \A j \in 1..Len(s) : j > i => s[j] \notin up

OfKind(kind)         == {e \in Events : e.kind = kind}
FailureOf(operation) == {e \in OfKind("RpcError") : e.operation = operation}

(* The events whose handling ends with the label Disconnected, at once or when *)
(* the box it opens is dismissed.                                           *)
Rises == OfKind("Connected")
Falls == OfKind("Disconnected") \cup FailureOf("Connect") \cup {e \in OfKind("RpcError") : e.lost}

FailureShown == Has(boxes, {"connect_failed"})
Falling      == Has(events, Falls) \/ FailureShown

(* An RPC is made only with a client.                                       *)
CallsHaveClient == InCall => client /\ slot \in Calls \cup {"connect"}

(* Once the worker has no client, the label has fallen or will fall, and      *)
(* nothing that is already queued raises it again after that.                *)
LabelFollowsClient ==
    ~client =>
        \/ ~Has(events, Rises) /\ (status = "Connected" => FailureShown)
        \/ EndsIn(events, Falls, Rises)

(* The timers run only under the label Connected, and are stopped under it    *)
(* only while a disconnection is on its way.                                 *)
TimersFollowLabel ==
    /\ timers => status = "Connected" /\ "connect" \notin buttons
    /\ status = "Connected" /\ ~timers /\ window = "open" =>
          Has(requests, {"disconnect"}) \/ slot = "disconnect" \/ Has(events, OfKind("Disconnected"))

(* A disabled button is waiting for an answer, or for the label to fall.     *)
DiagnosticReturns ==
    status = "Connected" /\ "diagnostic" \notin buttons =>
        \/ Has(requests, {"diagnostic"}) \/ slot = "diagnostic"
        \/ Has(events, OfKind("DiagnosticReady")) \/ Has(events, FailureOf("Diagnostic"))
        \/ Has(events, Rises) \/ Falling

StartReturns ==
    status = "Connected" /\ "start" \notin buttons =>
        \/ Has(requests, {"start"}) \/ slot = "start"
        \/ StreamActive \/ Has(events, OfKind("LogStreamStopped"))
        \/ Has(events, Rises) \/ Falling

(* Once the destructor has asked for it, disconnecting is the last thing the  *)
(* worker does.                                                             *)
Settled == requests = <<>> /\ slot = "none" /\ stream = "none" /\ ~client
DisconnectIsLast ==
    /\ window = "closing" =>
          \/ requests # <<>> /\ Last(requests) = "disconnect"
          \/ requests = <<>> /\ slot = "disconnect"
          \/ Settled
    /\ window = "gone" => Settled

IInv ==
    /\ TypeOK /\ CallsHaveClient /\ LabelFollowsClient /\ TimersFollowLabel
    /\ DiagnosticReturns /\ StartReturns /\ DisconnectIsLast

-----------------------------------------------------------------------------
LEMMA Appending ==
    ASSUME NEW S, NEW s \in Seq(S), NEW e \in S
    PROVE  /\ Append(s, e) \in Seq(S)
           /\ Len(Append(s, e)) = Len(s) + 1 /\ Len(s) \in Nat
           /\ Append(s, e)[Len(s) + 1] = e
           /\ \A i \in 1..Len(s) : Append(s, e)[i] = s[i]
<1>1. Len(s) \in Nat
  BY LenProperties
<1> QED
  BY <1>1, AppendProperties

LEMMA Concatenating ==
    ASSUME NEW S, NEW s \in Seq(S), NEW t \in Seq(S)
    PROVE  /\ s \o t \in Seq(S)
           /\ Len(s \o t) = Len(s) + Len(t) /\ Len(s) \in Nat /\ Len(t) \in Nat
           /\ \A i \in 1..Len(s) : (s \o t)[i] = s[i]
           /\ \A i \in 1..Len(t) : (s \o t)[Len(s) + i] = t[i]
<1>1. /\ s \o t \in Seq(S)
      /\ Len(s \o t) = Len(s) + Len(t) /\ Len(s) \in Nat /\ Len(t) \in Nat
      /\ \A i \in 1..(Len(s) + Len(t)) :
            (s \o t)[i] = IF i <= Len(s) THEN s[i] ELSE t[i - Len(s)]
  BY ConcatProperties, LenProperties
<1>2. \A i \in 1..Len(t) : Len(s) + i \in 1..(Len(s) + Len(t)) /\ ~(Len(s) + i <= Len(s)) /\ (Len(s) + i) - Len(s) = i
  BY <1>1
<1>3. \A i \in 1..Len(s) : i \in 1..(Len(s) + Len(t)) /\ i <= Len(s)
  BY <1>1
<1> QED
  BY <1>1, <1>2, <1>3

LEMMA Removing ==
    ASSUME NEW S, NEW s \in Seq(S), s # <<>>
    PROVE  /\ Len(s) \in Nat /\ Len(s) >= 1 /\ Head(s) = s[1] /\ Head(s) \in S
           /\ Tail(s) \in Seq(S) /\ Len(Tail(s)) = Len(s) - 1
           /\ \A i \in 1..(Len(s) - 1) : Tail(s)[i] = s[i + 1]
  BY HeadTailProperties, LenProperties, EmptySeq

LEMMA Unstacking ==
    ASSUME NEW S, NEW s \in Seq(S), s # <<>>
    PROVE  /\ Len(s) \in Nat /\ Len(s) >= 1 /\ Last(s) = s[Len(s)] /\ Last(s) \in S
           /\ Front(s) \in Seq(S) /\ Len(Front(s)) = Len(s) - 1
           /\ \A i \in 1..(Len(s) - 1) : Front(s)[i] = s[i]
<1> DEFINE n == Len(s)
           f == SubSeq(s, 1, n - 1)
<1>1. n \in Nat /\ n >= 1
  BY LenProperties, EmptySeq
<1>2. \A i \in 1..n : s[i] \in S
  BY ElementOfSeq
<1>3. \A m, k \in Int : (\A i \in m..k : s[i] \in S) =>
          /\ SubSeq(s, m, k) \in Seq(S)
          /\ Len(SubSeq(s, m, k)) = IF m <= k THEN k - m + 1 ELSE 0
          /\ \A i \in 1..(k - m + 1) : SubSeq(s, m, k)[i] = s[m + i - 1]
  BY SubSeqProperties
<1>4. f = Front(s) /\ s[n] = Last(s)
  BY DEF Front, Last
<1> HIDE DEF n
<1>5. 1 \in Int /\ n - 1 \in Int /\ \A i \in 1..(n - 1) : s[i] \in S
  BY <1>1, <1>2
<1>6. /\ f \in Seq(S)
      /\ Len(f) = IF 1 <= n - 1 THEN (n - 1) - 1 + 1 ELSE 0
      /\ \A i \in 1..((n - 1) - 1 + 1) : f[i] = s[1 + i - 1]
  BY <1>3, <1>5, Zenon
<1> HIDE DEF f
<1>7. Len(f) = n - 1
  BY <1>1, <1>6
<1>8. \A i \in 1..(n - 1) : f[i] = s[i]
  <2> SUFFICES ASSUME NEW i \in 1..(n - 1)
               PROVE  f[i] = s[i]
    OBVIOUS
  <2>1. i \in 1..((n - 1) - 1 + 1) /\ 1 + i - 1 = i
    BY <1>1
  <2> QED
    BY <1>6, <2>1
<1>9. s[n] \in S
  BY <1>1, <1>2
<1> QED
  BY <1>1, <1>4, <1>6, <1>7, <1>8, <1>9 DEF n

LEMMA HasAppend ==
    ASSUME NEW S, NEW s \in Seq(S), NEW e \in S, NEW E
    PROVE  /\ Has(s, E) => Has(Append(s, e), E)
           /\ e \in E => Has(Append(s, e), E)
           /\ Has(Append(s, e), E) => Has(s, E) \/ e \in E
<1> DEFINE t == Append(s, e)
<1>1. /\ Len(t) = Len(s) + 1 /\ Len(s) \in Nat
      /\ t[Len(s) + 1] = e /\ \A i \in 1..Len(s) : t[i] = s[i]
  BY Appending
<1> HIDE DEF t
<1>2. Has(s, E) => Has(t, E)
  BY <1>1 DEF Has
<1>3. e \in E => Has(t, E)
  BY <1>1 DEF Has
<1>4. ASSUME NEW i \in 1..Len(t), t[i] \in E
      PROVE  Has(s, E) \/ e \in E
  BY <1>1, <1>4 DEF Has
<1> QED
  BY <1>2, <1>3, <1>4 DEF Has, t

LEMMA HasConcat ==
    ASSUME NEW S, NEW s \in Seq(S), NEW t \in Seq(S), NEW E
    PROVE  /\ Has(s, E) => Has(s \o t, E)
           /\ Has(t, E) => Has(s \o t, E)
<1> DEFINE u == s \o t
<1>1. /\ Len(u) = Len(s) + Len(t) /\ Len(s) \in Nat /\ Len(t) \in Nat
      /\ \A i \in 1..Len(s) : u[i] = s[i]
      /\ \A i \in 1..Len(t) : u[Len(s) + i] = t[i]
  BY Concatenating
<1> HIDE DEF u
<1>2. Has(s, E) => Has(u, E)
  BY <1>1 DEF Has
<1>3. ASSUME NEW i \in 1..Len(t), t[i] \in E
      PROVE  Has(u, E)
  <2>1. Len(s) + i \in 1..Len(u) /\ u[Len(s) + i] \in E
    BY <1>1, <1>3
  <2> QED
    BY <2>1 DEF Has
<1> QED
  BY <1>2, <1>3 DEF Has, u

LEMMA HasTail ==
    ASSUME NEW S, NEW s \in Seq(S), s # <<>>, NEW E
    PROVE  /\ Has(s, E) => Has(Tail(s), E) \/ Head(s) \in E
           /\ Has(Tail(s), E) => Has(s, E)
<1> DEFINE t == Tail(s)
<1>1. /\ Len(s) \in Nat /\ Len(s) >= 1 /\ Head(s) = s[1] /\ Len(t) = Len(s) - 1
      /\ \A i \in 1..(Len(s) - 1) : t[i] = s[i + 1]
  BY Removing
<1> HIDE DEF t
<1>2. ASSUME NEW i \in 1..Len(s), s[i] \in E
      PROVE  Has(t, E) \/ Head(s) \in E
  <2>1. CASE i = 1
    BY <2>1, <1>1, <1>2
  <2>2. CASE i # 1
    <3>1. i - 1 \in 1..Len(t) /\ t[i - 1] = s[i]
      BY <2>2, <1>1
    <3> QED
      BY <3>1, <1>2 DEF Has
  <2> QED
    BY <2>1, <2>2
<1>3. ASSUME NEW i \in 1..Len(t), t[i] \in E
      PROVE  Has(s, E)
  <2>1. i + 1 \in 1..Len(s) /\ s[i + 1] \in E
    BY <1>1, <1>3
  <2> QED
    BY <2>1 DEF Has
<1> QED
  BY <1>2, <1>3 DEF Has, t

LEMMA HasFront ==
    ASSUME NEW S, NEW s \in Seq(S), s # <<>>, NEW E
    PROVE  Has(s, E) => Has(Front(s), E) \/ Last(s) \in E
<1> DEFINE f == Front(s)
<1>1. /\ Len(s) \in Nat /\ Len(s) >= 1 /\ Last(s) = s[Len(s)] /\ Len(f) = Len(s) - 1
      /\ \A i \in 1..(Len(s) - 1) : f[i] = s[i]
  BY Unstacking
<1> HIDE DEF f
<1>2. ASSUME NEW i \in 1..Len(s), s[i] \in E
      PROVE  Has(f, E) \/ Last(s) \in E
  <2>1. CASE i = Len(s)
    BY <2>1, <1>1, <1>2
  <2>2. CASE i # Len(s)
    <3>1. i \in 1..Len(f) /\ f[i] = s[i]
      BY <2>2, <1>1
    <3> QED
      BY <3>1, <1>2 DEF Has
  <2> QED
    BY <2>1, <2>2
<1> QED
  BY <1>2 DEF Has, f

LEMMA EndsAppend ==
    ASSUME NEW S, NEW s \in Seq(S), NEW e \in S, NEW D, NEW U
    PROVE  /\ EndsIn(s, D, U) /\ e \notin U => EndsIn(Append(s, e), D, U)
           /\ e \in D => EndsIn(Append(s, e), D, U)
<1> DEFINE t == Append(s, e)
<1>1. /\ Len(t) = Len(s) + 1 /\ Len(s) \in Nat
      /\ t[Len(s) + 1] = e /\ \A i \in 1..Len(s) : t[i] = s[i]
  BY Appending
<1> HIDE DEF t
<1>2. ASSUME NEW i \in 1..Len(s), s[i] \in D, \A j \in 1..Len(s) : j > i => s[j] \notin U,
             e \notin U
      PROVE  EndsIn(t, D, U)
  <2>1. i \in 1..Len(t) /\ t[i] \in D
    BY <1>1, <1>2
  <2>2. ASSUME NEW j \in 1..Len(t), j > i
        PROVE  t[j] \notin U
    <3>1. CASE j = Len(s) + 1
      BY <3>1, <1>1, <1>2
    <3>2. CASE j # Len(s) + 1
      <4>1. j \in 1..Len(s)
        BY <3>2, <1>1
      <4> QED
        BY <4>1, <2>2, <1>1, <1>2
    <3> QED
      BY <3>1, <3>2
  <2> QED
    BY <2>1, <2>2 DEF EndsIn
<1>3. ASSUME e \in D
      PROVE  EndsIn(t, D, U)
  <2>1. Len(s) + 1 \in 1..Len(t) /\ t[Len(s) + 1] \in D /\ \A j \in 1..Len(t) : ~(j > Len(s) + 1)
    BY <1>1, <1>3
  <2> QED
    BY <2>1 DEF EndsIn
<1> QED
  BY <1>2, <1>3 DEF EndsIn, t

LEMMA EndsTail ==
    ASSUME NEW S, NEW s \in Seq(S), s # <<>>, NEW D, NEW U
    PROVE  EndsIn(s, D, U) => EndsIn(Tail(s), D, U) \/ (Head(s) \in D /\ ~Has(Tail(s), U))
<1> DEFINE t == Tail(s)
<1>1. /\ Len(s) \in Nat /\ Len(s) >= 1 /\ Head(s) = s[1] /\ Len(t) = Len(s) - 1
      /\ \A i \in 1..(Len(s) - 1) : t[i] = s[i + 1]
  BY Removing
<1> HIDE DEF t
<1>2. ASSUME NEW i \in 1..Len(s), s[i] \in D, \A j \in 1..Len(s) : j > i => s[j] \notin U
      PROVE  EndsIn(t, D, U) \/ (Head(s) \in D /\ ~Has(t, U))
  <2>1. \A j \in 1..Len(t) : j + 1 \in 1..Len(s) /\ t[j] = s[j + 1]
    BY <1>1
  <2>2. CASE i = 1
    <3>1. \A j \in 1..Len(t) : j + 1 > i
      BY <2>2, <1>1
    <3> QED
      BY <3>1, <2>1, <2>2, <1>1, <1>2 DEF Has
  <2>3. CASE i # 1
    <3>1. i - 1 \in 1..Len(t) /\ t[i - 1] = s[i] /\ \A j \in 1..Len(t) : j > i - 1 => j + 1 > i
      BY <2>3, <1>1
    <3>2. \A j \in 1..Len(t) : j > i - 1 => t[j] \notin U
      BY <3>1, <2>1, <1>2
    <3> QED
      BY <3>1, <3>2, <1>2 DEF EndsIn
  <2> QED
    BY <2>2, <2>3
<1> QED
  BY <1>2 DEF EndsIn, t

-----------------------------------------------------------------------------
LEMMA EventTypes ==
    /\ \A k \in {"Connected", "Disconnected", "LogStreamStopped", "DiagnosticReady"} :
          Event(k) \in Events /\ Event(k).kind = k
    /\ \A o \in {"Connect", "Call", "Diagnostic", "StreamLog"}, l \in BOOLEAN :
          /\ RpcError(o, l) \in Events /\ RpcError(o, l).kind = "RpcError"
          /\ RpcError(o, l).operation = o /\ RpcError(o, l).lost = l
<1> DEFINE A == {Event(k) : k \in {"Connected", "Disconnected", "LogStreamStopped", "DiagnosticReady"}}
           B == {RpcError(o, l) : o \in {"Connect", "Call", "Diagnostic", "StreamLog"}, l \in BOOLEAN}
<1>1. Events = A \cup B
  BY DEF Events
<1>2. ASSUME NEW k \in {"Connected", "Disconnected", "LogStreamStopped", "DiagnosticReady"}
      PROVE  Event(k) \in A
  OBVIOUS
<1>3. ASSUME NEW o \in {"Connect", "Call", "Diagnostic", "StreamLog"}, NEW l \in BOOLEAN
      PROVE  RpcError(o, l) \in B
  OBVIOUS
<1> HIDE DEF A, B
<1>4. \A k : Event(k).kind = k
  BY DEF Event
<1>5. \A o, l : RpcError(o, l).kind = "RpcError" /\ RpcError(o, l).operation = o
  BY DEF RpcError
<1>6. \A o : \A l \in BOOLEAN : RpcError(o, l).lost = l
  BY DEF RpcError
<1> QED
  BY <1>1, <1>2, <1>3, <1>4, <1>5, <1>6

(* What the worker or the stream thread adds to the window's queue.          *)
LEMMA Emitting ==
    ASSUME TypeOK, NEW e \in Events, Emit(e)
    PROVE  /\ events' \in Seq(Events)
           /\ \A E : /\ Has(events, E) => Has(events', E)
                     /\ e \in E => Has(events', E)
                     /\ Has(events', E) => Has(events, E) \/ e \in E
           /\ EndsIn(events, Falls, Rises) /\ e \notin Rises => EndsIn(events', Falls, Rises)
           /\ e \in Falls => EndsIn(events', Falls, Rises)
<1>1. events \in Seq(Events) /\ events' = Append(events, e)
  BY DEF TypeOK, Emit
<1> QED
  BY <1>1, Appending, HasAppend, EndsAppend

(* The window takes the event at the head of its queue.                      *)
LEMMA Handling ==
    ASSUME TypeOK, NEW k, Handles(k)
    PROVE  /\ events' \in Seq(Events) /\ Head(events) \in Events /\ Head(events).kind = k
           /\ \A E : /\ Has(events, E) => Has(events', E) \/ Head(events) \in E
                     /\ Has(events', E) => Has(events, E)
           /\ EndsIn(events, Falls, Rises) =>
                  EndsIn(events', Falls, Rises) \/ (Head(events) \in Falls /\ ~Has(events', Rises))
<1>1. events \in Seq(Events) /\ events # <<>> /\ events' = Tail(events) /\ Head(events).kind = k
  BY DEF TypeOK, Handles
<1> QED
  BY <1>1, Removing, HasTail, EndsTail

(* A request joins the worker's queue; several do.                           *)
LEMMA Requesting ==
    ASSUME TypeOK, NEW r \in Requests, requests' = Append(requests, r)
    PROVE  /\ requests' \in Seq(Requests) /\ requests' # <<>> /\ Last(requests') = r
           /\ \A E : /\ Has(requests, E) => Has(requests', E)
                     /\ r \in E => Has(requests', E)
<1>1. requests \in Seq(Requests)
  BY DEF TypeOK
<1>2. requests' \in Seq(Requests) /\ requests' # <<>> /\ requests'[Len(requests')] = r
  BY <1>1, AppendProperties
<1>3. Last(requests') = r
  BY <1>2 DEF Last
<1> QED
  BY <1>1, <1>2, <1>3, HasAppend

LEMMA RequestingMore ==
    ASSUME TypeOK, NEW t \in Seq(Requests), requests' = requests \o t
    PROVE  /\ requests' \in Seq(Requests)
           /\ \A E : /\ Has(requests, E) => Has(requests', E)
                     /\ Has(t, E) => Has(requests', E)
<1>1. requests \in Seq(Requests)
  BY DEF TypeOK
<1> QED
  BY <1>1, Concatenating, HasConcat

(* A box opens; the topmost one closes.                                      *)
LEMMA Opening ==
    ASSUME TypeOK, NEW b \in Boxes, boxes' = Append(boxes, b)
    PROVE  /\ boxes' \in Seq(Boxes)
           /\ FailureShown => FailureShown'
           /\ b = "connect_failed" => FailureShown'
<1>1. boxes \in Seq(Boxes)
  BY DEF TypeOK
<1> QED
  BY <1>1, Appending, HasAppend DEF FailureShown

LEMMA Closing ==
    ASSUME TypeOK, boxes # <<>>, boxes' = Front(boxes)
    PROVE  /\ boxes' \in Seq(Boxes) /\ Last(boxes) \in Boxes
           /\ FailureShown => FailureShown' \/ Last(boxes) = "connect_failed"
<1>1. boxes \in Seq(Boxes)
  BY DEF TypeOK
<1> QED
  BY <1>1, Unstacking, HasFront DEF FailureShown

LEMMA TypeOfInit == Init => TypeOK
<1>1. <<>> \in Seq(Requests) /\ <<>> \in Seq(Events) /\ <<>> \in Seq(Boxes)
  BY EmptySeq
<1>2. 0 \in 0..MaxClicks /\ 0 \in 0..MaxTicks
  BY BoundsAssumption DEF BoundsAssumption
<1> QED
  BY <1>1, <1>2 DEF Init, TypeOK, ConnectedButtons, Statuses, Buttons

LEMMA RequestTypes ==
    /\ {"connect", "disconnect", "start", "stop", "call", "pair", "diagnostic"} = Requests
    /\ <<"stop", "disconnect">> \in Seq(Requests)
    /\ <<"stop", "disconnect", "connect">> \in Seq(Requests)
    /\ [i \in 1..RefreshBurst |-> "call"] \in Seq(Requests)
<1>1. {"connect", "disconnect", "start", "stop", "call", "pair", "diagnostic"} = Requests
  BY DEF Requests, StopsStream, Calls
<1>2. [i \in 1..RefreshBurst |-> "call"] \in Seq(Requests)
  BY <1>1, BoundsAssumption DEF BoundsAssumption
<1> QED
  BY <1>1, <1>2

-----------------------------------------------------------------------------
(* Every action keeps the types.                                            *)
LEMMA UserTypes == ASSUME TypeOK, User PROVE TypeOK'
<1> USE DEF UserActs, guiVars, workerVars, bounds
<1>1. clicks < MaxClicks => clicks + 1 \in 0..MaxClicks
  BY BoundsAssumption DEF TypeOK, BoundsAssumption
<1>2. \A b \in Buttons : buttons \cup {b} \subseteq Buttons
  BY DEF TypeOK
<1>3. CASE ClickConnect
  <2>1. requests' \in Seq(Requests)
    BY <1>3, Requesting, RequestTypes DEF ClickConnect
  <2> QED
    BY <1>1, <1>3, <2>1 DEF ClickConnect, TypeOK, Statuses
<1>4. CASE ClickDisconnect
  <2>1. requests' \in Seq(Requests)
    BY <1>4, RequestingMore, RequestTypes DEF ClickDisconnect
  <2> QED
    BY <1>1, <1>4, <2>1 DEF ClickDisconnect, TypeOK
<1>5. CASE ClickReconnect
  <2>1. requests' \in Seq(Requests)
    BY <1>5, RequestingMore, RequestTypes DEF ClickReconnect
  <2> QED
    BY <1>1, <1>5, <2>1 DEF ClickReconnect, TypeOK, Statuses
<1>6. CASE ClickStart
  <2>1. requests' \in Seq(Requests)
    BY <1>6, Requesting, RequestTypes DEF ClickStart
  <2>2. buttons' \subseteq Buttons
    BY <1>6 DEF ClickStart, TypeOK, Buttons
  <2> QED
    BY <1>1, <1>6, <2>1, <2>2 DEF ClickStart, TypeOK
<1>7. CASE ClickStop
  <2>1. requests' \in Seq(Requests)
    BY <1>7, Requesting, RequestTypes DEF ClickStop
  <2> QED
    BY <1>1, <1>7, <2>1 DEF ClickStop, TypeOK
<1>8. CASE ClickRefresh
  <2>1. PICK r \in {"call", "pair"} : requests' = Append(requests, r)
    BY <1>8 DEF ClickRefresh
  <2>2. requests' \in Seq(Requests)
    BY <2>1, Requesting, RequestTypes
  <2> QED
    BY <1>1, <1>8, <2>2 DEF ClickRefresh, TypeOK
<1>9. CASE ClickControl
  <2>1. boxes' \in Seq(Boxes)
    BY <1>9, Opening DEF ClickControl, Boxes
  <2> QED
    BY <1>1, <1>9, <2>1 DEF ClickControl, TypeOK
<1>10. CASE ClickDiagnostic
  <2>1. boxes' \in Seq(Boxes)
    BY <1>10, Opening DEF ClickDiagnostic, Boxes
  <2> QED
    BY <1>1, <1>10, <2>1 DEF ClickDiagnostic, TypeOK
<1>11. CASE Refused
  <2>1. boxes' \in Seq(Boxes)
    BY <1>11, Opening DEF Refused, Boxes
  <2> QED
    BY <1>1, <1>11, <2>1 DEF Refused, TypeOK
<1>12. CASE Accept
  <2>1. boxes' \in Seq(Boxes)
    BY <1>12, Closing DEF Accept
  <2>2. requests' \in Seq(Requests)
    BY <1>12, Requesting, RequestTypes DEF Accept
  <2>3. buttons' \subseteq Buttons
    BY <1>12 DEF Accept, TypeOK
  <2> QED
    BY <1>1, <1>12, <2>1, <2>2, <2>3 DEF Accept, TypeOK
<1>13. CASE Dismiss
  <2>1. boxes' \in Seq(Boxes)
    BY <1>13, Closing DEF Dismiss
  <2>2. status' \in Statuses /\ buttons' \subseteq Buttons /\ timers' \in BOOLEAN
    BY <1>13 DEF Dismiss, SetConnected, ConnectedButtons, TypeOK, Statuses, Buttons
  <2> QED
    BY <1>13, <2>1, <2>2 DEF Dismiss, TypeOK
<1>14. CASE Close
  <2>1. requests' \in Seq(Requests)
    BY <1>14, Requesting, RequestTypes DEF Close
  <2> QED
    BY <1>14, <2>1 DEF Close, TypeOK
<1> QED
  BY <1>3, <1>4, <1>5, <1>6, <1>7, <1>8, <1>9, <1>10, <1>11, <1>12, <1>13, <1>14 DEF User

LEMMA WindowTypes == ASSUME TypeOK, Window \/ TimerExpires PROVE TypeOK'
<1> USE DEF guiVars, workerVars, bounds
<1>0. \A k : Handles(k) => events' \in Seq(Events) /\ UNCHANGED <<window, workerVars, stream, bounds>>
  BY Handling DEF Handles
<1>1. /\ SetConnected(TRUE) => status' \in Statuses /\ buttons' \subseteq Buttons
      /\ SetConnected(FALSE) => status' \in Statuses /\ buttons' \subseteq Buttons
  BY DEF SetConnected, ConnectedButtons, Statuses, Buttons
<1>2. CASE HandleConnected
  <2>1. requests' \in Seq(Requests)
    BY <1>2, RequestingMore, RequestTypes DEF HandleConnected
  <2> QED
    BY <1>0, <1>1, <1>2, <2>1 DEF HandleConnected, TypeOK
<1>3. CASE HandleDisconnected
  BY <1>0, <1>1, <1>3 DEF HandleDisconnected, TypeOK
<1>4. CASE HandleLogStreamStopped
  <2>1. buttons' \subseteq Buttons
    BY <1>4 DEF HandleLogStreamStopped, TypeOK, Buttons
  <2> QED
    BY <1>0, <1>4, <2>1 DEF HandleLogStreamStopped, TypeOK
<1>5. CASE DiagnosticCompleted
  <2>1. buttons' \subseteq Buttons
    BY <1>5 DEF DiagnosticCompleted, TypeOK, Buttons
  <2> QED
    BY <1>0, <1>5, <2>1 DEF DiagnosticCompleted, TypeOK
<1>6. CASE HandleConnectionLost
  <2>1. requests' \in Seq(Requests)
    BY <1>6, Requesting, RequestTypes DEF HandleConnectionLost
  <2>2. boxes' \in Seq(Boxes)
    BY <1>6, Opening DEF HandleConnectionLost, Boxes
  <2> QED
    BY <1>0, <1>1, <1>6, <2>1, <2>2 DEF HandleConnectionLost, TypeOK
<1>7. CASE HandleOperationFailed
  <2>1. PICK b \in Boxes : boxes' = Append(boxes, b)
    BY <1>7 DEF HandleOperationFailed, Boxes
  <2>2. boxes' \in Seq(Boxes)
    BY <2>1, Opening
  <2>3. buttons' \subseteq Buttons
    BY <1>7 DEF HandleOperationFailed, Reenabled, TypeOK, Buttons
  <2> QED
    BY <1>0, <1>7, <2>2, <2>3 DEF HandleOperationFailed, TypeOK
<1>8. CASE Closed
  BY <1>8 DEF Closed, TypeOK
<1>9. CASE TimerExpires
  <2>1. requests' \in Seq(Requests)
    BY <1>9, Requesting, RequestTypes DEF TimerExpires
  <2>2. ticks' \in 0..MaxTicks
    BY <1>9, BoundsAssumption DEF TimerExpires, TypeOK, BoundsAssumption
  <2> QED
    BY <1>9, <2>1, <2>2 DEF TimerExpires, TypeOK
<1> QED
  BY <1>2, <1>3, <1>4, <1>5, <1>6, <1>7, <1>8, <1>9 DEF Window

LEMMA WorkerTypes == ASSUME TypeOK, Worker PROVE TypeOK'
<1> USE DEF guiVars, workerVars, bounds, SlotReturns
<1>1. \A e \in Events : Emit(e) => events' \in Seq(Events)
  BY Emitting
<1>2. CASE TakeRequest
  <2>1. requests' \in Seq(Requests) /\ Head(requests) \in Requests
    BY <1>2, Removing DEF TakeRequest, TypeOK
  <2>2. /\ slot' \in Requests \cup {"none"} /\ phase' \in {"idle", "joining", "first", "second"}
        /\ (phase' = "idle") <=> (slot' = "none")
        /\ phase' = "joining" => slot' \in StopsStream
        /\ phase' = "second" => slot' \in {"pair", "diagnostic"}
        /\ cancelled' \in BOOLEAN /\ cancelled' => phase' = "joining"
    BY <1>2, <2>1 DEF TakeRequest, TypeOK, Requests, StopsStream, Calls
  <2> QED
    BY <1>2, <2>1, <2>2 DEF TakeRequest, TypeOK
<1>3. CASE FinishStop
  BY <1>3 DEF FinishStop, TypeOK
<1>4. CASE FinishDisconnect
  <2>1. events' \in Seq(Events)
    BY <1>1, <1>4, EventTypes DEF FinishDisconnect
  <2> QED
    BY <1>4, <2>1 DEF FinishDisconnect, TypeOK
<1>5. CASE StartLogStream
  BY <1>5 DEF StartLogStream, TypeOK
<1>6. CASE ConnectToAgent
  BY <1>6 DEF ConnectToAgent, TypeOK
<1>7. CASE CallSucceeds
  <2>1. events' \in Seq(Events)
    BY <1>1, <1>7, EventTypes DEF CallSucceeds, TypeOK
  <2>2. cancelled = FALSE
    BY <1>7 DEF CallSucceeds, InCall, TypeOK
  <2>3. /\ slot' \in Requests \cup {"none"} /\ phase' \in {"idle", "joining", "first", "second"}
        /\ (phase' = "idle") <=> (slot' = "none")
        /\ phase' = "joining" => slot' \in StopsStream
        /\ phase' = "second" => slot' \in {"pair", "diagnostic"}
    BY <1>7 DEF CallSucceeds, TypeOK
  <2> QED
    BY <1>7, <2>1, <2>2, <2>3 DEF CallSucceeds, TypeOK
<1>8. ASSUME NEW lost \in BOOLEAN, CallFails(lost)
      PROVE  TypeOK'
  <2>1. PICK o \in {"Connect", "Call", "Diagnostic", "StreamLog"} : Emit(RpcError(o, lost))
    BY <1>8 DEF CallFails
  <2>2. events' \in Seq(Events)
    BY <1>1, <2>1, EventTypes
  <2>3. cancelled = FALSE
    BY <1>8 DEF CallFails, InCall, TypeOK
  <2> QED
    BY <1>8, <2>2, <2>3 DEF CallFails, TypeOK
<1> QED
  BY <1>2, <1>3, <1>4, <1>5, <1>6, <1>7, <1>8 DEF Worker

LEMMA StreamTypes == ASSUME TypeOK, StreamThread PROVE TypeOK'
<1> USE DEF guiVars, workerVars, bounds
<1>1. \A e \in Events : Emit(e) => events' \in Seq(Events)
  BY Emitting
<1>2. CASE StreamCancelled
  <2>1. events' \in Seq(Events)
    BY <1>1, <1>2, EventTypes DEF StreamCancelled
  <2> QED
    BY <1>2, <2>1 DEF StreamCancelled, TypeOK
<1>3. ASSUME NEW lost \in BOOLEAN, StreamFails(lost)
      PROVE  TypeOK'
  <2>1. events' \in Seq(Events)
    BY <1>1, <1>3, EventTypes DEF StreamFails
  <2> QED
    BY <1>3, <2>1 DEF StreamFails, TypeOK
<1>4. CASE StreamReported
  <2>1. events' \in Seq(Events)
    BY <1>1, <1>4, EventTypes DEF StreamReported
  <2> QED
    BY <1>4, <2>1 DEF StreamReported, TypeOK
<1> QED
  BY <1>2, <1>3, <1>4 DEF StreamThread

LEMMA TypeKept == ASSUME TypeOK, [Next]_vars PROVE TypeOK'
<1>1. CASE UNCHANGED vars
  BY <1>1 DEF vars, TypeOK
<1> QED
  BY <1>1, UserTypes, WindowTypes, WorkerTypes, StreamTypes DEF Next, Gone

-----------------------------------------------------------------------------
(* What a step of each actor may do to what the invariant speaks of.          *)
LEMMA EventKinds ==
    /\ \A e \in Events : e.kind # "Connected" => e \notin Rises
    /\ \A k, e : e \in OfKind(k) <=> e \in Events /\ e.kind = k
    /\ \A o, e : e \in FailureOf(o) <=> e \in Events /\ e.kind = "RpcError" /\ e.operation = o
    /\ \A e : e \in Rises <=> e \in Events /\ e.kind = "Connected"
    /\ \A e : e \in Falls <=> /\ e \in Events
                              /\ \/ e.kind = "Disconnected"
                                 \/ e.kind = "RpcError" /\ (e.operation = "Connect" \/ e.lost)
  BY DEF Rises, Falls, OfKind, FailureOf

UserKeeps ==
    /\ UNCHANGED <<events, client, slot, phase, stream>>
    /\ status' = "Connected" => status = "Connected"
    /\ status' = "Connected" /\ FailureShown => FailureShown'
    /\ \A E : Has(requests, E) => Has(requests', E)
    /\ "diagnostic" \in buttons => "diagnostic" \in buttons' \/ Has(requests', {"diagnostic"}) \/ status' # "Connected"
    /\ "start" \in buttons => "start" \in buttons' \/ Has(requests', {"start"}) \/ status' # "Connected"
    /\ timers' => timers /\ (status' = status \/ "connect" \in buttons)
    /\ "connect" \in buttons' => "connect" \in buttons \/ ~timers'
    /\ timers => timers' \/ Has(requests', {"disconnect"}) \/ status' # "Connected"
    /\ window' = "open" => window = "open"

LEMMA UserStep == ASSUME TypeOK, User PROVE UserKeeps
<1> USE DEF UserActs, guiVars, workerVars, bounds
<1>1. CASE ClickConnect
  <2>1. UNCHANGED boxes /\ \A E : Has(requests, E) => Has(requests', E)
    BY <1>1, Requesting, RequestTypes DEF ClickConnect
  <2> QED
    BY <1>1, <2>1 DEF ClickConnect, UserKeeps, FailureShown
<1>2. CASE ClickDisconnect
  <2>1. Has(<<"stop", "disconnect">>, {"disconnect"})
    BY DEF Has
  <2>2. UNCHANGED boxes /\ \A E : Has(requests, E) => Has(requests', E)
    BY <1>2, RequestingMore, RequestTypes DEF ClickDisconnect
  <2>3. Has(requests', {"disconnect"})
    BY <1>2, <2>1, RequestingMore, RequestTypes DEF ClickDisconnect
  <2> QED
    BY <1>2, <2>2, <2>3 DEF ClickDisconnect, UserKeeps, FailureShown
<1>3. CASE ClickReconnect
  <2>1. UNCHANGED boxes /\ \A E : Has(requests, E) => Has(requests', E)
    BY <1>3, RequestingMore, RequestTypes DEF ClickReconnect
  <2> QED
    BY <1>3, <2>1 DEF ClickReconnect, UserKeeps, FailureShown
<1>4. CASE ClickStart
  <2>1. /\ UNCHANGED boxes /\ \A E : Has(requests, E) => Has(requests', E)
        /\ Has(requests', {"start"})
    BY <1>4, Requesting, RequestTypes DEF ClickStart
  <2> QED
    BY <1>4, <2>1 DEF ClickStart, UserKeeps, FailureShown
<1>5. CASE ClickStop
  <2>1. UNCHANGED boxes /\ \A E : Has(requests, E) => Has(requests', E)
    BY <1>5, Requesting, RequestTypes DEF ClickStop
  <2> QED
    BY <1>5, <2>1 DEF ClickStop, UserKeeps, FailureShown
<1>6. CASE ClickRefresh
  <2>1. PICK r \in {"call", "pair"} : requests' = Append(requests, r)
    BY <1>6 DEF ClickRefresh
  <2>2. UNCHANGED boxes /\ \A E : Has(requests, E) => Has(requests', E)
    BY <1>6, <2>1, Requesting, RequestTypes DEF ClickRefresh
  <2> QED
    BY <1>6, <2>2 DEF ClickRefresh, UserKeeps, FailureShown
<1>7. CASE ClickControl \/ ClickDiagnostic \/ Refused
  <2>1. PICK b \in Boxes : boxes' = Append(boxes, b)
    BY <1>7 DEF ClickControl, ClickDiagnostic, Refused, Boxes
  <2>2. FailureShown => FailureShown'
    BY <2>1, Opening
  <2> QED
    BY <1>7, <2>2 DEF ClickControl, ClickDiagnostic, Refused, UserKeeps
<1>8. CASE Accept
  <2>1. FailureShown => FailureShown'
    BY <1>8, Closing DEF Accept
  <2>2. CASE Last(boxes) = "confirm"
    <3>1. requests' = Append(requests, "pair") /\ UNCHANGED buttons
      BY <1>8, <2>2 DEF Accept
    <3>2. \A E : Has(requests, E) => Has(requests', E)
      BY <3>1, Requesting, RequestTypes
    <3> QED
      BY <1>8, <2>1, <3>1, <3>2 DEF Accept, UserKeeps
  <2>3. CASE Last(boxes) = "save"
    <3>1. requests' = Append(requests, "diagnostic") /\ buttons' = buttons \ {"diagnostic"}
      BY <1>8, <2>3 DEF Accept
    <3>2. (\A E : Has(requests, E) => Has(requests', E)) /\ Has(requests', {"diagnostic"})
      BY <3>1, Requesting, RequestTypes
    <3> QED
      BY <1>8, <2>1, <3>1, <3>2 DEF Accept, UserKeeps
  <2> QED
    BY <1>8, <2>2, <2>3 DEF Accept
<1>9. CASE Dismiss
  <2>1. FailureShown => FailureShown' \/ Last(boxes) = "connect_failed"
    BY <1>9, Closing DEF Dismiss
  <2> QED
    BY <1>9, <2>1 DEF Dismiss, SetConnected, UserKeeps
<1>10. CASE Close
  <2>1. UNCHANGED boxes /\ \A E : Has(requests, E) => Has(requests', E)
    BY <1>10, Requesting, RequestTypes DEF Close
  <2>2. window' = "closing" /\ Has(requests', {"disconnect"})
    BY <1>10, Requesting, RequestTypes DEF Close
  <2> QED
    BY <1>10, <2>1, <2>2 DEF Close, UserKeeps, FailureShown
<1> QED
  BY <1>1, <1>2, <1>3, <1>4, <1>5, <1>6, <1>7, <1>8, <1>9, <1>10 DEF User

WorkerKeeps ==
    /\ UNCHANGED guiVars
    /\ \A E : Has(events, E) => Has(events', E)
    /\ ~client' => \/ EndsIn(events', Falls, Rises)
                   \/ /\ ~client
                      /\ EndsIn(events, Falls, Rises) => EndsIn(events', Falls, Rises)
                      /\ ~Has(events, Rises) => ~Has(events', Rises)
    /\ \A r : Has(requests, {r}) => Has(requests', {r}) \/ slot' = r \/ (r \in Calls /\ ~client')
    /\ slot = "diagnostic" => \/ slot' = "diagnostic"
                              \/ Has(events', OfKind("DiagnosticReady")) \/ Has(events', FailureOf("Diagnostic"))
    /\ slot = "disconnect" => slot' = "disconnect" \/ Has(events', OfKind("Disconnected"))
    /\ slot = "start" => slot' = "start" \/ StreamActive' \/ ~client'
    /\ StreamActive => StreamActive' \/ Has(events', OfKind("LogStreamStopped"))
    /\ CallsHaveClient'

LEMMA WorkerStep == ASSUME TypeOK, CallsHaveClient, Worker PROVE WorkerKeeps
<1> USE DEF workerVars, bounds, SlotReturns
<1>1. CASE TakeRequest
  <2>1. requests \in Seq(Requests) /\ requests # <<>> /\ requests' = Tail(requests)
    BY <1>1 DEF TakeRequest, TypeOK
  <2>2. \A r : Has(requests, {r}) => Has(requests', {r}) \/ Head(requests) = r
    BY <2>1, HasTail
  <2>3. UNCHANGED <<client, events, stream>> /\ slot = "none"
    BY <1>1 DEF TakeRequest
  <2>4. slot' = Head(requests) \/ (Head(requests) \in Calls /\ ~client)
    BY <1>1 DEF TakeRequest
  <2>5. CallsHaveClient'
    BY <1>1 DEF TakeRequest, CallsHaveClient, InCall, TypeOK
  <2> QED
    BY <1>1, <2>2, <2>3, <2>4, <2>5 DEF TakeRequest, WorkerKeeps, StreamActive
<1>2. CASE FinishStop
  BY <1>2 DEF FinishStop, Joined, WorkerKeeps, StreamActive, CallsHaveClient, InCall
<1>3. CASE FinishDisconnect
  <2>1. Event("Disconnected") \in Events /\ Event("Disconnected") \in Falls
        /\ Event("Disconnected") \in OfKind("Disconnected")
    BY EventTypes, EventKinds
  <2>2. /\ \A E : Has(events, E) => Has(events', E)
        /\ Has(events', OfKind("Disconnected")) /\ EndsIn(events', Falls, Rises)
    BY <1>3, <2>1, Emitting DEF FinishDisconnect
  <2> QED
    BY <1>3, <2>2 DEF FinishDisconnect, Joined, WorkerKeeps, StreamActive, CallsHaveClient, InCall
<1>4. CASE StartLogStream
  BY <1>4 DEF StartLogStream, Joined, WorkerKeeps, StreamActive, CallsHaveClient, InCall
<1>5. CASE ConnectToAgent
  BY <1>5 DEF ConnectToAgent, Joined, WorkerKeeps, StreamActive, CallsHaveClient, InCall
<1>6. CASE CallSucceeds
  <2>1. client /\ client' = client
    BY <1>6 DEF CallSucceeds, CallsHaveClient
  <2>2. /\ \A E : Has(events, E) => Has(events', E)
        /\ slot = "diagnostic" => slot' = "diagnostic" \/ Has(events', OfKind("DiagnosticReady"))
    <3>1. CASE UNCHANGED events /\ (slot = "diagnostic" => slot' = slot)
      BY <1>6, <3>1 DEF CallSucceeds
    <3>2. CASE Emit(Event("Connected")) /\ slot = "connect"
      <4>1. Event("Connected") \in Events
        BY EventTypes
      <4> QED
        BY <3>2, <4>1, Emitting
    <3>3. CASE Emit(Event("DiagnosticReady"))
      <4>1. Event("DiagnosticReady") \in Events /\ Event("DiagnosticReady") \in OfKind("DiagnosticReady")
        BY EventTypes, EventKinds
      <4> QED
        BY <3>3, <4>1, Emitting
    <3> QED
      BY <1>6, <3>1, <3>2, <3>3 DEF CallSucceeds
  <2>3. slot \notin {"disconnect", "start"}
    BY <1>6 DEF CallSucceeds
  <2> QED
    BY <1>6, <2>1, <2>2, <2>3 DEF CallSucceeds, WorkerKeeps, StreamActive, CallsHaveClient, InCall
<1>7. ASSUME NEW lost \in BOOLEAN, CallFails(lost)
      PROVE  WorkerKeeps
  <2>1. PICK o \in {"Connect", "Call", "Diagnostic"} :
           /\ Emit(RpcError(o, lost))
           /\ slot = "connect" => o = "Connect"
           /\ slot = "diagnostic" => o = "Diagnostic"
    BY <1>7 DEF CallFails
  <2>2. /\ RpcError(o, lost) \in Events /\ RpcError(o, lost) \notin Rises
        /\ slot = "connect" \/ lost => RpcError(o, lost) \in Falls
        /\ slot = "diagnostic" => RpcError(o, lost) \in FailureOf("Diagnostic")
    BY <2>1, EventTypes, EventKinds
  <2>3. /\ \A E : Has(events, E) => Has(events', E)
        /\ slot = "diagnostic" => Has(events', FailureOf("Diagnostic"))
        /\ ~client' => EndsIn(events', Falls, Rises)
    BY <1>7, <2>1, <2>2, Emitting DEF CallFails, CallsHaveClient
  <2>4. slot \notin {"disconnect", "start"} /\ slot' = "none" /\ phase' = "idle"
    BY <1>7 DEF CallFails, CallsHaveClient, Calls
  <2> QED
    BY <1>7, <2>3, <2>4 DEF CallFails, WorkerKeeps, StreamActive, CallsHaveClient, InCall
<1> QED
  BY <1>1, <1>2, <1>3, <1>4, <1>5, <1>6, <1>7 DEF Worker

StreamKeeps ==
    /\ UNCHANGED <<guiVars, requests, workerVars>>
    /\ \A E : Has(events, E) => Has(events', E)
    /\ EndsIn(events, Falls, Rises) => EndsIn(events', Falls, Rises)
    /\ ~Has(events, Rises) => ~Has(events', Rises)
    /\ stream \in {"running", "reporting"}
    /\ StreamActive => StreamActive' \/ Has(events', OfKind("LogStreamStopped"))

LEMMA StreamStep == ASSUME TypeOK, StreamThread PROVE StreamKeeps
<1>1. CASE StreamCancelled \/ StreamReported
  <2>1. Emit(Event("LogStreamStopped"))
    BY <1>1 DEF StreamCancelled, StreamReported
  <2>2. /\ Event("LogStreamStopped") \in Events /\ Event("LogStreamStopped") \notin Rises
        /\ Event("LogStreamStopped") \in OfKind("LogStreamStopped")
    BY EventTypes, EventKinds
  <2>3. Has(events', OfKind("LogStreamStopped"))
    BY <2>1, <2>2, Emitting
  <2> QED
    BY <1>1, <2>1, <2>2, <2>3, Emitting DEF StreamCancelled, StreamReported, StreamKeeps
<1>2. ASSUME NEW lost \in BOOLEAN, StreamFails(lost)
      PROVE  StreamKeeps
  <2>1. Emit(RpcError("StreamLog", lost))
    BY <1>2 DEF StreamFails
  <2>2. RpcError("StreamLog", lost) \in Events /\ RpcError("StreamLog", lost) \notin Rises
    BY EventTypes, EventKinds
  <2> QED
    BY <1>2, <2>1, <2>2, Emitting DEF StreamFails, StreamKeeps, StreamActive
<1> QED
  BY <1>1, <1>2 DEF StreamThread

-----------------------------------------------------------------------------
(* The invariant's parts, one lemma each.                                   *)
LEMMA LabelKept == ASSUME IInv, [Next]_vars PROVE LabelFollowsClient'
<1> USE DEF IInv
<1>0. SUFFICES ASSUME ~client'
               PROVE  \/ ~Has(events', Rises) /\ (status' = "Connected" => FailureShown')
                      \/ EndsIn(events', Falls, Rises)
  BY DEF LabelFollowsClient
<1>1. CASE User
  BY <1>0, <1>1, UserStep DEF UserKeeps, LabelFollowsClient
<1>2. CASE Worker
  <2>1. WorkerKeeps
    BY <1>2, WorkerStep
  <2> QED
    BY <1>0, <2>1 DEF WorkerKeeps, guiVars, LabelFollowsClient, FailureShown
<1>3. CASE StreamThread
  <2>1. StreamKeeps
    BY <1>3, StreamStep
  <2> QED
    BY <1>0, <2>1 DEF StreamKeeps, guiVars, workerVars, LabelFollowsClient, FailureShown
<1>4. CASE TimerExpires \/ Closed \/ Gone \/ UNCHANGED vars
  BY <1>0, <1>4 DEF TimerExpires, Closed, Gone, vars, guiVars, workerVars, LabelFollowsClient, FailureShown
<1>5. ASSUME NEW k, Handles(k), FailureShown => status' # "Connected" \/ FailureShown',
             k = "Connected" \/ (status' = "Connected" => status = "Connected"),
             Head(events) \in Falls => status' # "Connected" \/ FailureShown'
      PROVE  \/ ~Has(events', Rises) /\ (status' = "Connected" => FailureShown')
             \/ EndsIn(events', Falls, Rises)
  <2>1. /\ Head(events) \in Events /\ Head(events).kind = k
        /\ Has(events, Rises) => Has(events', Rises) \/ Head(events) \in Rises
        /\ Has(events', Rises) => Has(events, Rises)
        /\ EndsIn(events, Falls, Rises) =>
              EndsIn(events', Falls, Rises) \/ (Head(events) \in Falls /\ ~Has(events', Rises))
    BY <1>5, Handling
  <2>2. ~client
    BY <1>0, <1>5 DEF Handles, workerVars
  <2>3. CASE EndsIn(events, Falls, Rises)
    BY <2>1, <2>3, <1>5
  <2>4. CASE ~Has(events, Rises) /\ (status = "Connected" => FailureShown)
    <3>1. k # "Connected"
      <4>1. Has(events, {Head(events)})
        BY <1>5, Removing DEF Handles, TypeOK, Has
      <4>2. k = "Connected" => Head(events) \in Rises
        BY <2>1, EventKinds
      <4> QED
        BY <2>4, <4>1, <4>2 DEF Has
    <3> QED
      BY <2>1, <2>4, <3>1, <1>5
  <2> QED
    BY <2>2, <2>3, <2>4 DEF LabelFollowsClient
<1>6. CASE HandleConnected
  <2>1. Head(events) \notin Falls
    BY <1>6, EventKinds DEF HandleConnected, Handles
  <2>2. FailureShown => FailureShown'
    BY <1>6 DEF HandleConnected, FailureShown
  <2> QED
    BY <1>5, <1>6, <2>1, <2>2 DEF HandleConnected
<1>7. CASE HandleDisconnected
  BY <1>5, <1>7 DEF HandleDisconnected, SetConnected
<1>8. CASE HandleLogStreamStopped \/ DiagnosticCompleted
  <2>1. Head(events) \notin Falls
    BY <1>8, EventKinds DEF HandleLogStreamStopped, DiagnosticCompleted, Handles
  <2>2. (FailureShown => FailureShown') /\ UNCHANGED status
    BY <1>8 DEF HandleLogStreamStopped, DiagnosticCompleted, FailureShown
  <2> QED
    BY <1>5, <1>8, <2>1, <2>2 DEF HandleLogStreamStopped, DiagnosticCompleted
<1>9. CASE HandleConnectionLost
  BY <1>5, <1>9 DEF HandleConnectionLost, SetConnected
<1>10. CASE HandleOperationFailed
  <2>1. PICK b \in Boxes : /\ boxes' = Append(boxes, b)
                           /\ Head(events).operation = "Connect" => b = "connect_failed"
    BY <1>10 DEF HandleOperationFailed, Boxes
  <2>2. (FailureShown => FailureShown') /\ (b = "connect_failed" => FailureShown')
    BY <2>1, Opening
  <2>3. Head(events) \in Falls => FailureShown'
    BY <1>10, <2>1, <2>2, EventKinds DEF HandleOperationFailed, Handles
  <2> QED
    BY <1>5, <1>10, <2>2, <2>3 DEF HandleOperationFailed
<1> QED
  BY <1>1, <1>2, <1>3, <1>4, <1>6, <1>7, <1>8, <1>9, <1>10 DEF Next, Window

LEMMA TimersKept == ASSUME IInv, [Next]_vars PROVE TimersFollowLabel'
<1> USE DEF IInv
<1>1. CASE User
  BY <1>1, UserStep DEF UserKeeps, TimersFollowLabel
<1>2. CASE Worker
  <2>1. WorkerKeeps
    BY <1>2, WorkerStep
  <2>2. "disconnect" \notin Calls
    BY DEF Calls
  <2> QED
    BY <2>1, <2>2 DEF WorkerKeeps, guiVars, TimersFollowLabel
<1>3. CASE StreamThread
  <2>1. StreamKeeps
    BY <1>3, StreamStep
  <2> QED
    BY <2>1 DEF StreamKeeps, guiVars, workerVars, TimersFollowLabel
<1>4. CASE TimerExpires
  <2>1. Has(requests, {"disconnect"}) => Has(requests', {"disconnect"})
    BY <1>4, Requesting, RequestTypes DEF TimerExpires
  <2> QED
    BY <1>4, <2>1 DEF TimerExpires, guiVars, workerVars, TimersFollowLabel
<1>5. CASE Closed
  BY <1>5 DEF Closed, workerVars, TimersFollowLabel
<1>6. CASE Gone \/ UNCHANGED vars
  BY <1>6 DEF Gone, vars, TimersFollowLabel
<1>7. CASE HandleConnected \/ HandleDisconnected \/ HandleConnectionLost
  BY <1>7 DEF HandleConnected, HandleDisconnected, HandleConnectionLost, SetConnected,
              ConnectedButtons, TimersFollowLabel
<1>8. CASE HandleLogStreamStopped \/ DiagnosticCompleted \/ HandleOperationFailed
  <2>1. PICK k \in {"LogStreamStopped", "DiagnosticReady", "RpcError"} : Handles(k)
    BY <1>8 DEF HandleLogStreamStopped, DiagnosticCompleted, HandleOperationFailed
  <2>2. Has(events, OfKind("Disconnected")) => Has(events', OfKind("Disconnected"))
    BY <2>1, Handling, EventKinds
  <2>3. UNCHANGED <<slot, window, status, timers, requests>>
    BY <1>8 DEF HandleLogStreamStopped, DiagnosticCompleted, HandleOperationFailed, Handles, workerVars
  <2>4. "connect" \notin buttons => "connect" \notin buttons'
    BY <1>8 DEF HandleLogStreamStopped, DiagnosticCompleted, HandleOperationFailed, Reenabled
  <2> QED
    BY <2>2, <2>3, <2>4 DEF TimersFollowLabel
<1> QED
  BY <1>1, <1>2, <1>3, <1>4, <1>5, <1>6, <1>7, <1>8 DEF Next, Window

(* A button that is disabled while the label says Connected: what it waits     *)
(* for is still there after the step.                                       *)
LEMMA ButtonsKept == ASSUME IInv, [Next]_vars PROVE DiagnosticReturns' /\ StartReturns'
<1> USE DEF IInv
<1>1. CASE User
  <2>1. UserKeeps
    BY <1>1, UserStep
  <2>2. UNCHANGED StreamActive
    BY <2>1 DEF UserKeeps, StreamActive
  <2> QED
    BY <2>1, <2>2 DEF UserKeeps, DiagnosticReturns, StartReturns, Falling
<1>2. CASE Worker \/ StreamThread
  <2>1. /\ UNCHANGED guiVars
        /\ \A E : Has(events, E) => Has(events', E)
        /\ StreamActive => StreamActive' \/ Has(events', OfKind("LogStreamStopped"))
        /\ \A r : Has(requests, {r}) => Has(requests', {r}) \/ slot' = r \/ (r \in Calls /\ ~client')
        /\ slot = "diagnostic" => \/ slot' = "diagnostic"
                                  \/ Has(events', OfKind("DiagnosticReady")) \/ Has(events', FailureOf("Diagnostic"))
        /\ slot = "start" => slot' = "start" \/ StreamActive' \/ ~client'
    BY <1>2, WorkerStep, StreamStep DEF WorkerKeeps, StreamKeeps, workerVars
  <2>2. ~client' => Has(events', Falls) \/ (status' = "Connected" => FailureShown')
    BY LabelKept DEF LabelFollowsClient, EndsIn, Has
  <2>3. "start" \notin Calls /\ (FailureShown => FailureShown')
    BY <2>1 DEF Calls, FailureShown, guiVars
  <2>4. ~client' /\ status' = "Connected" => Falling'
    BY <2>2 DEF Falling
  <2>5. Falling => Falling'
    BY <2>1, <2>3 DEF Falling
  <2>6. DiagnosticReturns'
    BY <2>1, <2>4, <2>5 DEF DiagnosticReturns, guiVars
  <2>7. StartReturns'
    BY <2>1, <2>3, <2>4, <2>5 DEF StartReturns, guiVars
  <2> QED
    BY <2>6, <2>7
<1>3. CASE TimerExpires
  <2>1. \A E : Has(requests, E) => Has(requests', E)
    BY <1>3, Requesting, RequestTypes DEF TimerExpires
  <2> QED
    BY <1>3, <2>1 DEF TimerExpires, guiVars, workerVars, DiagnosticReturns, StartReturns,
                      StreamActive, Falling, FailureShown
<1>4. CASE Closed \/ Gone \/ UNCHANGED vars
  BY <1>4 DEF Closed, Gone, vars, workerVars, DiagnosticReturns, StartReturns,
              StreamActive, Falling, FailureShown
<1>5. CASE HandleConnected \/ HandleDisconnected \/ HandleConnectionLost
  BY <1>5 DEF HandleConnected, HandleDisconnected, HandleConnectionLost, SetConnected,
              ConnectedButtons, DiagnosticReturns, StartReturns
<1>6. CASE HandleLogStreamStopped \/ DiagnosticCompleted
  <2>1. PICK k \in {"LogStreamStopped", "DiagnosticReady"} :
            /\ Handles(k)
            /\ k = "LogStreamStopped" => HandleLogStreamStopped
            /\ k = "DiagnosticReady" => DiagnosticCompleted
    BY <1>6 DEF HandleLogStreamStopped, DiagnosticCompleted
  <2>2. /\ Has(events, Falls) => Has(events', Falls)
        /\ Has(events, Rises) => Has(events', Rises)
        /\ Has(events, FailureOf("Diagnostic")) => Has(events', FailureOf("Diagnostic"))
        /\ Has(events, OfKind("DiagnosticReady")) => Has(events', OfKind("DiagnosticReady")) \/ k = "DiagnosticReady"
        /\ Has(events, OfKind("LogStreamStopped")) => Has(events', OfKind("LogStreamStopped")) \/ k = "LogStreamStopped"
    BY <2>1, Handling, EventKinds
  <2>3. UNCHANGED <<slot, stream, status, requests, boxes>>
    BY <1>6 DEF HandleLogStreamStopped, DiagnosticCompleted, Handles, workerVars
  <2>4. UNCHANGED StreamActive /\ (Falling => Falling')
    BY <2>2, <2>3 DEF StreamActive, Falling, FailureShown
  <2>5. /\ k = "LogStreamStopped" /\ status = "Connected" => "start" \in buttons'
        /\ k = "DiagnosticReady" => "diagnostic" \in buttons'
        /\ "diagnostic" \in buttons => "diagnostic" \in buttons'
        /\ k = "DiagnosticReady" /\ "start" \in buttons => "start" \in buttons'
    BY <2>1 DEF HandleLogStreamStopped, DiagnosticCompleted
  <2>6. DiagnosticReturns'
    BY <2>1, <2>2, <2>3, <2>4, <2>5 DEF DiagnosticReturns
  <2>7. StartReturns'
    BY <2>1, <2>2, <2>3, <2>4, <2>5 DEF StartReturns
  <2> QED
    BY <2>6, <2>7
<1>7. CASE HandleOperationFailed
  <2>1. Handles("RpcError") /\ ~Head(events).lost
    BY <1>7 DEF HandleOperationFailed
  <2>2. PICK b \in Boxes : /\ boxes' = Append(boxes, b)
                           /\ Head(events).operation = "Connect" => b = "connect_failed"
    BY <1>7 DEF HandleOperationFailed, Boxes
  <2>3. (FailureShown => FailureShown') /\ (b = "connect_failed" => FailureShown')
    BY <2>2, Opening
  <2>4. Has(events, Falls) => Has(events', Falls) \/ FailureShown'
    <3>1. Has(events, Falls) => Has(events', Falls) \/ Head(events) \in Falls
      BY <2>1, Handling
    <3>2. Head(events) \in Falls => b = "connect_failed"
      BY <2>1, <2>2, EventKinds DEF Handles
    <3> QED
      BY <2>3, <3>1, <3>2
  <2>5. /\ Has(events, Rises) => Has(events', Rises)
        /\ Has(events, OfKind("DiagnosticReady")) => Has(events', OfKind("DiagnosticReady"))
        /\ Has(events, OfKind("LogStreamStopped")) => Has(events', OfKind("LogStreamStopped"))
    BY <2>1, Handling, EventKinds DEF Handles
  <2>6. Has(events, FailureOf("Diagnostic")) => Has(events', FailureOf("Diagnostic")) \/ "diagnostic" \in buttons'
    <3>1. Has(events, FailureOf("Diagnostic")) => Has(events', FailureOf("Diagnostic")) \/ Head(events) \in FailureOf("Diagnostic")
      BY <2>1, Handling
    <3>2. Head(events) \in FailureOf("Diagnostic") => "diagnostic" \in buttons'
      BY <1>7, EventKinds DEF HandleOperationFailed, Reenabled
    <3> QED
      BY <3>1, <3>2
  <2>7. UNCHANGED <<slot, stream, status, requests>> /\ buttons \subseteq buttons'
    BY <1>7 DEF HandleOperationFailed, Handles, workerVars
  <2>8. UNCHANGED StreamActive /\ (Falling => Falling')
    BY <2>3, <2>4, <2>7 DEF StreamActive, Falling
  <2>9. DiagnosticReturns'
    BY <2>5, <2>6, <2>7, <2>8 DEF DiagnosticReturns
  <2>10. StartReturns'
    BY <2>5, <2>7, <2>8 DEF StartReturns
  <2> QED
    BY <2>9, <2>10
<1> QED
  BY <1>1, <1>2, <1>3, <1>4, <1>5, <1>6, <1>7 DEF Next, Window

LEMMA DisconnectKept == ASSUME IInv, [Next]_vars PROVE DisconnectIsLast'
<1> USE DEF IInv
<1>1. CASE window = "open" /\ ~Close
  <2>1. window' = "open"
    BY <1>1 DEF Next, User, Window, Worker, StreamThread, TimerExpires, Gone, vars, guiVars, UserActs,
                ClickConnect, ClickDisconnect, ClickReconnect, ClickStart, ClickStop, ClickRefresh,
                ClickControl, ClickDiagnostic, Refused, Accept, Dismiss, Closed, Handles,
                HandleConnected, HandleDisconnected, HandleLogStreamStopped, DiagnosticCompleted,
                HandleConnectionLost, HandleOperationFailed, TakeRequest, FinishStop,
                FinishDisconnect, StartLogStream, ConnectToAgent, CallSucceeds, CallFails,
                StreamCancelled, StreamFails, StreamReported
  <2> QED
    BY <2>1 DEF DisconnectIsLast
<1>2. CASE Close
  BY <1>2, Requesting, RequestTypes DEF Close, DisconnectIsLast
<1>3. CASE window # "open" /\ (TakeRequest \/ Closed)
  <2>1. CASE Closed
    BY <2>1 DEF Closed, DisconnectIsLast, Settled, workerVars
  <2>2. CASE TakeRequest
    <3>1. requests \in Seq(Requests) /\ requests # <<>> /\ requests' = Tail(requests)
          /\ window = "closing" /\ window' = "closing"
      BY <1>3, <2>2 DEF TakeRequest, TypeOK, guiVars
    <3>2. Last(requests) = "disconnect"
      BY <3>1 DEF DisconnectIsLast, Settled
    <3>3. CASE requests' = <<>>
      <4>1. Len(requests) = 1 /\ Head(requests) = "disconnect"
        <5>1. Len(requests) \in Nat /\ Len(requests') = Len(requests) - 1 /\ Head(requests) = requests[1]
          BY <3>1, Removing
        <5>2. Len(requests') = 0
          BY <3>3, EmptySeq
        <5>3. Len(requests) = 1
          BY <5>1, <5>2
        <5> QED
          BY <3>2, <5>1, <5>3 DEF Last
      <4>2. slot' = "disconnect"
        BY <2>2, <4>1 DEF TakeRequest, Calls
      <4> QED
        BY <3>1, <3>3, <4>2 DEF DisconnectIsLast
    <3>4. CASE requests' # <<>>
      <4>1. requests' \in Seq(Requests) /\ Len(requests') = Len(requests) - 1 /\ Len(requests) \in Nat
            /\ \A i \in 1..(Len(requests) - 1) : requests'[i] = requests[i + 1]
        BY <3>1, Removing
      <4>2. Len(requests') >= 1
        BY <3>4, <4>1, EmptySeq
      <4>3. Len(requests) - 1 \in 1..(Len(requests) - 1) /\ (Len(requests) - 1) + 1 = Len(requests)
        BY <4>1, <4>2
      <4>4. Last(requests') = Last(requests)
        BY <4>1, <4>3 DEF Last
      <4> QED
        BY <3>1, <3>2, <3>4, <4>4 DEF DisconnectIsLast
    <3> QED
      BY <3>3, <3>4
  <2> QED
    BY <1>3, <2>1, <2>2
<1>4. CASE window # "open" /\ (FinishStop \/ StartLogStream \/ ConnectToAgent \/ CallSucceeds
                               \/ \E lost \in BOOLEAN : CallFails(lost))
  <2>1. window' = window /\ requests' = requests /\ slot \notin {"none", "disconnect"}
    BY <1>4 DEF FinishStop, StartLogStream, ConnectToAgent, CallSucceeds, CallFails, guiVars,
                CallsHaveClient, Calls, InCall, Joined, TypeOK
  <2> QED
    BY <1>4, <2>1 DEF DisconnectIsLast, Settled, TypeOK
<1>5. CASE window # "open" /\ FinishDisconnect
  BY <1>5 DEF FinishDisconnect, DisconnectIsLast, Settled, SlotReturns, guiVars
<1>6. CASE window # "open" /\ StreamThread
  <2>1. StreamKeeps
    BY <1>6, StreamStep
  <2> QED
    BY <1>6, <2>1 DEF StreamKeeps, guiVars, workerVars, DisconnectIsLast, Settled
<1>7. CASE Gone \/ UNCHANGED vars
  BY <1>7 DEF Gone, vars, DisconnectIsLast, Settled
<1>8. window # "open" /\ Next =>
          TakeRequest \/ Closed \/ FinishStop \/ StartLogStream \/ ConnectToAgent \/ CallSucceeds
          \/ (\E lost \in BOOLEAN : CallFails(lost)) \/ FinishDisconnect \/ StreamThread \/ Gone
  BY DEF Next, User, Window, Worker, TimerExpires, UserActs, ClickConnect, ClickDisconnect,
         ClickReconnect, ClickStart, ClickStop, ClickRefresh, ClickControl, ClickDiagnostic,
         Refused, Accept, Dismiss, Close, Handles, HandleConnected, HandleDisconnected,
         HandleLogStreamStopped, DiagnosticCompleted, HandleConnectionLost, HandleOperationFailed
<1> QED
  BY <1>1, <1>2, <1>3, <1>4, <1>5, <1>6, <1>7, <1>8

LEMMA CallsKept == ASSUME IInv, [Next]_vars PROVE CallsHaveClient'
<1> USE DEF IInv
<1>1. CASE Worker
  BY <1>1, WorkerStep DEF WorkerKeeps
<1>2. CASE ~Worker
  <2>1. UNCHANGED <<client, slot, phase>>
    BY <1>2, UserStep, StreamStep DEF UserKeeps, StreamKeeps, workerVars, Next, Window, TimerExpires,
          Closed, Gone, vars, Handles, HandleConnected, HandleDisconnected,
          HandleLogStreamStopped, DiagnosticCompleted, HandleConnectionLost, HandleOperationFailed
  <2> QED
    BY <2>1 DEF CallsHaveClient, InCall
<1> QED
  BY <1>1, <1>2

LEMMA InitHolds == Init => IInv
<1> SUFFICES ASSUME Init
             PROVE  IInv
  OBVIOUS
<1>1. TypeOK
  BY TypeOfInit
<1>2. ~Has(events, Rises)
  BY DEF Init, Has
<1> QED
  BY <1>1, <1>2 DEF Init, IInv, CallsHaveClient, InCall, LabelFollowsClient, TimersFollowLabel,
                    DiagnosticReturns, StartReturns, DisconnectIsLast

LEMMA Inductive == IInv /\ [Next]_vars => IInv'
  BY TypeKept, CallsKept, LabelKept, TimersKept, ButtonsKept, DisconnectKept DEF IInv

-----------------------------------------------------------------------------
(* The inductive invariant: for any number of clicks and timer expiries, a     *)
(* disabled button waits for an answer, a client lost is a label that falls,  *)
(* and the destructor's disconnection is the worker's last request.           *)
THEOREM Invariance == Spec => []IInv
  BY InitHolds, Inductive, PTL DEF Spec

(* Every variable has its type, whatever is queued and whichever boxes are open. *)
THEOREM TypeCorrectness == Spec => []TypeOK
<1>1. IInv => TypeOK
  BY DEF IInv
<1> QED
  BY <1>1, Invariance, PTL

(* A settled window that says Connected has a worker with a client            *)
(* (RpcWorker::EmitRpcError and MainWindow::HandleRpcError agree in the end). *)
THEOREM ConnectedIsTrue == Spec => []ConnectedMeansClient
<1>1. IInv => ConnectedMeansClient
  <2> SUFFICES ASSUME IInv, Quiet, status = "Connected"
               PROVE  client
    BY DEF ConnectedMeansClient
  <2>1. ~FailureShown /\ ~EndsIn(events, Falls, Rises)
    BY DEF Quiet, FailureShown, Has, EndsIn
  <2> QED
    BY <2>1 DEF IInv, LabelFollowsClient
<1> QED
  BY <1>1, Invariance, PTL

(* A settled window polls exactly when it says Connected, and then offers a    *)
(* diagnostic and, unless a stream runs, a stream (SetConnected and its       *)
(* callers, and the slots that return silently).                            *)
THEOREM ControlsSettle == Spec => []ControlsMatchTheLabel
<1>1. IInv => ControlsMatchTheLabel
  <2> SUFFICES ASSUME IInv, Quiet
               PROVE  /\ timers <=> status = "Connected"
                      /\ status = "Connected" => "diagnostic" \in buttons /\ (StreamActive \/ "start" \in buttons)
    BY DEF ControlsMatchTheLabel
  <2>1. ~FailureShown /\ (\A E : ~Has(events, E)) /\ (\A E : ~Has(requests, E)) /\ slot = "none"
    BY DEF Quiet, FailureShown, Has
  <2>2. ~Falling
    BY <2>1 DEF Falling
  <2>3. timers => status = "Connected"
    BY DEF IInv, TimersFollowLabel
  <2>4. status = "Connected" => timers
    BY <2>1 DEF IInv, TimersFollowLabel, Quiet
  <2>5. status = "Connected" => "diagnostic" \in buttons
    BY <2>1, <2>2 DEF IInv, DiagnosticReturns
  <2>6. status = "Connected" => StreamActive \/ "start" \in buttons
    BY <2>1, <2>2 DEF IInv, StartReturns
  <2> QED
    BY <2>3, <2>4, <2>5, <2>6
<1> QED
  BY <1>1, Invariance, PTL

(* When the window is gone, the stream thread has been joined and the channel *)
(* destroyed, however much was queued before (~MainWindow).                 *)
THEOREM ClosingIsClean == Spec => []ClosedCleanly
<1>1. IInv => ClosedCleanly
  BY DEF IInv, DisconnectIsLast, Settled, ClosedCleanly
<1> QED
  BY <1>1, Invariance, PTL

=============================================================================
