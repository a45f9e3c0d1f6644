--------------------------- MODULE HostLinkProofs ---------------------------
(***************************************************************************)
(* For any messages, queue, retries and faults of the line: the device     *)
(* hands its messages out in order, an ACK pops the message it was meant   *)
(* for, and a send loracom calls a success was queued.                     *)
(*                                                                         *)
(* The inductive invariant IInv ties the frames on the line to the device  *)
(* and to the running transaction: what a frame carries lies at or before  *)
(* the head of the queue, in the order of the queue (InOrder), and as long *)
(* as no answer was late there is one frame on the line, or an ACK and the *)
(* request behind it (OneExchange).                                        *)
(***************************************************************************)
EXTENDS HostLink, SequenceTheorems, TLAPS

-----------------------------------------------------------------------------
(* Sequences, by their places.                                             *)

\* Head and Tail by their places.
LEMMA TailIs ==
  ASSUME NEW S, NEW s \in Seq(S), s # <<>>
  PROVE  /\ Len(s) >= 1 /\ Head(s) = s[1] /\ s[1] \in S
         /\ Tail(s) \in Seq(S) /\ Len(Tail(s)) = Len(s) - 1
         /\ \A i \in 1..Len(Tail(s)) : Tail(s)[i] = s[i + 1]
<1>1. Len(s) >= 1 /\ Head(s) = s[1]
  BY EmptySeq, LenProperties
<1> QED BY <1>1, HeadTailProperties, ElementOfSeq

\* Append by its places.
LEMMA AppendIs ==
  ASSUME NEW S, NEW s \in Seq(S), NEW e \in S
  PROVE  /\ Append(s, e) \in Seq(S) /\ Len(Append(s, e)) = Len(s) + 1
         /\ \A i \in 1..Len(s) : Append(s, e)[i] = s[i]
         /\ Append(s, e)[Len(s) + 1] = e
BY AppendProperties

\* All but the last one, by its places.
LEMMA FrontIs ==
  ASSUME NEW S, NEW s \in Seq(S), s # <<>>
  PROVE  LET t == SubSeq(s, 1, Len(s) - 1)
         IN  /\ t \in Seq(S) /\ Len(t) = Len(s) - 1
             /\ \A i \in 1..Len(t) : t[i] = s[i]
<1>1. Len(s) \in Nat /\ Len(s) >= 1
  BY TailIs
<1>2. \A i \in 1..(Len(s) - 1) : s[i] \in S
  BY <1>1, ElementOfSeq
<1>3. PICK n \in Nat : n = Len(s) - 1
  BY <1>1
<1>4. SubSeq(s, 1, n) \in Seq(S) /\ Len(SubSeq(s, 1, n)) = IF 1 <= n THEN n - 1 + 1 ELSE 0
  BY <1>2, <1>3, SubSeqProperties
<1>5. Len(SubSeq(s, 1, n)) = n
  BY <1>3, <1>4
<1>6. \A i \in 1..(n - 1 + 1) : SubSeq(s, 1, n)[i] = s[1 + i - 1]
  BY <1>2, <1>3, SubSeqProperties
<1>7. ASSUME NEW i \in 1..n PROVE SubSeq(s, 1, n)[i] = s[i]
  <2>1. i \in 1..(n - 1 + 1) /\ 1 + i - 1 = i
    BY <1>3
  <2> QED BY <1>6, <2>1
<1> QED BY <1>3, <1>4, <1>5, <1>7

-----------------------------------------------------------------------------
(* The inductive invariant.                                                *)

Answers == {Ack, Conf, Corrupted} \cup {Carrying("get", m) : m \in Incoming}
Requests == {Get, Conf} \cup {Carrying("send", m) : m \in Outgoing}
              \cup {Carrying("ack", m) : m \in Incoming \cup {Configuration}}

Calling == /\ call.op \in Calls
           /\ call.op = "send" => call.msg \in Outgoing

\* What is peeked is the head of the queue.
PeekedIsHead == peeked # NoMsg => rxQueue # <<>> /\ peeked = rxQueue[1]

Typed ==
  /\ rxQueue \in Seq(Incoming) /\ Len(rxQueue) <= RxDepth
  /\ peeked \in Incoming \cup {NoMsg}
  /\ queued \in [Outgoing -> Nat]
  /\ up \in Seq(Requests) /\ down \in Seq(Answers)
  /\ call \in [op : Calls \cup {"idle"}, msg : Outgoing \cup {NoMsg},
               attempt : 0..MaxRetries, again : BOOLEAN]
  /\ call = Idle \/ Calling
  /\ coming \subseteq Incoming /\ arrived \in Seq(Incoming)
  /\ popped \subseteq Incoming \X (Incoming \cup {Configuration})
  /\ got \in Seq(Incoming)
  /\ result \in [Outgoing -> {"none", "ok", "error"}]
  /\ faults \in 0..MaxFaults /\ lates \in 0..MaxLate /\ calls \in 0..MaxCalls
  /\ PeekedIsHead

Assumptions == CallsAssumption /\ BoundsAssumption /\ NamesAssumption

\* Every request and every answer is a frame.
LEMMA FramesAreTyped == Requests \subseteq Frames /\ Answers \subseteq Frames
BY DEF Requests, Answers, Frames

\* Typed gives the module's own type invariant.
LEMMA TypedIsTypeOK == Typed => TypeOK
BY FramesAreTyped, SeqMonotonic DEF Typed, TypeOK

\* A call's request is a request.
LEMMA RequestTyped ==
  ASSUME NEW op, NEW m, op \in {"get", "send", "conf"}, op = "send" => m \in Outgoing
  PROVE  Request(op, m) \in Requests /\ Request(op, m).type = op
BY DEF Request, Carrying, Requests, Get, Conf

\* What the types of the frames say of them.
LEMMA FrameKinds ==
  ASSUME NamesAssumption
  PROVE  /\ \A f \in Requests :
               /\ f.type \in {"get", "conf", "send", "ack"}
               /\ f.type = "send" => f.msg \in Outgoing
               /\ f.type = "ack" => f.msg \in Incoming \cup {Configuration}
         /\ \A f \in Answers :
               /\ f.type \in {"get", "conf", "ack", "corrupted"}
               /\ f.type = "get" => f.msg \in Incoming
               /\ f.type = "ack" => f = Ack
               /\ f.type = "corrupted" => f = Corrupted
         /\ Ack.type = "ack" /\ Corrupted.type = "corrupted" /\ Conf.type = "conf"
         /\ \A t, m : Carrying(t, m).type = t /\ Carrying(t, m).msg = m
         /\ Idle.op = "idle"
BY DEF Requests, Answers, Get, Conf, Ack, Corrupted, Carrying, Idle

\* Initially every variable has its type.
LEMMA InitTyped == ASSUME Assumptions, Init PROVE Typed
<1>1. <<>> \in Seq(Incoming) /\ <<>> \in Seq(Requests) /\ <<>> \in Seq(Answers)
  BY EmptySeq
<1> QED BY <1>1, EmptySeq DEF Assumptions, BoundsAssumption, Init, Typed, Idle, PeekedIsHead

-----------------------------------------------------------------------------
(* Types.                                                                  *)

\* main: a new process keeps the types.
LEMMA StartTyped ==
  ASSUME Assumptions, Typed, NEW op, NEW m, m \in Outgoing \cup {NoMsg}, Start(op, m)
  PROVE  Typed'
<1>1. op \in {"get", "send", "conf"} /\ (op = "send" => m \in Outgoing)
  BY DEF Start, Assumptions, CallsAssumption
<1>2. up' \in Seq(Requests)
  BY <1>1, RequestTyped, AppendIs DEF Start, Typed
<1>3. down' \in Seq(Answers)
  BY EmptySeq DEF Start
<1>4. /\ call' \in [op : Calls \cup {"idle"}, msg : Outgoing \cup {NoMsg},
                    attempt : 0..MaxRetries, again : BOOLEAN]
      /\ Calling'
  BY <1>1 DEF Start, Assumptions, BoundsAssumption, Calling
<1>5. calls' \in 0..MaxCalls
  BY DEF Start, Typed, Assumptions, BoundsAssumption
<1> QED BY <1>2, <1>3, <1>4, <1>5 DEF Start, Typed, PeekedIsHead, device, arrivals, told

\* Ending a call, and writing its request again, keep the types.
LEMMA EndsTyped ==
  ASSUME Assumptions, Typed, NEW how \in {"ok", "error"}, Ends(how)
  PROVE  /\ call' = Idle /\ result' \in [Outgoing -> {"none", "ok", "error"}]
         /\ call' \in [op : Calls \cup {"idle"}, msg : Outgoing \cup {NoMsg},
                       attempt : 0..MaxRetries, again : BOOLEAN]
<1>1. call' = Idle
  BY DEF Ends
<1>2. result' \in [Outgoing -> {"none", "ok", "error"}]
  BY DEF Ends, Typed
<1>3. Idle \in [op : Calls \cup {"idle"}, msg : Outgoing \cup {NoMsg},
               attempt : 0..MaxRetries, again : BOOLEAN]
  BY DEF Idle, Assumptions, BoundsAssumption
<1> QED BY <1>1, <1>2, <1>3

\* A retry, or the end of the retries, keeps the types.
LEMMA RetryTyped ==
  ASSUME Assumptions, Typed, call # Idle, Retry
  PROVE  /\ up' \in Seq(Requests)
         /\ result' \in [Outgoing -> {"none", "ok", "error"}]
         /\ call' \in [op : Calls \cup {"idle"}, msg : Outgoing \cup {NoMsg},
                       attempt : 0..MaxRetries, again : BOOLEAN]
         /\ (call = Idle \/ Calling)'
<1>1. CASE call.attempt < MaxRetries
  <2>1. /\ call' = [call EXCEPT !.attempt = call.attempt + 1, !.again = FALSE]
        /\ up' = Append(up, Request(call.op, call.msg)) /\ result' = result
    BY <1>1 DEF Retry, NextAttempt
  <2>2. call.attempt + 1 \in 0..MaxRetries
    BY <1>1 DEF Typed, Assumptions, BoundsAssumption
  <2>3. Calling /\ call.op \in {"get", "send", "conf"}
    BY DEF Typed, Calling, Assumptions, CallsAssumption
  <2>4. up' \in Seq(Requests)
    BY <2>1, <2>3, RequestTyped, AppendIs DEF Typed, Calling
  <2>5. call'.op = call.op /\ call'.msg = call.msg
    BY <2>1 DEF Typed
  <2>6. Calling'
    BY <2>3, <2>5 DEF Calling
  <2> QED BY <2>1, <2>2, <2>4, <2>6 DEF Typed
<1>2. CASE ~(call.attempt < MaxRetries)
  <2>1. Ends("error") /\ up' = up
    BY <1>2 DEF Retry
  <2> QED BY <2>1, EndsTyped DEF Typed
<1> QED BY <1>1, <1>2

\* awaitReply and its callers keep the types.
LEMMA HostTyped ==
  ASSUME Assumptions, Typed, HostReceives
  PROVE  Typed'
<1>1. down # <<>> /\ down' = Tail(down) /\ call # Idle
  BY DEF HostReceives, ReceiveCorrupted, ReceiveAck, ReceiveContent, ReceiveOther
<1>2. down' \in Seq(Answers) /\ Head(down) \in Answers /\ Head(down) = down[1]
  BY <1>1, TailIs DEF Typed
<1>3. CASE ReceiveCorrupted
  <2>1. CASE call.again
    BY <1>1, <1>2, <1>3, <2>1, RetryTyped
       DEF ReceiveCorrupted, Typed, PeekedIsHead, device, arrivals, bounds
  <2>2. CASE ~call.again
    <3>1. call' = [call EXCEPT !.again = TRUE] /\ UNCHANGED <<up, result>>
      BY <1>3, <2>2 DEF ReceiveCorrupted
    <3>2. call'.op = call.op /\ call'.msg = call.msg
      BY <3>1 DEF Typed
    <3>3. Calling'
      BY <1>1, <3>2 DEF Typed, Calling
    <3>4. call' \in [op : Calls \cup {"idle"}, msg : Outgoing \cup {NoMsg},
                     attempt : 0..MaxRetries, again : BOOLEAN]
      BY <3>1 DEF Typed
    <3> QED BY <1>2, <1>3, <3>1, <3>3, <3>4
               DEF ReceiveCorrupted, Typed, PeekedIsHead, device, arrivals, bounds
  <2> QED BY <2>1, <2>2
<1>4. CASE ReceiveAck
  BY <1>2, <1>4, EndsTyped DEF ReceiveAck, Typed, PeekedIsHead, device, arrivals, bounds
<1>5. CASE ReceiveContent
  <2>1. call.op = "get" => Head(down).msg \in Incoming
    BY <1>2, <1>5, FrameKinds DEF ReceiveContent, Assumptions
  <2>2. Carrying("ack", Acknowledged) \in Requests
    BY <2>1 DEF Acknowledged, Requests
  <2>3. up' \in Seq(Requests)
    BY <1>5, <2>2, AppendIs DEF ReceiveContent, Typed
  <2>4. got' \in Seq(Incoming)
    BY <1>5, <2>1, AppendIs DEF ReceiveContent, Typed
  <2>5. call' \in [op : Calls \cup {"idle"}, msg : Outgoing \cup {NoMsg},
                   attempt : 0..MaxRetries, again : BOOLEAN]
    BY <1>5 DEF ReceiveContent, Idle, Assumptions, BoundsAssumption
  <2> QED BY <1>2, <1>5, <2>3, <2>4, <2>5
             DEF ReceiveContent, Typed, PeekedIsHead, device, arrivals, bounds
<1>6. CASE ReceiveOther
  BY <1>1, <1>2, <1>6, RetryTyped
     DEF ReceiveOther, Typed, PeekedIsHead, device, arrivals, bounds
<1> QED BY <1>3, <1>4, <1>5, <1>6 DEF HostReceives

\* So does a timeout.
LEMMA TimeoutTyped == ASSUME Assumptions, Typed, Timeout PROVE Typed'
<1>1. lates' \in 0..MaxLate
  BY DEF Timeout, Typed, Assumptions, BoundsAssumption
<1> QED BY <1>1, RetryTyped DEF Timeout, Typed, PeekedIsHead, device, arrivals

\* The frame handlers keep the types, and handleAck finds what was peeked.
LEMMA DeviceTyped == ASSUME Assumptions, Typed, DeviceStep PROVE Typed'
<1>1. up # <<>> /\ up' = Tail(up)
  BY DEF DeviceStep, HandleGetmsg, AcceptSendmsg, RefuseSendmsg, HandleGetconf, HandleAck,
         Reading, Answer, Refusal
<1>2. up' \in Seq(Requests) /\ Head(up) \in Requests /\ Head(up) = up[1]
  BY <1>1, TailIs DEF Typed
<1>3. CASE HandleGetmsg
  <2>1. NowPeeked \in Incoming \cup {NoMsg}
    BY TailIs DEF NowPeeked, Typed
  <2>2. (IF NowPeeked = NoMsg THEN Ack ELSE Carrying("get", NowPeeked)) \in Answers
    BY <2>1 DEF Answers
  <2>3. down' \in Seq(Answers)
    BY <1>3, <2>2, AppendIs DEF HandleGetmsg, Answer, Typed
  <2>4. PeekedIsHead'
    BY <1>3, TailIs DEF HandleGetmsg, NowPeeked, PeekedIsHead, Typed
  <2> QED BY <1>2, <1>3, <2>1, <2>3, <2>4
             DEF HandleGetmsg, Typed, Calling, arrivals, told, bounds
<1>4. CASE AcceptSendmsg
  <2>1. Head(up).msg \in Outgoing
    BY <1>2, <1>4, FrameKinds DEF AcceptSendmsg, Reading, Assumptions
  <2>2. down' \in Seq(Answers)
    BY <1>4, AppendIs DEF AcceptSendmsg, Answer, Typed, Answers
  <2>3. queued' \in [Outgoing -> Nat]
    BY <1>4, <2>1 DEF AcceptSendmsg, Typed
  <2> QED BY <1>2, <1>4, <2>2, <2>3
             DEF AcceptSendmsg, Typed, PeekedIsHead, Calling, arrivals, told, bounds
<1>5. CASE RefuseSendmsg
  BY <1>2, <1>5 DEF RefuseSendmsg, Refusal, Typed, PeekedIsHead, Calling, device, arrivals,
                    told, bounds
<1>6. CASE HandleGetconf
  <2>1. down' \in Seq(Answers)
    BY <1>6, AppendIs DEF HandleGetconf, Answer, Typed, Answers
  <2> QED BY <1>2, <1>6, <2>1
             DEF HandleGetconf, Typed, PeekedIsHead, Calling, device, arrivals, told, bounds
<1>7. CASE HandleAck
  <2>1. Head(up).msg \in Incoming \cup {Configuration}
    BY <1>2, <1>7, FrameKinds DEF HandleAck, Reading, Assumptions
  <2>2. /\ rxQueue' \in Seq(Incoming) /\ Len(rxQueue') <= RxDepth
        /\ popped' \subseteq Incoming \X (Incoming \cup {Configuration})
        /\ peeked' \in Incoming \cup {NoMsg} /\ PeekedIsHead'
    <3>1. CASE Popping
      <4>1. rxQueue # <<>>
        BY <3>1 DEF Popping, Typed, PeekedIsHead
      <4>2. /\ rxQueue' = Tail(rxQueue) /\ peeked' = NoMsg
            /\ popped' = popped \cup {<<Head(rxQueue), Head(up).msg>>}
        BY <1>7, <3>1 DEF HandleAck
      <4>3. /\ Head(rxQueue) \in Incoming /\ rxQueue' \in Seq(Incoming)
            /\ Len(rxQueue') = Len(rxQueue) - 1
        BY <4>1, <4>2, TailIs DEF Typed
      <4>4. Len(rxQueue') <= RxDepth
        BY <4>3, LenProperties DEF Typed, Assumptions, BoundsAssumption
      <4> QED BY <2>1, <4>2, <4>3, <4>4 DEF Typed, PeekedIsHead
    <3>2. CASE ~Popping
      BY <1>7, <3>2 DEF HandleAck, Typed, PeekedIsHead
    <3> QED BY <3>1, <3>2
  <2> QED BY <1>2, <1>7, <2>2 DEF HandleAck, Typed, Calling, arrivals, told, bounds
<1> QED BY <1>3, <1>4, <1>5, <1>6, <1>7 DEF DeviceStep

\* onReceive keeps the types and the depth of the queue.
LEMMA ReceiveTyped ==
  ASSUME Assumptions, Typed, NEW m \in Incoming, OnReceive(m)
  PROVE  Typed'
<1>1. CASE HasRoom
  <2>1. rxQueue' = Append(rxQueue, m) /\ arrived' = Append(arrived, m)
    BY <1>1 DEF OnReceive, Queued
  <2>2. /\ rxQueue' \in Seq(Incoming) /\ Len(rxQueue') = Len(rxQueue) + 1
        /\ arrived' \in Seq(Incoming) /\ rxQueue' # <<>>
        /\ \A i \in 1..Len(rxQueue) : rxQueue'[i] = rxQueue[i]
    BY <2>1, AppendIs, AppendProperties DEF Typed
  <2>3. Len(rxQueue') <= RxDepth
    BY <1>1, <2>2, LenProperties DEF HasRoom, Typed, Assumptions, BoundsAssumption
  <2>4. PeekedIsHead'
    BY <2>2, TailIs, LenProperties DEF OnReceive, PeekedIsHead, Typed
  <2> QED BY <2>2, <2>3, <2>4 DEF OnReceive, Typed, Calling, line, told, bounds
<1>2. CASE ~HasRoom
  BY <1>2 DEF OnReceive, Typed, Calling, PeekedIsHead, line, told, bounds
<1> QED BY <1>1, <1>2

\* So do losses and corruption on the line.
LEMMA LineTyped ==
  ASSUME Assumptions, Typed, LoseUp \/ LoseDown \/ CorruptDown
  PROVE  Typed'
<1>1. faults' \in 0..MaxFaults
  BY DEF LoseUp, LoseDown, CorruptDown, Fault, Typed, Assumptions, BoundsAssumption
<1>2. up' \in Seq(Requests)
  <2>1. CASE LoseUp
    BY <2>1, TailIs DEF LoseUp, Typed
  <2>2. CASE LoseDown \/ CorruptDown
    BY <2>2 DEF LoseDown, CorruptDown, Typed
  <2> QED BY <2>1, <2>2
<1>3. down' \in Seq(Answers)
  <2>1. CASE LoseUp
    BY <2>1 DEF LoseUp, Typed
  <2>2. CASE LoseDown
    BY <2>2, FrontIs DEF LoseDown, Typed
  <2>3. CASE CorruptDown
    <3>1. Len(down) \in 1..Len(down)
      BY <2>3, TailIs, LenProperties DEF CorruptDown, Typed
    <3>2. Corrupted \in Answers
      BY DEF Answers
    <3> QED BY <2>3, <3>1, <3>2, ExceptSeq DEF CorruptDown, Typed
  <2> QED BY <2>1, <2>2, <2>3
<1> QED BY <1>1, <1>2, <1>3
       DEF LoseUp, LoseDown, CorruptDown, Typed, Calling, PeekedIsHead, device, arrivals, told

\* Every step keeps the types.
LEMMA NextTyped == ASSUME Assumptions, Typed, [Next]_vars PROVE Typed'
<1>1. ASSUME NEW op \in Calls, NEW m \in Outgoing \cup {NoMsg}, Start(op, m) PROVE Typed'
  BY <1>1, StartTyped
<1>2. CASE HostReceives
  BY <1>2, HostTyped
<1>3. CASE Timeout
  BY <1>3, TimeoutTyped
<1>4. CASE DeviceStep
  BY <1>4, DeviceTyped
<1>5. ASSUME NEW m \in Incoming, OnReceive(m) PROVE Typed'
  BY <1>5, ReceiveTyped
<1>6. CASE LoseUp \/ LoseDown \/ CorruptDown
  BY <1>6, LineTyped
<1>7. CASE UNCHANGED vars
  BY <1>7 DEF vars, device, line, arrivals, told, bounds, Typed, Calling, PeekedIsHead
<1> QED BY <1>1, <1>2, <1>3, <1>4, <1>5, <1>6, <1>7 DEF Next

-----------------------------------------------------------------------------
(* Order.                                                                  *)

\* In s, a comes no later than b; m is among the first n of s.
Before(s, a, b) == \A k, l \in 1..Len(s) : s[k] = a /\ s[l] = b => k <= l
Known(s, n, m) == \E k \in 1..Len(s) : k <= n /\ s[k] = m

Distinct(s) == \A i, j \in 1..Len(s) : s[i] = s[j] => i = j

\* What was printed and what is on its way come in the order of s, none of it
\* beyond the n-th.
InLine(s, n, g, d) ==
  /\ \A i \in 1..Len(g) : Known(s, n, g[i])
  /\ \A j \in 1..Len(d) : d[j].type = "get" => Known(s, n, d[j].msg)
  /\ \A i, j \in 1..Len(g) : i < j => Before(s, g[i], g[j])
  /\ \A i \in 1..Len(g), j \in 1..Len(d) :
        d[j].type = "get" => Before(s, g[i], d[j].msg)
  /\ \A i, j \in 1..Len(d) :
        i < j /\ d[i].type = "get" /\ d[j].type = "get" => Before(s, d[i].msg, d[j].msg)

\* What is known comes no later than the n-th.
LEMMA KnownBefore ==
  ASSUME NEW X, NEW s \in Seq(X), NEW n \in 1..Len(s), Distinct(s), NEW m, Known(s, n, m)
  PROVE  Before(s, m, s[n])
<1>1. Len(s) \in Nat
  BY LenProperties
<1>2. PICK k \in 1..Len(s) : k <= n /\ s[k] = m
  BY DEF Known
<1>3. ASSUME NEW i \in 1..Len(s), NEW j \in 1..Len(s), s[i] = m, s[j] = s[n] PROVE i <= j
  <2>1. i = k /\ j = n
    BY <1>2, <1>3 DEF Distinct
  <2> QED BY <1>2, <2>1
<1> QED BY <1>3 DEF Before

\* A message that arrives changes neither the order nor what is known.
LEMMA ArrivalKeepsOrder ==
  ASSUME NEW X, NEW s \in Seq(X), NEW e \in X, NEW n \in Nat, n <= Len(s),
         \A i \in 1..Len(s) : s[i] # e
  PROVE  /\ \A m : Known(s, n, m) => Known(Append(s, e), n, m)
         /\ \A a, b : Known(s, n, a) /\ Known(s, n, b) /\ Before(s, a, b)
                         => Before(Append(s, e), a, b)
<1> DEFINE t == Append(s, e)
<1>1. /\ Len(s) \in Nat /\ Len(t) = Len(s) + 1
      /\ \A i \in 1..Len(s) : t[i] = s[i]
      /\ t[Len(s) + 1] = e
  BY AppendIs, LenProperties
<1> HIDE DEF t
<1>2. ASSUME NEW m, Known(s, n, m) PROVE Known(t, n, m)
  <2>1. PICK k \in 1..Len(s) : k <= n /\ s[k] = m
    BY <1>2 DEF Known
  <2>2. k \in 1..Len(t) /\ t[k] = m
    BY <1>1, <2>1
  <2> QED BY <2>1, <2>2 DEF Known
<1>3. ASSUME NEW a, NEW b, Known(s, n, a), Known(s, n, b), Before(s, a, b)
      PROVE  Before(t, a, b)
  <2>1. a # e /\ b # e
    BY <1>3 DEF Known
  <2>2. ASSUME NEW k \in 1..Len(t), NEW l \in 1..Len(t), t[k] = a, t[l] = b PROVE k <= l
    <3>1. k \in 1..Len(s) /\ l \in 1..Len(s)
      BY <1>1, <2>1, <2>2
    <3>2. s[k] = a /\ s[l] = b
      BY <1>1, <2>2, <3>1
    <3> QED BY <1>3, <3>1, <3>2 DEF Before
  <2> QED BY <2>2 DEF Before
<1> QED BY <1>2, <1>3 DEF t

\* The same for all that was printed or is on its way.
LEMMA LineArrival ==
  ASSUME NEW X, NEW s \in Seq(X), NEW e \in X, NEW n \in Nat, n <= Len(s),
         \A i \in 1..Len(s) : s[i] # e, NEW g, NEW d, InLine(s, n, g, d)
  PROVE  InLine(Append(s, e), n, g, d)
<1>1. /\ \A m : Known(s, n, m) => Known(Append(s, e), n, m)
      /\ \A a, b : Known(s, n, a) /\ Known(s, n, b) /\ Before(s, a, b)
                      => Before(Append(s, e), a, b)
  BY ArrivalKeepsOrder
<1> QED BY <1>1 DEF InLine

\* More may be known.
LEMMA LineGrows ==
  ASSUME NEW s, NEW n \in Int, NEW p \in Int, n <= p, NEW g, NEW d, InLine(s, n, g, d)
  PROVE  InLine(s, p, g, d)
<1>1. ASSUME NEW m, Known(s, n, m) PROVE Known(s, p, m)
  BY <1>1 DEF Known
<1> QED BY <1>1 DEF InLine

\* Frames are taken from an end of the line, or turned into others.
LEMMA LineLoses ==
  ASSUME NEW s, NEW n, NEW g, NEW d, InLine(s, n, g, d), NEW c \in {0, 1}, NEW t,
         Len(t) \in Nat, Len(d) \in Nat,
         \A i \in 1..Len(t) : i + c \in 1..Len(d) /\ (t[i].type = "get" => t[i] = d[i + c])
  PROVE  InLine(s, n, g, t)
<1>1. ASSUME NEW i \in 1..Len(t), t[i].type = "get" PROVE Known(s, n, t[i].msg)
  BY <1>1 DEF InLine
<1>2. ASSUME NEW i \in 1..Len(g), NEW j \in 1..Len(t), t[j].type = "get"
      PROVE  Before(s, g[i], t[j].msg)
  BY <1>2 DEF InLine
<1>3. ASSUME NEW i \in 1..Len(t), NEW j \in 1..Len(t), i < j,
             t[i].type = "get", t[j].type = "get"
      PROVE  Before(s, t[i].msg, t[j].msg)
  <2>1. i + c \in 1..Len(d) /\ j + c \in 1..Len(d) /\ i + c < j + c
    BY <1>3
  <2>2. d[i + c].type = "get" /\ d[j + c].type = "get" /\ t[i] = d[i + c] /\ t[j] = d[j + c]
    BY <1>3
  <2>3. Before(s, d[i + c].msg, d[j + c].msg)
    BY <2>1, <2>2 DEF InLine
  <2> QED BY <2>2, <2>3
<1> QED BY <1>1, <1>2, <1>3 DEF InLine

\* The first frame is printed.
LEMMA LinePrints ==
  ASSUME NEW X, NEW Y, NEW s, NEW n, NEW g \in Seq(X), NEW d \in Seq(Y), InLine(s, n, g, d),
         d # <<>>, d[1].type = "get", d[1].msg \in X
  PROVE  InLine(s, n, Append(g, d[1].msg), Tail(d))
<1> DEFINE h == Append(g, d[1].msg)
           t == Tail(d)
<1>1. /\ Len(g) \in Nat /\ Len(d) \in Nat /\ Len(d) >= 1
      /\ Len(h) = Len(g) + 1 /\ h[Len(g) + 1] = d[1].msg
      /\ \A i \in 1..Len(g) : h[i] = g[i]
      /\ Len(t) = Len(d) - 1 /\ \A i \in 1..Len(t) : t[i] = d[i + 1]
  BY AppendIs, TailIs, LenProperties
<1> HIDE DEF h, t
<1>2. \A i \in 1..Len(t) : i + 1 \in 1..Len(d) /\ 1 < i + 1
  BY <1>1
<1>3. 1 \in 1..Len(d)
  BY <1>1
<1>4. InLine(s, n, g, t)
  BY <1>1, <1>2, LineLoses
<1>5. ASSUME NEW i \in 1..Len(h) PROVE Known(s, n, h[i])
  <2>1. CASE i \in 1..Len(g)
    BY <1>1, <2>1 DEF InLine
  <2>2. CASE i = Len(g) + 1
    BY <1>1, <1>3, <2>2 DEF InLine
  <2> QED BY <1>1, <2>1, <2>2
<1>6. ASSUME NEW i \in 1..Len(h), NEW j \in 1..Len(h), i < j PROVE Before(s, h[i], h[j])
  <2>1. CASE j \in 1..Len(g)
    BY <1>1, <1>6, <2>1 DEF InLine
  <2>2. CASE j = Len(g) + 1
    <3>1. i \in 1..Len(g) /\ h[i] = g[i] /\ h[j] = d[1].msg
      BY <1>1, <1>6, <2>2
    <3> QED BY <1>3, <3>1 DEF InLine
  <2> QED BY <1>1, <2>1, <2>2
<1>7. ASSUME NEW i \in 1..Len(h), NEW j \in 1..Len(t), t[j].type = "get"
      PROVE  Before(s, h[i], t[j].msg)
  <2>1. CASE i \in 1..Len(g)
    BY <1>1, <1>4, <1>7, <2>1 DEF InLine
  <2>2. CASE i = Len(g) + 1
    <3>1. h[i] = d[1].msg /\ t[j] = d[j + 1]
      BY <1>1, <2>2
    <3>2. Before(s, d[1].msg, d[j + 1].msg)
      BY <1>2, <1>3, <1>7, <3>1 DEF InLine
    <3> QED BY <3>1, <3>2
  <2> QED BY <1>1, <2>1, <2>2
<1>8. InLine(s, n, h, t)
  BY <1>4, <1>5, <1>6, <1>7 DEF InLine
<1> QED BY <1>8 DEF h, t

\* An answer that carries the n-th, or nothing, comes behind all the others.
LEMMA LineAnswers ==
  ASSUME NEW X, NEW Y, NEW s \in Seq(X), NEW n \in Int, Distinct(s),
         NEW g, NEW d \in Seq(Y), InLine(s, n, g, d), NEW f \in Y,
         f.type = "get" => n \in 1..Len(s) /\ f.msg = s[n]
  PROVE  InLine(s, n, g, Append(d, f))
<1> DEFINE t == Append(d, f)
<1>1. /\ Len(d) \in Nat /\ Len(t) = Len(d) + 1 /\ t[Len(d) + 1] = f
      /\ \A i \in 1..Len(d) : t[i] = d[i]
  BY AppendIs, LenProperties
<1> HIDE DEF t
<1>2. f.type = "get" => Known(s, n, f.msg)
  BY DEF Known
<1>3. f.type = "get" => \A m : Known(s, n, m) => Before(s, m, f.msg)
  BY KnownBefore
<1>4. ASSUME NEW j \in 1..Len(t), t[j].type = "get"
      PROVE  Known(s, n, t[j].msg) /\ \A i \in 1..Len(g) : Before(s, g[i], t[j].msg)
  <2>1. CASE j \in 1..Len(d)
    BY <1>1, <1>4, <2>1 DEF InLine
  <2>2. CASE j = Len(d) + 1
    BY <1>1, <1>2, <1>3, <1>4, <2>2 DEF InLine
  <2> QED BY <1>1, <2>1, <2>2
<1>5. ASSUME NEW i \in 1..Len(t), NEW j \in 1..Len(t), i < j,
             t[i].type = "get", t[j].type = "get"
      PROVE  Before(s, t[i].msg, t[j].msg)
  <2>1. i \in 1..Len(d) /\ t[i] = d[i]
    BY <1>1, <1>5
  <2>2. CASE j \in 1..Len(d)
    BY <1>1, <1>5, <2>1, <2>2 DEF InLine
  <2>3. CASE j = Len(d) + 1
    <3>1. t[j] = f /\ Known(s, n, t[i].msg)
      BY <1>1, <1>5, <2>1, <2>3 DEF InLine
    <3> QED BY <1>3, <1>5, <3>1
  <2> QED BY <1>1, <2>2, <2>3
<1>6. InLine(s, n, g, t)
  BY <1>4, <1>5 DEF InLine
<1> QED BY <1>6 DEF t

\* How far the queue has been shown to the host: all that was popped, and the
\* message that is peeked.
Shown == Len(arrived) - Len(rxQueue) + (IF peeked = NoMsg THEN 0 ELSE 1)

\* The queue is the end of what arrived, and a message arrives once.
QueueIsEnd ==
  /\ Len(rxQueue) <= Len(arrived)
  /\ \A i \in 1..Len(rxQueue) : rxQueue[i] = arrived[Len(arrived) - Len(rxQueue) + i]
  /\ \A i \in 1..Len(arrived) : arrived[i] \notin coming
  /\ Distinct(arrived)

InOrder == QueueIsEnd /\ InLine(arrived, Shown, got, down)

\* What is shown has arrived.
LEMMA ShownArrived ==
  ASSUME Typed, QueueIsEnd
  PROVE  /\ Len(arrived) \in Nat /\ Len(rxQueue) \in Nat /\ Len(down) \in Nat
         /\ Len(got) \in Nat /\ Shown \in Nat /\ Shown <= Len(arrived)
         /\ peeked # NoMsg => Shown \in 1..Len(arrived) /\ peeked = arrived[Shown]
<1>1. Len(arrived) \in Nat /\ Len(rxQueue) \in Nat /\ Len(down) \in Nat /\ Len(got) \in Nat
  BY LenProperties DEF Typed
<1>2. peeked # NoMsg => Len(rxQueue) >= 1 /\ peeked = rxQueue[1]
  BY TailIs DEF Typed, PeekedIsHead
<1>3. CASE peeked = NoMsg
  BY <1>1, <1>3 DEF Shown, QueueIsEnd
<1>4. CASE peeked # NoMsg
  <2>1. Shown = Len(arrived) - Len(rxQueue) + 1
    BY <1>4 DEF Shown
  <2>2. 1 \in 1..Len(rxQueue)
    BY <1>1, <1>2, <1>4
  <2>3. peeked = arrived[Len(arrived) - Len(rxQueue) + 1]
    BY <1>2, <1>4, <2>2 DEF QueueIsEnd
  <2>4. Shown \in 1..Len(arrived)
    BY <1>1, <1>2, <1>4, <2>1 DEF QueueIsEnd
  <2> QED BY <1>1, <2>1, <2>3, <2>4
<1> QED BY <1>3, <1>4

\* Initially nothing has arrived.
LEMMA InitInOrder == ASSUME Init PROVE InOrder
<1>1. Len(<<>>) = 0
  OBVIOUS
<1> QED BY <1>1 DEF Init, InOrder, QueueIsEnd, Distinct, InLine

\* A step that leaves the queue and what was printed alone and takes frames off
\* the line, or turns them into others, keeps the order.
LEMMA LossKeepsOrder ==
  ASSUME Typed, InOrder, NEW c \in {0, 1},
         UNCHANGED <<rxQueue, peeked, arrived, coming, got>>, Len(down') \in Nat,
         \A i \in 1..Len(down') :
            i + c \in 1..Len(down) /\ (down'[i].type = "get" => down'[i] = down[i + c])
  PROVE  InOrder'
<1>1. QueueIsEnd' /\ Shown' = Shown
  BY DEF InOrder, QueueIsEnd, Distinct, Shown
<1>2. Len(down) \in Nat
  BY ShownArrived DEF InOrder
<1>3. InLine(arrived, Shown, got, down')
  BY <1>2, LineLoses DEF InOrder
<1> QED BY <1>1, <1>3 DEF InOrder

\* The first frame is taken off the line.
LEMMA TakenKeepsOrder ==
  ASSUME Typed, InOrder, down # <<>>, down' = Tail(down),
         UNCHANGED <<rxQueue, peeked, arrived, coming, got>>
  PROVE  InOrder'
<1>1. /\ Len(down) \in Nat /\ Len(down') \in Nat /\ Len(down') = Len(down) - 1
      /\ \A i \in 1..Len(down') : down'[i] = down[i + 1]
  BY TailIs, LenProperties DEF Typed
<1>2. \A i \in 1..Len(down') : i + 1 \in 1..Len(down)
  BY <1>1
<1> QED BY <1>1, <1>2, LossKeepsOrder

\* An answer without a message is put on the line.
LEMMA AnswerKeepsOrder ==
  ASSUME Assumptions, Typed, InOrder, NEW f \in {Ack, Conf}, down' = Append(down, f),
         UNCHANGED <<rxQueue, peeked, arrived, coming, got>>
  PROVE  InOrder'
<1>1. QueueIsEnd' /\ Shown' = Shown
  BY DEF InOrder, QueueIsEnd, Distinct, Shown
<1>2. f \in Answers /\ f.type # "get"
  BY DEF Answers, Ack, Conf
<1>3. Shown \in Int
  BY ShownArrived DEF InOrder
<1>4. InLine(arrived, Shown, got, down')
  BY <1>2, <1>3, LineAnswers DEF InOrder, QueueIsEnd, Typed
<1> QED BY <1>1, <1>4 DEF InOrder

\* What the host takes off the line it prints in order.
LEMMA HostInOrder ==
  ASSUME Assumptions, Typed, InOrder, HostReceives
  PROVE  InOrder'
<1>1. /\ down # <<>> /\ down' = Tail(down)
      /\ UNCHANGED <<rxQueue, peeked, arrived, coming>>
  BY DEF HostReceives, ReceiveCorrupted, ReceiveAck, ReceiveContent, ReceiveOther,
         device, arrivals
<1>2. CASE got' = got
  BY <1>1, <1>2, TakenKeepsOrder
<1>3. CASE got' # got
  <2>1. /\ ReceiveContent /\ call.op = "get" /\ Head(down).type = "get"
        /\ got' = Append(got, Head(down).msg)
    BY <1>3 DEF HostReceives, ReceiveCorrupted, ReceiveAck, ReceiveContent, ReceiveOther
  <2>2. Head(down) = down[1] /\ down[1] \in Answers
    BY <1>1, TailIs DEF Typed
  <2>3. down[1].msg \in Incoming
    BY <2>1, <2>2, FrameKinds DEF Assumptions
  <2>4. InLine(arrived, Shown, got', down')
    BY <1>1, <2>1, <2>2, <2>3, LinePrints DEF InOrder, Typed
  <2>5. QueueIsEnd' /\ Shown' = Shown
    BY <1>1 DEF InOrder, QueueIsEnd, Distinct, Shown
  <2> QED BY <1>1, <2>4, <2>5 DEF InOrder
<1> QED BY <1>2, <1>3

\* The handlers answer with the head of the queue, and pop no other.
LEMMA DeviceInOrder ==
  ASSUME Assumptions, Typed, Typed', InOrder, DeviceStep
  PROVE  InOrder'
<1>1. CASE HandleGetmsg
  <2>1. /\ peeked' = NowPeeked /\ UNCHANGED <<rxQueue, arrived, coming, got>>
        /\ down' = Append(down, IF NowPeeked = NoMsg THEN Ack ELSE Carrying("get", NowPeeked))
    BY <1>1 DEF HandleGetmsg, Answer, arrivals, told
  <2>2. QueueIsEnd'
    BY <2>1 DEF InOrder, QueueIsEnd, Distinct
  <2>3. Shown \in Int /\ Shown' \in Int /\ Shown <= Shown'
    <3>1. peeked # NoMsg => peeked' = peeked
      BY <2>1 DEF NowPeeked
    <3>2. Len(arrived) \in Nat /\ Len(rxQueue) \in Nat
      BY ShownArrived DEF InOrder
    <3> QED BY <2>1, <3>1, <3>2 DEF Shown
  <2>4. InLine(arrived, Shown', got, down)
    BY <2>3, LineGrows DEF InOrder
  <2>5. PICK f : f = (IF NowPeeked = NoMsg THEN Ack ELSE Carrying("get", NowPeeked))
    OBVIOUS
  <2>6. NowPeeked \in Incoming \cup {NoMsg}
    BY <2>1 DEF Typed
  <2>7. f \in Answers
    BY <2>5, <2>6 DEF Answers
  <2>8. f.type = "get" => Shown' \in 1..Len(arrived) /\ f.msg = arrived[Shown']
    <3>1. f.type = "get" => NowPeeked # NoMsg /\ f.msg = NowPeeked
      BY <2>5 DEF Ack, Carrying
    <3>2. peeked' # NoMsg => Shown' \in 1..Len(arrived) /\ peeked' = arrived[Shown']
      <4>1. /\ Len(arrived) \in Nat /\ Len(rxQueue) \in Nat
            /\ peeked' # NoMsg => Len(rxQueue) >= 1 /\ peeked' = rxQueue[1]
        BY <2>1, TailIs, LenProperties DEF Typed, PeekedIsHead
      <4>2. peeked' # NoMsg => Shown' = Len(arrived) - Len(rxQueue) + 1
        BY <2>1 DEF Shown
      <4>3. peeked' # NoMsg => 1 \in 1..Len(rxQueue)
        BY <4>1
      <4>4. peeked' # NoMsg => rxQueue[1] = arrived[Len(arrived) - Len(rxQueue) + 1]
        BY <4>3 DEF InOrder, QueueIsEnd
      <4>5. Len(rxQueue) <= Len(arrived)
        BY DEF InOrder, QueueIsEnd
      <4> QED BY <4>1, <4>2, <4>4, <4>5
    <3> QED BY <2>1, <3>1, <3>2
  <2>9. down' = Append(down, f)
    BY <2>1, <2>5
  <2>10. InLine(arrived, Shown', got, down')
    <3>1. Distinct(arrived) /\ arrived \in Seq(Incoming) /\ down \in Seq(Answers)
      BY DEF InOrder, QueueIsEnd, Typed
    <3>2. PICK n \in Int : n = Shown'
      BY <2>3
    <3>3. InLine(arrived, n, got, Append(down, f))
      BY <2>4, <2>7, <2>8, <3>1, <3>2, LineAnswers
    <3> QED BY <2>9, <3>2, <3>3
  <2> QED BY <2>1, <2>2, <2>10 DEF InOrder
<1>2. CASE AcceptSendmsg
  BY <1>2, AnswerKeepsOrder DEF AcceptSendmsg, Answer, arrivals, told
<1>3. CASE RefuseSendmsg
  BY <1>3 DEF RefuseSendmsg, Refusal, device, arrivals, told, InOrder, QueueIsEnd, Distinct,
              Shown
<1>4. CASE HandleGetconf
  BY <1>4, AnswerKeepsOrder DEF HandleGetconf, Answer, device, arrivals, told
<1>5. CASE HandleAck
  <2>1. UNCHANGED <<down, arrived, coming, got>>
    BY <1>5 DEF HandleAck, arrivals, told
  <2>2. CASE ~Popping
    BY <1>5, <2>1, <2>2 DEF HandleAck, InOrder, QueueIsEnd, Distinct, Shown
  <2>3. CASE Popping
    <3>1. peeked # NoMsg /\ rxQueue' = Tail(rxQueue) /\ peeked' = NoMsg
      BY <1>5, <2>3 DEF HandleAck, Popping
    <3>2. /\ Len(arrived) \in Nat /\ Len(rxQueue) \in Nat /\ Len(rxQueue') = Len(rxQueue) - 1
          /\ Len(rxQueue) >= 1
          /\ \A i \in 1..Len(rxQueue') : rxQueue'[i] = rxQueue[i + 1]
      BY <3>1, TailIs, LenProperties DEF Typed, PeekedIsHead
    <3>8. Shown = Len(arrived) - Len(rxQueue) + 1
      BY <3>1 DEF Shown
    <3>9. Shown' = Len(arrived) - Len(rxQueue') + 0
      BY <2>1, <3>1 DEF Shown
    <3>3. Shown' = Shown
      BY <3>2, <3>8, <3>9
    <3>4. ASSUME NEW i \in 1..Len(rxQueue')
          PROVE  rxQueue'[i] = arrived[Len(arrived) - Len(rxQueue') + i]
      <4>1. i + 1 \in 1..Len(rxQueue)
        BY <3>2
      <4>2. rxQueue[i + 1] = arrived[Len(arrived) - Len(rxQueue) + (i + 1)]
        BY <4>1 DEF InOrder, QueueIsEnd
      <4>3. Len(arrived) - Len(rxQueue) + (i + 1) = Len(arrived) - Len(rxQueue') + i
        BY <3>2, <4>1
      <4> QED BY <3>2, <4>2, <4>3
    <3>5. Len(rxQueue') <= Len(arrived)
      BY <3>2 DEF InOrder, QueueIsEnd
    <3>6. QueueIsEnd'
      BY <2>1, <3>4, <3>5 DEF InOrder, QueueIsEnd, Distinct
    <3> QED BY <2>1, <3>3, <3>6 DEF InOrder
  <2> QED BY <2>2, <2>3
<1> QED BY <1>1, <1>2, <1>3, <1>4, <1>5 DEF DeviceStep

\* onReceive appends: what was shown stays shown.
LEMMA ReceiveInOrder ==
  ASSUME Typed, InOrder, NEW m \in Incoming, OnReceive(m)
  PROVE  InOrder'
<1>1. m \in coming /\ coming' = coming \ {m} /\ UNCHANGED <<peeked, down, got>>
  BY DEF OnReceive, line, told
<1>2. CASE ~HasRoom
  BY <1>1, <1>2 DEF OnReceive, InOrder, QueueIsEnd, Distinct, Shown
<1>3. CASE HasRoom
  <2>1. rxQueue' = Append(rxQueue, m) /\ arrived' = Append(arrived, m)
    BY <1>3 DEF OnReceive, Queued
  <2>2. /\ Len(rxQueue) \in Nat /\ Len(arrived) \in Nat
        /\ Len(rxQueue') = Len(rxQueue) + 1 /\ Len(arrived') = Len(arrived) + 1
        /\ rxQueue'[Len(rxQueue) + 1] = m /\ arrived'[Len(arrived) + 1] = m
        /\ \A i \in 1..Len(rxQueue) : rxQueue'[i] = rxQueue[i]
        /\ \A i \in 1..Len(arrived) : arrived'[i] = arrived[i]
    BY <2>1, AppendIs, LenProperties DEF Typed
  <2>3. Len(rxQueue) <= Len(arrived)
    BY DEF InOrder, QueueIsEnd
  <2>4. ASSUME NEW i \in 1..Len(rxQueue')
        PROVE  rxQueue'[i] = arrived'[Len(arrived') - Len(rxQueue') + i]
    <3>8. i \in Int
      BY <2>2
    <3>9. Len(arrived) - Len(rxQueue) + i \in Int
      BY <2>2, <3>8
    <3>1. PICK j \in Int : j = Len(arrived) - Len(rxQueue) + i
      BY <3>9
    <3>2. Len(arrived') - Len(rxQueue') + i = j
      BY <2>2, <3>1
    <3>3. CASE i \in 1..Len(rxQueue)
      <4>1. j \in 1..Len(arrived)
        BY <2>2, <2>3, <3>1, <3>3
      <4>2. rxQueue[i] = arrived[j]
        BY <3>1, <3>3 DEF InOrder, QueueIsEnd
      <4> QED BY <2>2, <3>2, <3>3, <4>1, <4>2
    <3>4. CASE i = Len(rxQueue) + 1
      <4>1. j = Len(arrived) + 1
        BY <2>2, <3>1, <3>4
      <4> QED BY <2>2, <3>2, <3>4, <4>1
    <3> QED BY <2>2, <3>3, <3>4
  <2>5. \A i \in 1..Len(arrived) : arrived[i] # m
    BY <1>1 DEF InOrder, QueueIsEnd
  <2>6. \A i \in 1..Len(arrived') : arrived'[i] \notin coming'
    <3>1. ASSUME NEW i \in 1..Len(arrived') PROVE arrived'[i] \notin coming'
      <4>1. CASE i \in 1..Len(arrived)
        BY <1>1, <2>2, <4>1 DEF InOrder, QueueIsEnd
      <4>2. CASE i = Len(arrived) + 1
        BY <1>1, <2>2, <4>2
      <4> QED BY <2>2, <4>1, <4>2
    <3> QED BY <3>1
  <2>7. Distinct(arrived')
    <3>1. ASSUME NEW i \in 1..Len(arrived'), NEW j \in 1..Len(arrived'),
                 arrived'[i] = arrived'[j]
          PROVE  i = j
      <4>1. \A k \in 1..Len(arrived') :
               IF k = Len(arrived) + 1 THEN arrived'[k] = m
               ELSE k \in 1..Len(arrived) /\ arrived'[k] = arrived[k]
        BY <2>2
      <4>2. Distinct(arrived)
        BY DEF InOrder, QueueIsEnd
      <4> QED BY <2>5, <3>1, <4>1, <4>2 DEF Distinct
    <3> QED BY <3>1 DEF Distinct
  <2>8. QueueIsEnd'
    BY <2>2, <2>3, <2>4, <2>6, <2>7 DEF QueueIsEnd
  <2>9. Shown' = Shown /\ Shown \in Nat /\ Shown <= Len(arrived)
    <3>1. Shown' = Shown
      BY <1>1, <2>2 DEF Shown
    <3> QED BY <3>1, ShownArrived DEF InOrder
  <2>10. InLine(arrived', Shown, got, down)
    BY <2>1, <2>5, <2>9, LineArrival DEF InOrder, Typed
  <2> QED BY <1>1, <2>8, <2>9, <2>10 DEF InOrder
<1> QED BY <1>2, <1>3

\* The line loses and corrupts, it does not reorder.
LEMMA LineInOrder ==
  ASSUME Typed, InOrder, LoseUp \/ LoseDown \/ CorruptDown
  PROVE  InOrder'
<1>1. UNCHANGED <<rxQueue, peeked, arrived, coming, got>>
  BY DEF LoseUp, LoseDown, CorruptDown, device, arrivals, told
<1>2. CASE LoseUp
  BY <1>1, <1>2 DEF LoseUp, InOrder, QueueIsEnd, Distinct, Shown
<1>3. CASE LoseDown
  <2>1. /\ Len(down) \in Nat /\ Len(down') \in Nat /\ Len(down') = Len(down) - 1
        /\ \A i \in 1..Len(down') : down'[i] = down[i]
    BY <1>3, FrontIs, LenProperties DEF LoseDown, Typed
  <2>2. \A i \in 1..Len(down') : i + 0 \in 1..Len(down) /\ i + 0 = i
    BY <2>1
  <2> QED BY <1>1, <2>1, <2>2, LossKeepsOrder
<1>4. CASE CorruptDown
  <2>1. /\ Len(down) \in Nat /\ Len(down') = Len(down)
        /\ \A i \in 1..Len(down') : down'[i] = Corrupted \/ down'[i] = down[i]
    BY <1>4, ExceptSeq, LenProperties DEF CorruptDown, Typed
  <2>2. \A i \in 1..Len(down') : i + 0 \in 1..Len(down) /\ i + 0 = i
    BY <2>1
  <2>3. \A i \in 1..Len(down') : down'[i].type = "get" => down'[i] = down[i]
    BY <2>1 DEF Corrupted
  <2> QED BY <1>1, <2>1, <2>2, <2>3, LossKeepsOrder
<1> QED BY <1>2, <1>3, <1>4

\* A new process flushes the line.
LEMMA StartInOrder ==
  ASSUME Typed, InOrder, NEW op, NEW m, Start(op, m)
  PROVE  InOrder'
<1>1. UNCHANGED <<rxQueue, peeked, arrived, coming, got>> /\ down' = <<>>
  BY DEF Start, device, arrivals, told
<1>2. Len(down') = 0
  BY <1>1
<1> QED BY <1>1, <1>2, LossKeepsOrder

\* Every step keeps the order.
LEMMA NextInOrder ==
  ASSUME Assumptions, Typed, Typed', InOrder, [Next]_vars
  PROVE  InOrder'
<1>1. ASSUME NEW op \in Calls, NEW m \in Outgoing \cup {NoMsg}, Start(op, m) PROVE InOrder'
  BY <1>1, StartInOrder
<1>2. CASE HostReceives
  BY <1>2, HostInOrder
<1>3. CASE Timeout
  BY <1>3 DEF Timeout, device, arrivals, InOrder, QueueIsEnd, Distinct, Shown
<1>4. CASE DeviceStep
  BY <1>4, DeviceInOrder
<1>5. ASSUME NEW m \in Incoming, OnReceive(m) PROVE InOrder'
  BY <1>5, ReceiveInOrder
<1>6. CASE LoseUp \/ LoseDown \/ CorruptDown
  BY <1>6, LineInOrder
<1>7. CASE UNCHANGED vars
  BY <1>7 DEF vars, device, line, arrivals, told, bounds, InOrder, QueueIsEnd, Distinct, Shown
<1> QED BY <1>1, <1>2, <1>3, <1>4, <1>5, <1>6, <1>7 DEF Next

\* The order of the places is the order of Rank.
LEMMA InOrderIsReadInOrder == Typed /\ InOrder => ReadInOrder
<1> SUFFICES ASSUME Typed, InOrder PROVE ReadInOrder
  OBVIOUS
<1>1. DOMAIN got = 1..Len(got) /\ DOMAIN arrived = 1..Len(arrived)
  BY LenProperties DEF Typed
<1>2. ASSUME NEW i \in 1..Len(got)
      PROVE  Rank(got[i]) \in 1..Len(arrived) /\ arrived[Rank(got[i])] = got[i]
  <2>1. \E k \in 1..Len(arrived) : arrived[k] = got[i]
    BY DEF InOrder, InLine, Known
  <2> QED BY <1>1, <2>1 DEF Rank
<1>3. ASSUME NEW i \in 1..Len(got), NEW j \in 1..Len(got), i < j
      PROVE  Rank(got[i]) <= Rank(got[j])
  <2>1. Before(arrived, got[i], got[j])
    BY <1>3 DEF InOrder, InLine
  <2> QED BY <1>2, <2>1 DEF Before
<1> QED BY <1>1, <1>3 DEF ReadInOrder

-----------------------------------------------------------------------------
(* One exchange at a time.                                                 *)

\* While no answer came late, the line holds one answer, or one request, or an
\* ACK and perhaps the next call's request behind it; what is being answered or
\* acknowledged is the message that is peeked.
Exchange ==
  /\ Len(up) <= 2 /\ Len(down) <= 1
  /\ up # <<>> => down = <<>>
  /\ call = Idle => down = <<>> /\ Len(up) <= 1 /\ (up # <<>> => up[1].type = "ack")
  /\ call # Idle /\ Len(up) = 1 => up[1] = Request(call.op, call.msg)
  /\ Len(up) = 2 => up[1].type = "ack" /\ up[2] = Request(call.op, call.msg)
  /\ up # <<>> /\ up[1].type = "ack" /\ up[1].msg # Configuration
        => peeked = up[1].msg /\ Printed(up[1].msg)
  /\ down # <<>> /\ down[1].type = "get" => peeked = down[1].msg
  /\ down # <<>> /\ down[1].type = "ack" /\ call.op = "send" => queued[call.msg] > 0
  /\ \A p \in popped : p[2] # Configuration => p[2] = p[1] /\ Printed(p[1])
  /\ \A m \in Outgoing : result[m] = "ok" => queued[m] > 0

OneExchange == lates = 0 => Exchange

\* How many frames there are, and which.
LEMMA Counts ==
  ASSUME Typed
  PROVE  /\ Len(up) \in Nat /\ Len(down) \in Nat
         /\ up = <<>> <=> Len(up) = 0
         /\ down = <<>> <=> Len(down) = 0
         /\ up # <<>> => Head(up) = up[1] /\ up[1] \in Requests /\ Len(Tail(up)) = Len(up) - 1
         /\ down # <<>> =>
               Head(down) = down[1] /\ down[1] \in Answers /\ Len(Tail(down)) = Len(down) - 1
<1>1. up \in Seq(Requests) /\ down \in Seq(Answers)
  BY DEF Typed
<1>2. Len(up) \in Nat /\ Len(down) \in Nat
  BY <1>1, LenProperties
<1>3. up = <<>> <=> Len(up) = 0
  BY <1>1, EmptySeq
<1>4. down = <<>> <=> Len(down) = 0
  BY <1>1, EmptySeq
<1> QED BY <1>1, <1>2, <1>3, <1>4, TailIs

\* The first frame to the device goes: it was the only one, or a request is left.
LEMMA FirstGoes ==
  ASSUME Assumptions, Typed, Exchange, up # <<>>, up' = Tail(up)
  PROVE  /\ down = <<>> /\ Len(down) = 0
         /\ \/ Len(up) = 1 /\ Len(up') = 0 /\ up' = <<>>
            \/ /\ Len(up) = 2 /\ up[1].type = "ack"
               /\ Len(up') = 1 /\ up'[1] = Request(call.op, call.msg)
               /\ up'[1].type # "ack" /\ call # Idle
<1>1. down = <<>> /\ Len(down) = 0
  BY Counts DEF Exchange
<1>2. Len(up) \in Nat /\ Len(up) # 0 /\ Len(up) <= 2
  BY Counts DEF Exchange
<1>3. Len(up') = Len(up) - 1 /\ up' \in Seq(Requests)
      /\ \A i \in 1..Len(up') : up'[i] = up[i + 1]
  BY TailIs DEF Typed
<1>4. Len(up) = 1 => Len(up') = 0 /\ up' = <<>>
  BY <1>3, EmptySeq
<1>5. ASSUME Len(up) = 2
      PROVE  /\ Len(up') = 1 /\ up[1].type = "ack" /\ up'[1] = Request(call.op, call.msg)
             /\ up'[1].type # "ack" /\ call # Idle
  <2>1. Len(up') = 1
    BY <1>3, <1>5
  <2>2. 1 \in 1..Len(up') /\ 1 + 1 = 2
    BY <2>1
  <2>3. up'[1] = up[1 + 1]
    BY <1>3, <2>2
  <2>4. up[2] = Request(call.op, call.msg) /\ up[1].type = "ack" /\ call # Idle
    BY <1>5 DEF Exchange
  <2>5. up'[1] = Request(call.op, call.msg)
    BY <2>2, <2>3, <2>4
  <2>6. call.op \in {"get", "send", "conf"} /\ (call.op = "send" => call.msg \in Outgoing)
    BY <2>4 DEF Typed, Calling, Assumptions, CallsAssumption
  <2>7. Request(call.op, call.msg).type = call.op
    BY <2>6, RequestTyped
  <2>8. Request(call.op, call.msg).type # "ack"
    BY <2>6, <2>7
  <2>9. up'[1].type # "ack"
    BY <2>5, <2>8
  <2> QED BY <2>1, <2>4, <2>5, <2>9
<1>6. Len(up) = 1 \/ Len(up) = 2
  <2>1. PICK n \in Nat : n = Len(up)
    BY <1>2
  <2>2. n # 0 /\ n <= 2
    BY <1>2, <2>1
  <2>3. n = 1 \/ n = 2
    BY <2>2
  <2> QED BY <2>1, <2>3
<1> QED BY <1>1, <1>4, <1>5, <1>6

\* A request to the device is the running call's, and the only frame there is.
LEMMA RequestIsTheCalls ==
  ASSUME Assumptions, Typed, Exchange, up # <<>>, up[1].type # "ack"
  PROVE  /\ Len(up) = 1 /\ call # Idle /\ up[1] = Request(call.op, call.msg)
         /\ call.op = up[1].type /\ (call.op = "send" => call.msg \in Outgoing)
<1>1. Len(up) \in Nat /\ Len(up) # 0 /\ Len(up) <= 2
  BY Counts DEF Exchange
<1>2. Len(up) # 2
  BY DEF Exchange
<1>3. Len(up) = 1
  <2>1. PICK n \in Nat : n = Len(up)
    BY <1>1
  <2>2. n # 0 /\ n <= 2 /\ n # 2
    BY <1>1, <1>2, <2>1
  <2>3. n = 1
    BY <2>2
  <2> QED BY <2>1, <2>3
<1>4. call # Idle
  BY DEF Exchange
<1>5. up[1] = Request(call.op, call.msg)
  BY <1>3, <1>4 DEF Exchange
<1>6. call.op \in {"get", "send", "conf"} /\ (call.op = "send" => call.msg \in Outgoing)
  BY <1>4 DEF Typed, Calling, Assumptions, CallsAssumption
<1> QED BY <1>3, <1>4, <1>5, <1>6, RequestTyped

\* Nothing is left on the line, or the request behind an ACK.
LEMMA LeftOver ==
  ASSUME Exchange, UNCHANGED <<queued, call, got, result>>, down' = <<>>, Len(down') = 0,
         \/ Len(up') = 0 /\ up' = <<>>
         \/ /\ Len(up') = 1 /\ up'[1] = Request(call.op, call.msg)
            /\ up'[1].type # "ack" /\ call # Idle,
         \A p \in popped' : p[2] # Configuration => p[2] = p[1] /\ Printed(p[1])
  PROVE  Exchange'
<1>1. \A p \in popped' : p[2] # Configuration => p[2] = p[1] /\ (\E i \in DOMAIN got' : got'[i] = p[1])
  BY DEF Printed
<1>2. \A m \in Outgoing : result'[m] = "ok" => queued'[m] > 0
  BY DEF Exchange
<1>3. CASE Len(up') = 0 /\ up' = <<>>
  BY <1>1, <1>2, <1>3 DEF Exchange, Printed
<1>4. CASE /\ Len(up') = 1 /\ up'[1] = Request(call.op, call.msg)
           /\ up'[1].type # "ack" /\ call # Idle
  BY <1>1, <1>2, <1>4 DEF Exchange, Printed
<1> QED BY <1>3, <1>4

\* Initially the line is empty.
LEMMA InitExchange == ASSUME Init PROVE OneExchange
<1>1. Len(<<>>) = 0
  OBVIOUS
<1> QED BY <1>1 DEF Init, OneExchange, Exchange

\* A new call puts its request behind an ACK at most.
LEMMA StartExchange ==
  ASSUME Assumptions, Typed, Exchange, NEW op, NEW m, Start(op, m)
  PROVE  Exchange'
<1>1. /\ call = Idle /\ call' = [op |-> op, msg |-> m, attempt |-> 0, again |-> FALSE]
      /\ down' = <<>> /\ up' = Append(up, Request(op, m))
      /\ UNCHANGED <<peeked, popped, queued, got, result>>
  BY DEF Start, device, told
<1>2. op \in {"get", "send", "conf"} /\ (op = "send" => m \in Outgoing)
  BY DEF Start, Assumptions, CallsAssumption
<1>3. /\ Len(up) \in Nat /\ Len(up) <= 1 /\ Len(up') = Len(up) + 1
      /\ up'[Len(up) + 1] = Request(op, m) /\ \A i \in 1..Len(up) : up'[i] = up[i]
  BY <1>1, <1>2, RequestTyped, AppendIs, Counts DEF Typed, Exchange
<1>4. call' # Idle /\ call'.op = op /\ call'.msg = m
  BY <1>1, <1>2 DEF Idle
<1>5. Request(op, m).type = op
  BY <1>2, RequestTyped
<1>6. CASE Len(up) = 0
  <2>1. Len(up') = 1 /\ up'[1] = Request(op, m)
    BY <1>3, <1>6
  <2> QED BY <1>1, <1>2, <1>4, <1>5, <2>1 DEF Exchange, Printed
<1>7. CASE Len(up) = 1
  <2>1. Len(up') = 2 /\ up'[2] = Request(op, m) /\ up # <<>>
    BY <1>3, <1>7, Counts
  <2>2. up'[1] = up[1]
    BY <1>3, <1>7
  <2>3. up'[1].type = "ack"
    BY <1>1, <2>1, <2>2 DEF Exchange
  <2> QED BY <1>1, <1>2, <1>4, <1>5, <2>1, <2>2, <2>3 DEF Exchange, Printed
<1>8. Len(up) = 0 \/ Len(up) = 1
  <2>1. PICK n \in Nat : n = Len(up)
    BY <1>3
  <2>2. n <= 1
    BY <1>3, <2>1
  <2>3. n = 0 \/ n = 1
    BY <2>2
  <2> QED BY <2>1, <2>3
<1> QED BY <1>6, <1>7, <1>8

\* A request written again, onto a line with nothing on it, or the call's end.
LEMMA RetryExchange ==
  ASSUME Assumptions, Typed, Exchange, up = <<>>, call # Idle, Retry, down' = <<>>,
         UNCHANGED <<peeked, popped, queued, got>>
  PROVE  Exchange'
<1>1. call.op \in {"get", "send", "conf"} /\ (call.op = "send" => call.msg \in Outgoing)
  BY DEF Typed, Calling, Assumptions, CallsAssumption
<1>2. Len(down') = 0
  OBVIOUS
<1>3. CASE call.attempt < MaxRetries
  <2>1. /\ call' = [call EXCEPT !.attempt = call.attempt + 1, !.again = FALSE]
        /\ up' = Append(up, Request(call.op, call.msg)) /\ result' = result
    BY <1>3 DEF Retry, NextAttempt
  <2>2. call'.op = call.op /\ call'.msg = call.msg
    BY <2>1 DEF Typed
  <2>3. call' # Idle
    BY <1>1, <2>2 DEF Idle
  <2>4. Len(up') = 1 /\ up'[1] = Request(call.op, call.msg)
    BY <2>1
  <2>5. up'[1].type # "ack"
    BY <1>1, <2>4, RequestTyped
  <2> QED BY <1>2, <2>1, <2>2, <2>3, <2>4, <2>5 DEF Exchange, Printed
<1>4. CASE ~(call.attempt < MaxRetries)
  <2>1. Ends("error") /\ up' = up
    BY <1>4 DEF Retry
  <2>2. call' = Idle /\ \A m \in Outgoing : result'[m] = "ok" => result[m] = "ok"
    BY <2>1 DEF Ends, Typed
  <2>3. Len(up') = 0
    BY <2>1
  <2> QED BY <1>2, <2>1, <2>2, <2>3 DEF Exchange, Printed
<1> QED BY <1>3, <1>4

\* The host takes the one answer there is.
LEMMA HostExchange ==
  ASSUME Assumptions, Typed, Exchange, HostReceives
  PROVE  Exchange'
<1>1. down # <<>> /\ down' = Tail(down) /\ call # Idle /\ UNCHANGED <<peeked, popped, queued>>
  BY DEF HostReceives, ReceiveCorrupted, ReceiveAck, ReceiveContent, ReceiveOther, device
<1>2. /\ up = <<>> /\ Len(down) = 1 /\ Head(down) = down[1] /\ down[1] \in Answers
      /\ Len(down') = 0 /\ down' = <<>>
  <2>1. Len(down) = 1 /\ Len(down') = 0 /\ Head(down) = down[1] /\ down[1] \in Answers
    BY <1>1, Counts DEF Exchange
  <2>2. down' = <<>>
    BY <1>1, <2>1, TailIs, EmptySeq DEF Typed
  <2> QED BY <1>1, <2>1, <2>2 DEF Exchange
<1>3. CASE ReceiveCorrupted
  <2>1. CASE call.again
    BY <1>1, <1>2, <1>3, <2>1, RetryExchange DEF ReceiveCorrupted
  <2>2. CASE ~call.again
    <3>1. call' = [call EXCEPT !.again = TRUE] /\ UNCHANGED <<up, result, got>>
      BY <1>3, <2>2 DEF ReceiveCorrupted
    <3>2. call'.op = call.op /\ call'.msg = call.msg
      BY <3>1 DEF Typed
    <3>3. call' # Idle
      BY <1>1, <3>2 DEF Typed, Calling, Idle, Assumptions, CallsAssumption
    <3>4. Len(up') = 0
      BY <1>2, <3>1
    <3> QED BY <1>1, <1>2, <3>1, <3>2, <3>3, <3>4 DEF Exchange, Printed
  <2> QED BY <2>1, <2>2
<1>4. CASE ReceiveAck
  <2>1. call' = Idle /\ up' = up /\ got' = got /\ Len(up') = 0
    BY <1>2, <1>4 DEF ReceiveAck, Ends
  <2>2. down[1].type = "ack"
    BY <1>2, <1>4 DEF ReceiveAck, Ack
  <2>3. call.op = "send" => call.msg \in Outgoing
    BY <1>1 DEF Typed, Calling
  <2>4. \A m \in Outgoing : result'[m] = "ok" => result[m] = "ok" \/ queued[m] > 0
    BY <1>1, <1>4, <2>2, <2>3 DEF ReceiveAck, Ends, Typed, Exchange
  <2> QED BY <1>1, <1>2, <2>1, <2>4 DEF Exchange, Printed
<1>5. CASE ReceiveContent
  <2>1. /\ call' = Idle /\ up' = Append(up, Carrying("ack", Acknowledged)) /\ result' = result
        /\ down[1].type = call.op
        /\ got' = IF call.op = "get" THEN Append(got, down[1].msg) ELSE got
    BY <1>2, <1>5 DEF ReceiveContent
  <2>2. Len(up') = 1 /\ up'[1] = Carrying("ack", Acknowledged)
    BY <1>2, <2>1
  <2>3. up'[1].type = "ack" /\ up'[1].msg = Acknowledged
    BY <2>2 DEF Carrying
  <2>4. CASE call.op = "get"
    <3>1. down[1].msg \in Incoming /\ Acknowledged = down[1].msg
      BY <1>2, <2>1, <2>4, FrameKinds DEF Acknowledged, Assumptions
    <3>2. /\ Len(got) \in Nat /\ Len(got') = Len(got) + 1 /\ got'[Len(got) + 1] = down[1].msg
          /\ \A i \in 1..Len(got) : got'[i] = got[i]
          /\ DOMAIN got = 1..Len(got) /\ DOMAIN got' = 1..Len(got')
      <4>1. got' \in Seq(Incoming)
        BY <2>1, <2>4, <3>1, AppendIs DEF Typed
      <4> QED BY <2>1, <2>4, <3>1, <4>1, AppendIs, LenProperties DEF Typed
    <3>3. \A p \in popped' : p[2] # Configuration => p[2] = p[1] /\ Printed(p[1])'
      <4>1. \A i \in DOMAIN got : i \in DOMAIN got' /\ got'[i] = got[i]
        BY <3>2
      <4>2. ASSUME NEW p \in popped, p[2] # Configuration
            PROVE  p[2] = p[1] /\ \E i \in DOMAIN got' : got'[i] = p[1]
        <5>1. p[2] = p[1] /\ \E i \in DOMAIN got : got[i] = p[1]
          BY <4>2 DEF Exchange, Printed
        <5> QED BY <4>1, <5>1
      <4> QED BY <1>1, <4>2 DEF Printed
    <3>4. got'[Len(got) + 1] = Acknowledged
      BY <3>1, <3>2
    <3>5. peeked = Acknowledged
      BY <1>1, <2>1, <2>4, <3>1 DEF Exchange
    <3>6. \E i \in DOMAIN got' : got'[i] = up'[1].msg
      <4>1. Len(got) + 1 \in DOMAIN got'
        BY <3>2
      <4> QED BY <2>3, <3>4, <4>1
    <3>7. \A m \in Outgoing : result'[m] = "ok" => queued'[m] > 0
      BY <1>1, <2>1 DEF Exchange
    <3> HIDE DEF Acknowledged
    <3>8. up'[1].msg = peeked' /\ (\E i \in DOMAIN got' : got'[i] = up'[1].msg)
      BY <1>1, <2>3, <3>5, <3>6
    <3> QED BY <1>2, <2>1, <2>2, <2>3, <3>3, <3>7, <3>8 DEF Exchange, Printed
  <2>5. CASE call.op # "get"
    BY <1>1, <1>2, <2>1, <2>2, <2>3, <2>5 DEF Exchange, Printed, Acknowledged
  <2> QED BY <2>4, <2>5
<1>6. CASE ReceiveOther
  BY <1>1, <1>2, <1>6, RetryExchange DEF ReceiveOther
<1> QED BY <1>3, <1>4, <1>5, <1>6 DEF HostReceives

\* The device answers the one request there is.
LEMMA AnswerExchange ==
  ASSUME Assumptions, Typed, Exchange, NEW t \in {"get", "send", "conf"}, Reading(t),
         NEW f \in Answers, Answer(f), UNCHANGED <<call, popped, got, result>>,
         f.type = "get" => peeked' = f.msg,
         f.type = "ack" /\ call.op = "send" => queued'[call.msg] > 0,
         \A m \in Outgoing : queued[m] > 0 => queued'[m] > 0
  PROVE  Exchange'
<1>1. up # <<>> /\ up[1].type = t /\ up' = Tail(up) /\ down' = Append(down, f)
  BY Counts DEF Reading, Answer
<1>2. Len(up) = 1 /\ call # Idle
  BY <1>1, RequestIsTheCalls
<1>3. Len(down) = 0 /\ down = <<>> /\ Len(up') = 0 /\ up' = <<>>
  BY <1>1, <1>2, FirstGoes
<1>4. Len(down') = 1 /\ down'[1] = f
  BY <1>1, <1>3
<1> QED BY <1>2, <1>3, <1>4 DEF Exchange, Printed

\* The handlers answer the one request, or take the ACK before it.
LEMMA DeviceExchange ==
  ASSUME Assumptions, Typed, Typed', Exchange, DeviceStep
  PROVE  Exchange'
<1>1. ASSUME up # <<>>, up[1].type \in {"get", "send", "conf"}
      PROVE  call.op = up[1].type /\ up[1] = Request(call.op, call.msg)
  BY <1>1, RequestIsTheCalls
<1>2. CASE HandleGetmsg
  <2>1. PICK f : f = IF NowPeeked = NoMsg THEN Ack ELSE Carrying("get", NowPeeked)
    OBVIOUS
  <2>2. /\ Reading("get") /\ Answer(f) /\ peeked' = NowPeeked
        /\ UNCHANGED <<call, popped, got, result, queued>>
    BY <1>2, <2>1 DEF HandleGetmsg, told
  <2>3. f \in Answers
    BY <2>1, <2>2 DEF Answers, Typed
  <2>4. f.type = "get" => peeked' = f.msg
    BY <2>1, <2>2 DEF Ack, Carrying
  <2>5. call.op # "send"
    BY <1>1, <2>2, Counts DEF Reading
  <2> QED BY <2>2, <2>3, <2>4, <2>5, AnswerExchange
<1>3. CASE AcceptSendmsg
  <2>1. /\ Reading("send") /\ Answer(Ack) /\ UNCHANGED <<call, popped, got, result>>
        /\ queued' = [queued EXCEPT ![Head(up).msg] = @ + 1]
    BY <1>3 DEF AcceptSendmsg, told
  <2>2. Head(up) = up[1] /\ up[1].type = "send" /\ call.op = "send"
    BY <1>1, <2>1, Counts DEF Reading
  <2>3. up[1].msg = call.msg
    BY <1>1, <2>1, <2>2 DEF Reading, Request, Carrying
  <2>4. up[1].msg \in Outgoing
    BY <2>1, <2>2, Counts, FrameKinds DEF Reading, Assumptions
  <2>5. \A m \in Outgoing : queued[m] \in Nat
    BY DEF Typed
  <2>6. queued'[call.msg] = queued[call.msg] + 1
    BY <2>1, <2>2, <2>3, <2>4 DEF Typed
  <2>7. \A m \in Outgoing : m # call.msg => queued'[m] = queued[m]
    BY <2>1, <2>2, <2>3 DEF Typed
  <2>8. \A m \in Outgoing : queued[m] > 0 => queued'[m] > 0
    BY <2>3, <2>4, <2>5, <2>6, <2>7
  <2>9. queued'[call.msg] > 0
    BY <2>3, <2>4, <2>5, <2>6
  <2>10. Ack \in Answers /\ Ack.type = "ack"
    BY DEF Answers, Ack
  <2> QED BY <2>1, <2>8, <2>9, <2>10, AnswerExchange
<1>4. CASE RefuseSendmsg
  <2>1. /\ Reading("send") /\ up' = Tail(up) /\ down' = down
        /\ UNCHANGED <<peeked, popped, queued, call, got, result>>
    BY <1>4 DEF RefuseSendmsg, Refusal, device, told
  <2>2. up # <<>> /\ up[1].type = "send"
    BY <2>1, Counts DEF Reading
  <2>3. \A p \in popped' : p[2] # Configuration => p[2] = p[1] /\ Printed(p[1])
    BY <2>1 DEF Exchange
  <2> QED BY <2>1, <2>2, <2>3, FirstGoes, LeftOver
<1>5. CASE HandleGetconf
  <2>1. Reading("conf") /\ Answer(Conf) /\ UNCHANGED <<peeked, popped, queued, call, got, result>>
    BY <1>5 DEF HandleGetconf, device, told
  <2>2. Conf \in Answers /\ Conf.type = "conf"
    BY DEF Answers, Conf
  <2> QED BY <2>1, <2>2, AnswerExchange
<1>6. CASE HandleAck
  <2>1. /\ up # <<>> /\ up[1].type = "ack" /\ Head(up) = up[1] /\ up' = Tail(up)
        /\ UNCHANGED <<queued, down, call, got, result>>
    BY <1>6, Counts DEF HandleAck, Reading, told
  <2>2. up[1].msg # Configuration => peeked = up[1].msg /\ Printed(up[1].msg)
    BY <2>1 DEF Exchange
  <2>3. \A p \in popped' : p[2] # Configuration => p[2] = p[1] /\ Printed(p[1])
    <3>1. CASE Popping
      <4>1. peeked = Head(rxQueue)
        BY <3>1, TailIs DEF Popping, Typed, PeekedIsHead
      <4>2. popped' = popped \cup {<<Head(rxQueue), up[1].msg>>}
        BY <1>6, <2>1, <3>1 DEF HandleAck
      <4>3. up[1].msg # Configuration =>
              up[1].msg = Head(rxQueue) /\ Printed(Head(rxQueue))
        BY <2>2, <4>1
      <4>4. \A p \in popped : p[2] # Configuration => p[2] = p[1] /\ Printed(p[1])
        BY DEF Exchange
      <4> QED BY <4>2, <4>3, <4>4
    <3>2. CASE ~Popping
      BY <1>6, <3>2 DEF HandleAck, Exchange
    <3> QED BY <3>1, <3>2
  <2> QED BY <2>1, <2>3, FirstGoes, LeftOver
<1> QED BY <1>2, <1>3, <1>4, <1>5, <1>6 DEF DeviceStep

\* A loss leaves less on the line.
LEMMA LineExchange ==
  ASSUME Assumptions, Typed, Exchange, LoseUp \/ LoseDown \/ CorruptDown
  PROVE  Exchange'
<1>1. UNCHANGED <<peeked, popped, queued, call, got, result>>
  BY DEF LoseUp, LoseDown, CorruptDown, device, told
<1>2. CASE LoseUp
  <2>1. up # <<>> /\ up' = Tail(up) /\ down' = down
    BY <1>2 DEF LoseUp
  <2>2. \A p \in popped' : p[2] # Configuration => p[2] = p[1] /\ Printed(p[1])
    BY <1>1 DEF Exchange
  <2> QED BY <1>1, <2>1, <2>2, FirstGoes, LeftOver
<1>3. CASE LoseDown
  <2>1. /\ down # <<>> /\ up' = up /\ Len(down) = 1 /\ up = <<>> /\ call # Idle
        /\ down' = SubSeq(down, 1, Len(down) - 1)
    <3>1. down # <<>> /\ up' = up /\ down' = SubSeq(down, 1, Len(down) - 1)
      BY <1>3 DEF LoseDown
    <3>2. Len(down) = 1
      BY <3>1, Counts DEF Exchange
    <3> QED BY <3>1, <3>2 DEF Exchange
  <2>2. Len(down') = 0 /\ down' \in Seq(Answers)
    BY <2>1, FrontIs DEF Typed
  <2>3. down' = <<>>
    BY <2>2, EmptySeq
  <2>4. Len(up') = 0
    BY <2>1
  <2> QED BY <1>1, <2>1, <2>2, <2>3, <2>4 DEF Exchange, Printed
<1>4. CASE CorruptDown
  <2>1. down # <<>> /\ up' = up /\ Len(down) = 1 /\ up = <<>> /\ call # Idle
    <3>1. down # <<>> /\ up' = up
      BY <1>4 DEF CorruptDown
    <3>2. Len(down) = 1
      BY <3>1, Counts DEF Exchange
    <3> QED BY <3>1, <3>2 DEF Exchange
  <2>2. down' = [down EXCEPT ![Len(down)] = Corrupted]
    BY <1>4 DEF CorruptDown
  <2>3. Len(down') = 1 /\ down'[1] = Corrupted
    BY <2>1, <2>2 DEF Typed
  <2>4. down'[1].type = "corrupted"
    BY <2>3 DEF Corrupted
  <2>5. Len(up') = 0
    BY <2>1
  <2> QED BY <1>1, <2>1, <2>3, <2>4, <2>5 DEF Exchange, Printed
<1> QED BY <1>2, <1>3, <1>4

\* Every step but a late answer keeps one exchange at a time.
LEMMA NextExchange ==
  ASSUME Assumptions, Typed, Typed', OneExchange, [Next]_vars
  PROVE  OneExchange'
<1> SUFFICES ASSUME lates' = 0 PROVE Exchange'
  BY DEF OneExchange
<1>1. ASSUME NEW op \in Calls, NEW m \in Outgoing \cup {NoMsg}, Start(op, m) PROVE Exchange'
  BY <1>1, StartExchange DEF Start, OneExchange
<1>2. CASE HostReceives
  <2>1. lates' = lates
    BY <1>2 DEF HostReceives, ReceiveCorrupted, ReceiveAck, ReceiveContent, ReceiveOther,
                bounds
  <2> QED BY <1>2, <2>1, HostExchange DEF OneExchange
<1>3. CASE Timeout
  <2>1. lates' = lates /\ up = <<>>
    BY <1>3 DEF Timeout, Typed, Assumptions, BoundsAssumption
  <2> QED BY <1>3, <2>1, RetryExchange DEF Timeout, device, OneExchange
<1>4. CASE DeviceStep
  <2>1. lates' = lates
    BY <1>4 DEF DeviceStep, HandleGetmsg, AcceptSendmsg, RefuseSendmsg, HandleGetconf,
                HandleAck, bounds
  <2> QED BY <1>4, <2>1, DeviceExchange DEF OneExchange
<1>5. ASSUME NEW m \in Incoming, OnReceive(m) PROVE Exchange'
  <2>1. UNCHANGED <<peeked, queued, popped, up, down, call, got, result, lates>>
    BY <1>5 DEF OnReceive, line, told, bounds
  <2> QED BY <2>1 DEF OneExchange, Exchange, Printed
<1>6. CASE LoseUp \/ LoseDown \/ CorruptDown
  BY <1>6, LineExchange DEF LoseUp, LoseDown, CorruptDown, OneExchange
<1>7. CASE UNCHANGED vars
  <2>1. UNCHANGED <<peeked, queued, popped, up, down, call, got, result, lates>>
    BY <1>7 DEF vars, device, line, told, bounds
  <2> QED BY <2>1 DEF OneExchange, Exchange, Printed
<1> QED BY <1>1, <1>2, <1>3, <1>4, <1>5, <1>6, <1>7 DEF Next

-----------------------------------------------------------------------------
(* The theorems.                                                           *)

IInv == Typed /\ InOrder /\ OneExchange

\* IInv holds initially and every step keeps it.
LEMMA InductiveInvariant == ASSUME Assumptions PROVE Spec => []IInv
<1>1. Init => IInv
  BY InitTyped, InitInOrder, InitExchange DEF IInv
<1>2. IInv /\ [Next]_vars => IInv'
  BY NextTyped, NextInOrder, NextExchange DEF IInv
<1> QED BY <1>1, <1>2, PTL DEF Spec

\* Every variable keeps its type, and the bridge's queue its depth.
THEOREM TypesAlways == Spec => []TypeOK
<1>1. Assumptions
  BY CallsAssumption, BoundsAssumption, NamesAssumption DEF Assumptions
<1>2. IInv => TypeOK
  BY TypedIsTypeOK DEF IInv
<1> QED BY <1>1, <1>2, InductiveInvariant, PTL

\* loracom prints the messages in the order the bridge queued them, whatever
\* the line loses or corrupts and however late answers come.
THEOREM PrintedInOrder == Spec => []ReadInOrder
<1>1. Assumptions
  BY CallsAssumption, BoundsAssumption, NamesAssumption DEF Assumptions
<1>2. IInv => ReadInOrder
  BY InOrderIsReadInOrder DEF IInv
<1> QED BY <1>1, <1>2, InductiveInvariant, PTL

\* handleAck pops the message that was peeked, and, while no answer came late,
\* the one loracom has printed and meant.
THEOREM PopsWhatItAcknowledges == Spec => []AckPopsItsOwn
<1>1. Assumptions
  BY CallsAssumption, BoundsAssumption, NamesAssumption DEF Assumptions
<1>2. IInv => AckPopsItsOwn
  BY TailIs DEF IInv, Typed, PeekedIsHead, OneExchange, Exchange, AckPopsItsOwn
<1> QED BY <1>1, <1>2, InductiveInvariant, PTL

\* While no answer came late, what loracom reports as sent was queued.
THEOREM SuccessIsQueued == Spec => []AckMeansQueued
<1>1. Assumptions
  BY CallsAssumption, BoundsAssumption, NamesAssumption DEF Assumptions
<1>2. IInv => AckMeansQueued
  BY DEF IInv, OneExchange, Exchange, AckMeansQueued
<1> QED BY <1>1, <1>2, InductiveInvariant, PTL
=============================================================================
