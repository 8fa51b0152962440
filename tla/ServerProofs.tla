----------------------------- MODULE ServerProofs -----------------------------
(* Proofs about the server's side of a connection: EventStream, the streams of *)
(* live events, for any number of streams and events and any buffer size, and  *)
(* ApiRequest, for any number of requests and all bounds of the domain.        *)
EXTENDS EventStream, ApiRequest, SequenceTheorems, FiniteSetTheorems, TLAPS

-----------------------------------------------------------------------------
(* Queues.                                                                 *)

\* What a channel takes in (SendTo).
LEMMA AppendFacts ==
  ASSUME NEW q \in Seq(Nat), NEW n \in Nat
  PROVE  Append(q, n) \in Seq(Nat) /\ Append(q, n) # <<>> /\ Len(Append(q, n)) = Len(q) + 1
  BY AppendProperties

\* What a channel hands out (Receive).
LEMMA TailFacts ==
  ASSUME NEW q \in Seq(Nat), q # <<>>
  PROVE  /\ <<Head(q)>> \in Seq(Nat) /\ <<Head(q)>> # <<>>
         /\ Tail(q) \in Seq(Nat) /\ Len(Tail(q)) <= Len(q)
  <1>1. Head(q) \in Nat /\ Tail(q) \in Seq(Nat) /\ Len(Tail(q)) = Len(q) - 1
    BY HeadTailProperties
  <1>2. Len(q) \in Nat
    BY LenProperties
  <1> QED BY <1>1, <1>2

\* The empty channel, and when a channel is not empty.
LEMMA EmptyFacts ==
  /\ <<>> \in Seq(Nat)
  /\ Len(<<>>) = 0
  /\ \A q \in Seq(Nat) : Len(q) \in Nat /\ (Len(q) > 0 => q # <<>>)
  BY EmptySeq, LenProperties

-----------------------------------------------------------------------------
(* Types.                                                                  *)

\* The queues stay within subscriberBuffer, a handler holds an event exactly
\* while it writes it, and only a holder of the mutex has subscribers left to
\* visit (TypeOK).
THEOREM TypeCorrect == Spec => []TypeOK
<1>1. Init => TypeOK
  <2> SUFFICES ASSUME Init PROVE TypeOK
    OBVIOUS
  <2>1. /\ buf \in [Streams -> Seq(Nat)] /\ hand \in [Streams -> Seq(Nat)]
        /\ got \in [Streams -> Seq(Nat)]
    BY EmptyFacts DEF Init
  <2>2. \A s \in Streams : Len(buf[s]) <= Buffer
    BY EmptyFacts, StreamAssumption DEF Init
  <2>3. opened \in [Streams -> Nat] /\ count \in Nat
    BY StreamAssumption DEF Init
  <2>4. \A s \in Streams : hand[s] # <<>> <=> pc[s] = "write"
    BY DEF Init
  <2> QED
    BY <2>1, <2>2, <2>3, <2>4 DEF Init, TypeOK
<1>2. TypeOK /\ [Next]_vars => TypeOK'
  <2> SUFFICES ASSUME TypeOK, [Next]_vars PROVE TypeOK'
    OBVIOUS
  <2> USE DEF TypeOK
  <2>1. CASE LockForPublish \/ UnlockPublish \/ LockForClose \/ UnlockClose
    <3>1. CASE LockForPublish
      BY <3>1, StreamAssumption DEF LockForPublish, handlers, server
    <3>2. CASE LockForClose
      BY <3>2, StreamAssumption DEF LockForClose, handlers
    <3>3. CASE UnlockPublish \/ UnlockClose
      <4>1. /\ mu' = Nobody /\ todo = {} /\ hook' \in {hook, "done"} /\ phase' = phase
            /\ UNCHANGED <<todo, subs, closed, chan, buf, count, dropped, missed, panicked, handlers>>
        BY <3>3 DEF UnlockPublish, UnlockClose, Unlock, server
      <4> QED BY <4>1 DEF handlers
    <3> QED BY <2>1, <3>1, <3>2, <3>3
  <2>2. ASSUME NEW s \in Streams, SendTo(s) PROVE TypeOK'
    <3>1. buf' \in [Streams -> Seq(Nat)] /\ \A t \in Streams : Len(buf'[t]) <= Buffer
      <4>1. CASE Len(buf[s]) < Buffer
        <5>1. buf' = [buf EXCEPT ![s] = Append(buf[s], count)]
          BY <2>2, <4>1 DEF SendTo
        <5>2. Append(buf[s], count) \in Seq(Nat) /\ Len(Append(buf[s], count)) = Len(buf[s]) + 1
          BY AppendFacts
        <5>3. Len(buf[s]) \in Nat
          BY EmptyFacts
        <5>4. Len(Append(buf[s], count)) <= Buffer
          BY <4>1, <5>2, <5>3, StreamAssumption
        <5> QED BY <5>1, <5>2, <5>4
      <4>2. CASE ~(Len(buf[s]) < Buffer)
        BY <2>2, <4>2 DEF SendTo
      <4> QED BY <4>1, <4>2
    <3>2. dropped' \in [Streams -> SUBSET Nat] /\ missed' \in [Streams -> BOOLEAN]
      <4>1. dropped[s] \cup {count} \in SUBSET Nat
        OBVIOUS
      <4>2. dropped' \in {dropped, [dropped EXCEPT ![s] = dropped[s] \cup {count}]}
        BY <2>2 DEF SendTo
      <4>3. missed' \in {missed, [missed EXCEPT ![s] = TRUE]}
        BY <2>2 DEF SendTo
      <4> QED BY ZenonT(60), <4>1, <4>2, <4>3
    <3>3. panicked' \in BOOLEAN /\ todo' \subseteq subs' /\ mu' = mu /\ mu # Nobody
      BY <2>2, StreamAssumption DEF SendTo
    <3> QED
      BY <2>2, <3>1, <3>2, <3>3 DEF SendTo, handlers, server
  <2>3. ASSUME NEW s \in Streams, CloseOne(s) PROVE TypeOK'
    <3>1. mu' = mu /\ mu # Nobody
      BY <2>3, StreamAssumption DEF CloseOne
    <3> QED
      BY <2>3, <3>1 DEF CloseOne, Shut, handlers, server
  <2>4. ASSUME NEW s \in Streams, Accept(s) \/ Subscribe(s) \/ OpenStream(s) \/ ClientGone(s)
        PROVE  TypeOK'
    <3>1. hand' = hand /\ \A t \in Streams : pc'[t] = "write" <=> pc[t] = "write"
      BY <2>4 DEF Accept, Subscribe, OpenStream, ClientGone
    <3>2. /\ pc' \in [Streams -> {"away", "subscribe", "flush", "loop", "write", "unsubscribe", "gone"}]
          /\ chan' \in [Streams -> {"nil", "open", "shut"}]
          /\ opened' \in [Streams -> Nat]
      BY ZenonT(60), <2>4 DEF Accept, Subscribe, OpenStream, ClientGone, broker
    <3>3. UNCHANGED <<mu, todo, closed, buf, count, dropped, missed, panicked, got, server>>
      BY <2>4 DEF Accept, Subscribe, OpenStream, ClientGone, broker
    <3>4. subs' \subseteq Streams /\ subs \subseteq subs'
      BY <2>4 DEF Accept, Subscribe, OpenStream, ClientGone, broker
    <3> QED
      BY <3>1, <3>2, <3>3, <3>4 DEF server
  <2>5. ASSUME NEW s \in Streams, Receive(s) PROVE TypeOK'
    <3>1. CASE buf[s] # <<>>
      <4>1. /\ hand' = [hand EXCEPT ![s] = <<Head(buf[s])>>]
            /\ buf' = [buf EXCEPT ![s] = Tail(buf[s])]
            /\ pc' = [pc EXCEPT ![s] = "write"]
        BY <2>5, <3>1 DEF Receive
      <4>2. /\ <<Head(buf[s])>> \in Seq(Nat) /\ <<Head(buf[s])>> # <<>>
            /\ Tail(buf[s]) \in Seq(Nat) /\ Len(Tail(buf[s])) <= Len(buf[s])
        BY <3>1, TailFacts
      <4>3. Len(buf[s]) \in Nat /\ Len(Tail(buf[s])) \in Nat
        BY <4>2, EmptyFacts
      <4>4. Len(Tail(buf[s])) <= Buffer
        BY <4>2, <4>3, StreamAssumption
      <4>5. buf' \in [Streams -> Seq(Nat)] /\ \A t \in Streams : Len(buf'[t]) <= Buffer
        BY <4>1, <4>2, <4>4
      <4>6. hand' \in [Streams -> Seq(Nat)] /\ \A t \in Streams : hand'[t] # <<>> <=> pc'[t] = "write"
        BY <4>1, <4>2
      <4> QED
        BY <2>5, <4>1, <4>5, <4>6 DEF Receive, server
    <3>2. CASE buf[s] = <<>>
      BY <2>5, <3>2 DEF Receive, server
    <3> QED BY <3>1, <3>2
  <2>6. ASSUME NEW s \in Streams, WriteFrame(s) PROVE TypeOK'
    <3>1. got' \in [Streams -> Seq(Nat)] /\ missed' \in [Streams -> BOOLEAN]
      <4>1. got[s] \o hand[s] \in Seq(Nat)
        BY ConcatProperties
      <4>2. got' \in {got, [got EXCEPT ![s] = got[s] \o hand[s]]}
        BY <2>6 DEF WriteFrame
      <4>3. missed' \in {missed, [missed EXCEPT ![s] = FALSE]}
        BY <2>6 DEF WriteFrame
      <4> QED BY ZenonT(60), <4>1, <4>2, <4>3
    <3>2. hand' \in [Streams -> Seq(Nat)] /\ \A t \in Streams : hand'[t] # <<>> <=> pc'[t] = "write"
      BY <2>6, EmptyFacts DEF WriteFrame
    <3>3. pc' \in {[pc EXCEPT ![s] = "loop"], [pc EXCEPT ![s] = "unsubscribe"]}
      BY <2>6 DEF WriteFrame
    <3>4. UNCHANGED <<mu, todo, subs, closed, chan, buf, count, dropped, panicked, opened, server>>
      BY <2>6 DEF WriteFrame
    <3> QED
      BY <3>1, <3>2, <3>3, <3>4 DEF server
  <2>7. ASSUME NEW s \in Streams, Unsubscribe(s) PROVE TypeOK'
    <3>1. /\ buf' \in [Streams -> Seq(Nat)] /\ got' \in [Streams -> Seq(Nat)]
          /\ \A t \in Streams : Len(buf'[t]) <= Buffer
      BY <2>7, EmptyFacts, StreamAssumption DEF Unsubscribe, Return
    <3>2. opened' \in [Streams -> Nat] /\ dropped' \in [Streams -> SUBSET Nat]
      BY <2>7, StreamAssumption DEF Unsubscribe, Return
    <3> QED
      BY ZenonT(60), <2>7, <3>1, <3>2 DEF Unsubscribe, Return, Shut, server
  <2>8. CASE StopServer \/ Drained \/ DeadlinePasses \/ UNCHANGED vars
    BY <2>8 DEF StopServer, Drained, DeadlinePasses, vars, broker, handlers, server
  <2> QED
    BY <2>1, <2>2, <2>3, <2>4, <2>5, <2>6, <2>7, <2>8
       DEF Next, FinishPublish, CloseStep, StreamStep, Over
<1> QED
  BY <1>1, <1>2, PTL DEF Spec

-----------------------------------------------------------------------------
(* Safety.                                                                 *)

\* A stream that has not subscribed yet has no channel and missed nothing.
NotYetRegistered ==
  \A s \in Streams : pc[s] \in {"away", "subscribe"} => chan[s] = "nil" /\ missed[s] = FALSE

BrokerInv == NotYetRegistered /\ NoSubscriptionLeaks /\ NeverPanics /\ DropsAreFollowed

\* The broker's safety properties hold together: the mutex keeps the loops and
\* the unsubscribes apart, so whoever sends or closes finds the channel open.
THEOREM BrokerSafe == Spec => []BrokerInv
<1> USE DEF BrokerInv, NotYetRegistered, NoSubscriptionLeaks, NeverPanics, DropsAreFollowed
<1>1. Init => BrokerInv
  BY DEF Init
<1>2. TypeOK /\ BrokerInv /\ [Next]_vars => BrokerInv'
  <2> SUFFICES ASSUME TypeOK, BrokerInv, [Next]_vars PROVE BrokerInv'
    OBVIOUS
  <2> USE DEF TypeOK
  <2>1. CASE LockForPublish \/ UnlockPublish \/ LockForClose \/ UnlockClose
    BY <2>1
       DEF LockForPublish, UnlockPublish, LockForClose, UnlockClose, Unlock, handlers, server
  <2>2. ASSUME NEW s \in Streams, SendTo(s) PROVE BrokerInv'
    <3>1. chan[s] = "open"
      BY <2>2 DEF SendTo
    <3>2. \A t \in Streams : missed'[t] => buf'[t] # <<>> \/ (missed[t] /\ buf'[t] = buf[t])
      <4>1. CASE Len(buf[s]) < Buffer
        BY <2>2, <4>1, AppendFacts DEF SendTo
      <4>2. CASE ~(Len(buf[s]) < Buffer)
        <5>1. buf[s] # <<>>
          BY <4>2, EmptyFacts, StreamAssumption
        <5> QED BY <2>2, <4>2, <5>1 DEF SendTo
      <4> QED BY <4>1, <4>2
    <3>3. UNCHANGED <<subs, chan, pc, hand>> /\ panicked' = panicked
      BY <2>2, <3>1 DEF SendTo, handlers
    <3>4. pc[s] \in {"flush", "loop", "write", "unsubscribe"} /\ s \in subs
      BY <3>1
    <3>5. NotYetRegistered'
      <4>1. \A t \in Streams : t # s => missed'[t] = missed[t]
        BY <2>2 DEF SendTo
      <4> QED BY <3>3, <3>4, <4>1
    <3>6. NoSubscriptionLeaks' /\ NeverPanics'
      BY <3>3
    <3>7. DropsAreFollowed'
      BY <3>2, <3>3
    <3> QED BY <3>5, <3>6, <3>7
  <2>3. ASSUME NEW s \in Streams, CloseOne(s) PROVE BrokerInv'
    <3>1. /\ s \in subs /\ subs' = subs \ {s} /\ chan' = [chan EXCEPT ![s] = "shut"]
          /\ UNCHANGED <<pc, hand, buf, missed>>
      BY <2>3 DEF CloseOne, Shut, handlers
    <3>2. chan[s] = "open" /\ pc[s] \in {"flush", "loop", "write", "unsubscribe"}
      BY <3>1
    <3>3. panicked' = panicked
      BY <2>3, <3>2 DEF CloseOne, Shut
    <3>4. NotYetRegistered' /\ DropsAreFollowed'
      BY <3>1, <3>2
    <3>5. NoSubscriptionLeaks' /\ NeverPanics'
      BY <3>1, <3>3
    <3> QED BY <3>4, <3>5
  <2>4. ASSUME NEW s \in Streams, Accept(s) \/ Subscribe(s) \/ OpenStream(s) \/ ClientGone(s)
        PROVE  BrokerInv'
    <3>1. CASE Accept(s)
      BY <3>1 DEF Accept, broker
    <3>2. CASE Subscribe(s)
      <4>1. pc[s] = "subscribe" /\ pc' = [pc EXCEPT ![s] = "flush"] /\ missed[s] = FALSE
        BY <3>2 DEF Subscribe
      <4>2. /\ UNCHANGED <<buf, hand, missed, panicked>>
            /\ \/ chan' = [chan EXCEPT ![s] = "shut"] /\ subs' = subs
               \/ chan' = [chan EXCEPT ![s] = "open"] /\ subs' = subs \cup {s}
        BY <3>2 DEF Subscribe
      <4>3. chan[s] # "open" /\ s \notin subs
        BY <4>1
      <4>4. NotYetRegistered' /\ DropsAreFollowed'
        BY <4>1, <4>2
      <4>5. NoSubscriptionLeaks' /\ NeverPanics'
        BY <4>1, <4>2, <4>3
      <4> QED BY <4>4, <4>5
    <3>3. CASE OpenStream(s) \/ ClientGone(s)
      <4>1. /\ pc[s] \in {"flush", "loop"} /\ UNCHANGED <<subs, chan, buf, hand, missed, panicked>>
            /\ pc' \in {[pc EXCEPT ![s] = "loop"], [pc EXCEPT ![s] = "unsubscribe"]}
        BY <3>3 DEF OpenStream, ClientGone, broker
      <4>2. /\ pc'[s] \in {"loop", "unsubscribe"}
            /\ \A t \in Streams : t # s => pc'[t] = pc[t]
        BY <4>1
      <4>3. NotYetRegistered'
        BY <4>1, <4>2
      <4>4. NoSubscriptionLeaks'
        BY <4>1, <4>2
      <4>5. NeverPanics'
        BY <4>1
      <4>6. DropsAreFollowed'
        BY <4>1, <4>2
      <4> QED BY <4>3, <4>4, <4>5, <4>6
    <3> QED BY <2>4, <3>1, <3>2, <3>3
  <2>5. ASSUME NEW s \in Streams, Receive(s) PROVE BrokerInv'
    <3>1. pc[s] = "loop" /\ UNCHANGED <<subs, chan, missed, panicked>>
      BY <2>5 DEF Receive
    <3>2. \A t \in Streams : t # s => pc'[t] = pc[t] /\ hand'[t] = hand[t] /\ buf'[t] = buf[t]
      BY <2>5 DEF Receive
    <3>3. \/ pc'[s] = "write" /\ hand'[s] # <<>>
          \/ pc'[s] = "unsubscribe"
      <4>1. CASE buf[s] # <<>>
        <5>1. <<Head(buf[s])>> # <<>>
          BY <4>1, TailFacts
        <5>2. hand' = [hand EXCEPT ![s] = <<Head(buf[s])>>] /\ pc' = [pc EXCEPT ![s] = "write"]
          BY <2>5, <4>1 DEF Receive
        <5> QED BY <5>1, <5>2
      <4>2. CASE buf[s] = <<>>
        BY <2>5, <4>2 DEF Receive
      <4> QED BY <4>1, <4>2
    <3>4. NotYetRegistered'
      BY <3>1, <3>2, <3>3
    <3>5. NoSubscriptionLeaks' /\ NeverPanics'
      BY <3>1, <3>2, <3>3
    <3>6. DropsAreFollowed'
      BY SMTT(60), <3>1, <3>2, <3>3
    <3> QED BY <3>4, <3>5, <3>6
  <2>6. ASSUME NEW s \in Streams, WriteFrame(s) PROVE BrokerInv'
    <3>1. pc[s] = "write" /\ UNCHANGED <<subs, chan, buf, panicked>>
      BY <2>6 DEF WriteFrame
    <3>2. \A t \in Streams : t # s =>
            pc'[t] = pc[t] /\ hand'[t] = hand[t] /\ missed'[t] = missed[t]
      BY <2>6 DEF WriteFrame
    <3>3. \/ pc'[s] = "loop" /\ missed'[s] = FALSE
          \/ pc'[s] = "unsubscribe"
      BY <2>6 DEF WriteFrame
    <3>4. NotYetRegistered'
      BY <3>1, <3>2, <3>3
    <3>5. NoSubscriptionLeaks' /\ NeverPanics'
      BY <3>1, <3>2, <3>3
    <3>6. DropsAreFollowed'
      BY ZenonT(60), <3>1, <3>2, <3>3
    <3> QED BY <3>4, <3>5, <3>6
  <2>7. ASSUME NEW s \in Streams, Unsubscribe(s) PROVE BrokerInv'
    <3>1. /\ pc[s] = "unsubscribe" /\ subs' = subs \ {s} /\ hand' = hand
          /\ pc' = [pc EXCEPT ![s] = "gone"]
          /\ buf' = [buf EXCEPT ![s] = <<>>]
          /\ missed' = [missed EXCEPT ![s] = FALSE]
      BY <2>7 DEF Unsubscribe, Return
    <3>2. \/ /\ s \in subs /\ chan' = [chan EXCEPT ![s] = "shut"]
             /\ panicked' = (panicked \/ chan[s] = "shut")
          \/ s \notin subs /\ UNCHANGED <<chan, panicked>>
      BY <2>7 DEF Unsubscribe, Shut
    <3>3. chan'[s] # "open" /\ \A t \in Streams : t # s => chan'[t] = chan[t]
      BY <3>2
    <3>4. NotYetRegistered'
      BY <3>1, <3>3
    <3>5. NoSubscriptionLeaks'
      BY <3>1, <3>3
    <3>6. NeverPanics'
      BY <3>2
    <3>7. DropsAreFollowed'
      BY <3>1
    <3> QED BY <3>4, <3>5, <3>6, <3>7
  <2>8. CASE StopServer \/ Drained \/ DeadlinePasses \/ UNCHANGED vars
    BY <2>8 DEF StopServer, Drained, DeadlinePasses, vars, broker, handlers, server
  <2> QED
    BY <2>1, <2>2, <2>3, <2>4, <2>5, <2>6, <2>7, <2>8
       DEF Next, FinishPublish, CloseStep, StreamStep, Over
<1> QED
  BY <1>1, <1>2, TypeCorrect, PTL DEF Spec

\* Closing, publishing and unsubscribing never meet on a closed channel
\* (NeverPanics).
THEOREM NoPanics == Spec => []NeverPanics
  BY BrokerSafe, PTL DEF BrokerInv

\* Every handler that returns has taken its subscription with it
\* (NoSubscriptionLeaks).
THEOREM NoLeaks == Spec => []NoSubscriptionLeaks
  BY BrokerSafe, PTL DEF BrokerInv

\* Behind every dropped hint there is a frame still to come (DropsAreFollowed).
THEOREM DropsCaughtUp == Spec => []DropsAreFollowed
  BY BrokerSafe, PTL DEF BrokerInv

-----------------------------------------------------------------------------
(* What reaches the client.                                                *)

Rising(q) == \A i, j \in DOMAIN q : i < j => q[i] < q[j]
Before(p, q) == \A m \in Numbers(p), n \in Numbers(q) : m < n

\* What a queue holds when it is empty, has one event, or takes one in at its end.
LEMMA NumbersOfAppend ==
  /\ Numbers(<<>>) = {} /\ Rising(<<>>)
  /\ \A n \in Nat : Numbers(<<n>>) = {n} /\ Rising(<<n>>)
  /\ \A q \in Seq(Nat), n \in Nat : Numbers(Append(q, n)) = Numbers(q) \cup {n}
<1>1. \A n \in Nat : Numbers(<<n>>) = {n} /\ Rising(<<n>>)
  BY DEF Numbers, Rising
<1>2. ASSUME NEW q \in Seq(Nat), NEW n \in Nat
      PROVE  Numbers(Append(q, n)) = Numbers(q) \cup {n}
  <2> DEFINE p == Append(q, n)
  <2>1. /\ p \in Seq(Nat) /\ Len(p) = Len(q) + 1 /\ Len(q) \in Nat
        /\ \A i \in 1..Len(q) : p[i] = q[i]
        /\ p[Len(q) + 1] = n
    BY AppendProperties, LenProperties
  <2>2. DOMAIN p = 1..(Len(q) + 1) /\ DOMAIN q = 1..Len(q)
    BY <2>1, LenProperties
  <2> HIDE DEF p
  <2>3. DOMAIN p = DOMAIN q \cup {Len(q) + 1}
    BY <2>1, <2>2
  <2>4. \A i \in DOMAIN q : p[i] = q[i]
    BY <2>1, <2>2
  <2>5. Numbers(p) = Numbers(q) \cup {n}
    <3>1. ASSUME NEW v \in Numbers(p) PROVE v \in Numbers(q) \cup {n}
      <4>1. PICK i \in DOMAIN p : v = p[i]
        BY DEF Numbers
      <4>2. CASE i \in DOMAIN q
        BY <2>4, <4>1, <4>2 DEF Numbers
      <4>3. CASE i = Len(q) + 1
        BY <2>1, <4>1, <4>3
      <4>. QED  BY <2>3, <4>2, <4>3
    <3>2. ASSUME NEW i \in DOMAIN q PROVE q[i] \in Numbers(p)
      BY <2>3, <2>4 DEF Numbers
    <3>3. n \in Numbers(p)
      BY <2>1, <2>3 DEF Numbers
    <3>. QED  BY <3>1, <3>2, <3>3 DEF Numbers
  <2> QED BY <2>5 DEF p
<1>3. Numbers(<<>>) = {} /\ Rising(<<>>)
  BY DEF Numbers, Rising
<1> QED BY <1>1, <1>2, <1>3

\* An event with the highest number keeps a queue in order.
LEMMA RisingAppend ==
  ASSUME NEW q \in Seq(Nat), NEW n \in Nat, Rising(q), \A m \in Numbers(q) : m < n
  PROVE  Rising(Append(q, n))
<1> DEFINE p == Append(q, n)
<1>1. /\ p \in Seq(Nat) /\ Len(p) = Len(q) + 1 /\ Len(q) \in Nat
      /\ \A i \in 1..Len(q) : p[i] = q[i]
      /\ p[Len(q) + 1] = n
  BY AppendProperties, LenProperties
<1>2. DOMAIN p = 1..(Len(q) + 1) /\ DOMAIN q = 1..Len(q)
  BY <1>1, LenProperties
<1> HIDE DEF p
<1>3. SUFFICES ASSUME NEW i \in DOMAIN p, NEW j \in DOMAIN p, i < j PROVE p[i] < p[j]
  BY DEF p, Rising
<1>4. i \in 1..Len(q)
  BY <1>1, <1>2, <1>3
<1>5. CASE j = Len(q) + 1
  <2>1. p[i] \in Numbers(q)
    BY <1>1, <1>2, <1>4 DEF Numbers
  <2> QED BY <1>1, <1>5, <2>1
<1>6. CASE j # Len(q) + 1
  <2>1. j \in DOMAIN q /\ i \in DOMAIN q
    BY <1>1, <1>2, <1>4, <1>6
  <2> QED BY <1>1, <1>2, <1>3, <2>1 DEF Rising
<1> QED BY <1>5, <1>6

\* The first event of a queue in order comes before the others.
LEMMA RisingTail ==
  ASSUME NEW q \in Seq(Nat), q # <<>>
  PROVE  /\ Numbers(q) = {Head(q)} \cup Numbers(Tail(q))
         /\ Rising(q) => Rising(Tail(q)) /\ Before(<<Head(q)>>, Tail(q))
<1> DEFINE p == Tail(q)
<1>1. /\ p \in Seq(Nat) /\ Head(q) \in Nat /\ Len(p) = Len(q) - 1
      /\ \A i \in 1..Len(p) : p[i] = q[i + 1]
  BY HeadTailProperties
<1>2. /\ Len(q) \in Nat /\ Len(q) # 0 /\ Head(q) = q[1]
      /\ DOMAIN q = 1..Len(q) /\ DOMAIN p = 1..Len(p)
  BY <1>1, LenProperties, EmptySeq
<1> HIDE DEF p
<1>3. \A i \in DOMAIN p : i + 1 \in DOMAIN q /\ p[i] = q[i + 1]
  <2>1. PICK n \in Nat : n = Len(q) /\ DOMAIN q = 1..n /\ DOMAIN p = 1..(n - 1)
    BY <1>1, <1>2
  <2>2. \A i \in 1..(n - 1) : i + 1 \in 1..n
    OBVIOUS
  <2> QED BY <1>1, <1>2, <2>1, <2>2
<1>4. ASSUME NEW j \in DOMAIN q PROVE j = 1 \/ (j - 1 \in DOMAIN p /\ q[j] = p[j - 1])
  <2>1. PICK n \in Nat : n = Len(q) /\ DOMAIN q = 1..n /\ DOMAIN p = 1..(n - 1)
    BY <1>1, <1>2
  <2>2. j \in Nat /\ (j = 1 \/ j - 1 \in 1..(n - 1)) /\ (j - 1) + 1 = j
    BY <2>1
  <2> QED BY <1>3, <2>1, <2>2
<1>5. 1 \in DOMAIN q
  BY <1>2
<1>6. Numbers(q) = {Head(q)} \cup Numbers(p)
  <2>1. Numbers(q) \subseteq {Head(q)} \cup Numbers(p)
    BY <1>2, <1>4 DEF Numbers
  <2>2. Numbers(p) \subseteq Numbers(q)
    BY <1>3 DEF Numbers
  <2>3. Head(q) \in Numbers(q)
    BY <1>2, <1>5 DEF Numbers
  <2> QED BY <2>1, <2>2, <2>3
<1>7. ASSUME Rising(q) PROVE Rising(p) /\ Before(<<Head(q)>>, p)
  <2>1. Rising(p)
    <3> SUFFICES ASSUME NEW i \in DOMAIN p, NEW j \in DOMAIN p, i < j PROVE p[i] < p[j]
      BY DEF Rising
    <3>1. i + 1 < j + 1
      BY <1>1, <1>2
    <3> QED BY <1>3, <1>7, <3>1 DEF Rising
  <2>2. \A i \in DOMAIN p : q[1] < p[i]
    <3> SUFFICES ASSUME NEW i \in DOMAIN p PROVE q[1] < p[i]
      OBVIOUS
    <3>1. 1 < i + 1
      BY <1>1, <1>2
    <3> QED BY <1>3, <1>5, <1>7, <3>1 DEF Rising
  <2>3. Numbers(<<Head(q)>>) = {q[1]}
    BY <1>1, <1>2, NumbersOfAppend
  <2>4. Before(<<Head(q)>>, p)
    BY <2>2, <2>3 DEF Before, Numbers
  <2> QED BY <2>1, <2>4
<1> QED BY <1>6, <1>7 DEF p

\* Two queues in order, one before the other, are in order together.
LEMMA RisingConcat ==
  ASSUME NEW p \in Seq(Nat), NEW q \in Seq(Nat)
  PROVE  /\ Numbers(p \o q) = Numbers(p) \cup Numbers(q)
         /\ Rising(p) /\ Rising(q) /\ Before(p, q) => Rising(p \o q)
<1> DEFINE r == p \o q
<1>1. /\ r \in Seq(Nat) /\ Len(r) = Len(p) + Len(q) /\ Len(p) \in Nat /\ Len(q) \in Nat
      /\ \A i \in 1..(Len(p) + Len(q)) : r[i] = IF i <= Len(p) THEN p[i] ELSE q[i - Len(p)]
  BY ConcatProperties, LenProperties
<1>2. DOMAIN r = 1..Len(r) /\ DOMAIN p = 1..Len(p) /\ DOMAIN q = 1..Len(q)
  BY <1>1, LenProperties
<1> HIDE DEF r
<1>3. \A i \in DOMAIN p : i \in DOMAIN r /\ r[i] = p[i]
  BY <1>1, <1>2
<1>4. \A i \in DOMAIN q : Len(p) + i \in DOMAIN r /\ r[Len(p) + i] = q[i]
  <2> SUFFICES ASSUME NEW i \in DOMAIN q PROVE Len(p) + i \in DOMAIN r /\ r[Len(p) + i] = q[i]
    OBVIOUS
  <2>1. i \in Nat /\ Len(p) + i \in 1..(Len(p) + Len(q)) /\ ~(Len(p) + i <= Len(p))
    BY <1>1, <1>2
  <2>2. (Len(p) + i) - Len(p) = i
    BY <1>1, <2>1
  <2>3. r[Len(p) + i] = q[(Len(p) + i) - Len(p)]
    BY <1>1, <2>1
  <2> QED BY <1>1, <1>2, <2>1, <2>2, <2>3
<1>5. \A i \in DOMAIN r : \/ i \in DOMAIN p /\ r[i] = p[i]
                          \/ i > Len(p) /\ i - Len(p) \in DOMAIN q /\ r[i] = q[i - Len(p)]
  BY <1>1, <1>2
<1>6. Numbers(r) = Numbers(p) \cup Numbers(q)
  <2>1. Numbers(p) \subseteq Numbers(r) /\ Numbers(q) \subseteq Numbers(r)
    BY <1>3, <1>4 DEF Numbers
  <2>2. Numbers(r) \subseteq Numbers(p) \cup Numbers(q)
    BY <1>5 DEF Numbers
  <2> QED BY <2>1, <2>2
<1>7. ASSUME Rising(p), Rising(q), Before(p, q) PROVE Rising(r)
  <2>1. SUFFICES ASSUME NEW i \in DOMAIN r, NEW j \in DOMAIN r, i < j PROVE r[i] < r[j]
    BY DEF Rising
  <2>2. i \in Nat /\ j \in Nat
    BY <1>1, <1>2
  <2>3. CASE i \in DOMAIN p /\ j \in DOMAIN p
    BY <1>3, <1>7, <2>1, <2>3 DEF Rising
  <2>4. CASE i \in DOMAIN p /\ j \notin DOMAIN p
    <3>1. r[i] \in Numbers(p) /\ r[j] \in Numbers(q)
      BY <1>5, <2>4, <1>3 DEF Numbers
    <3> QED BY <1>7, <3>1 DEF Before
  <2>5. CASE i \notin DOMAIN p
    <3>1. i > Len(p) /\ i - Len(p) \in DOMAIN q /\ r[i] = q[i - Len(p)]
      BY <1>5, <2>5
    <3>2. j \notin DOMAIN p
      BY <1>1, <1>2, <2>1, <2>2, <3>1
    <3>3. j - Len(p) \in DOMAIN q /\ r[j] = q[j - Len(p)] /\ i - Len(p) < j - Len(p)
      BY <1>1, <1>5, <2>1, <2>2, <3>2
    <3> QED BY <1>7, <3>1, <3>3 DEF Rising
  <2> QED BY <2>3, <2>4, <2>5
<1> QED BY <1>6, <1>7 DEF r

\* What the client of stream s has, is being written, and has queued, is in order
\* and older than what is still to be sent to it; and nothing published since its
\* stream opened is missing but what was dropped or is on its way.
Orderly(s) ==
  /\ Rising(got[s]) /\ Rising(hand[s]) /\ Rising(buf[s])
  /\ Before(got[s], hand[s]) /\ Before(got[s], buf[s]) /\ Before(hand[s], buf[s])

Here(s) == Numbers(got[s]) \cup Numbers(hand[s]) \cup Numbers(buf[s])

Older(s) ==
  \A n \in Here(s) : n <= count /\ (mu = Publisher /\ s \in todo => n < count)

Complete(s) ==
  pc[s] \in {"loop", "write"} /\ chan[s] = "open" =>
    \A n \in 1..count : n > opened[s] =>
       \/ n \in Here(s) \cup dropped[s]
       \/ n = count /\ mu # Nobody /\ s \in todo

ArrivalInv == \A s \in Streams : Orderly(s) /\ Older(s) /\ Complete(s)

\* Positions in the stream of events are natural numbers.
LEMMA HereNat == TypeOK => \A s \in Streams : Here(s) \subseteq Nat
<1>1. \A q \in Seq(Nat) : Numbers(q) \subseteq Nat
  BY ElementOfSeq, LenProperties DEF Numbers
<1> QED BY <1>1 DEF TypeOK, Here

\* A step leaves the queues of stream s alone, and what is still to be sent to it.
Rests(s) ==
  /\ UNCHANGED <<got[s], hand[s], buf[s], count>>
  /\ s \in todo' <=> s \in todo
  /\ mu' = mu \/ s \notin todo

\* It may leave the loop or lose its channel in that step; it does not open.
LEMMA RestingStream ==
  ASSUME NEW s \in Streams, Rests(s), Orderly(s), Older(s), Complete(s),
         pc'[s] = pc[s] \/ pc'[s] \notin {"loop", "write"},
         chan'[s] = chan[s] \/ chan'[s] # "open",
         opened'[s] = opened[s], dropped'[s] = dropped[s]
  PROVE  Orderly(s)' /\ Older(s)' /\ Complete(s)'
<1>1. Orderly(s)' /\ Here(s)' = Here(s)
  BY DEF Rests, Orderly, Here, Rising, Before, Numbers
<1>2. Older(s)'
  BY <1>1 DEF Rests, Older
<1>3. Complete(s)'
  BY <1>1 DEF Rests, Complete
<1> QED BY <1>1, <1>2, <1>3

\* The broker takes its mutex: what it is about to publish is newer than all else,
\* and every subscriber is still to be visited.
LEMMA LockKeepsArrivals ==
  ASSUME TypeOK, BrokerInv, ArrivalInv, LockForPublish \/ LockForClose
  PROVE  ArrivalInv'
<1> SUFFICES ASSUME NEW s \in Streams PROVE Orderly(s)' /\ Older(s)' /\ Complete(s)'
  BY DEF ArrivalInv
<1>1. /\ UNCHANGED <<got, hand, buf, pc, chan, opened, dropped>>
      /\ mu = Nobody /\ mu' # Nobody /\ todo' = subs
      /\ \/ count' = count + 1
         \/ count' = count /\ mu' # Publisher
  BY StreamAssumption DEF LockForPublish, LockForClose, handlers
<1>2. Orderly(s) /\ Older(s) /\ Complete(s)
  BY DEF ArrivalInv
<1>3. Orderly(s)' /\ Here(s)' = Here(s)
  BY <1>1, <1>2 DEF Orderly, Here, Rising, Before, Numbers
<1>4. Here(s) \subseteq Nat /\ count \in Nat
  BY HereNat DEF TypeOK
<1>5. Older(s)'
  BY <1>1, <1>2, <1>3, <1>4 DEF Older
<1>6. Complete(s)'
  <2> SUFFICES ASSUME pc[s] \in {"loop", "write"}, chan[s] = "open",
                      NEW n \in 1..count', n > opened[s]
               PROVE  n \in Here(s) \cup dropped[s] \/ (n = count' /\ s \in subs)
    BY <1>1, <1>3 DEF Complete
  <2>1. s \in subs
    BY DEF BrokerInv, NoSubscriptionLeaks
  <2>2. CASE n \in 1..count
    BY <1>1, <1>2, <2>2 DEF Complete
  <2>3. CASE n \notin 1..count
    BY <1>1, <1>4, <2>1, <2>3
  <2> QED BY <2>2, <2>3
<1> QED BY <1>3, <1>5, <1>6

\* Publish visits a subscriber: the event ends up in its queue or is dropped.
LEMMA SendKeepsArrivals ==
  ASSUME TypeOK, ArrivalInv, NEW s \in Streams, SendTo(s)
  PROVE  ArrivalInv'
<1>1. /\ mu = Publisher /\ mu # Nobody /\ mu' = mu /\ s \in todo /\ todo' = todo \ {s}
      /\ UNCHANGED <<got, hand, pc, chan, opened, count>>
      /\ \/ buf' = [buf EXCEPT ![s] = Append(buf[s], count)] /\ dropped' = dropped
         \/ buf' = buf /\ dropped' = [dropped EXCEPT ![s] = dropped[s] \cup {count}]
  BY StreamAssumption DEF SendTo, handlers
<1>2. \A t \in Streams : Orderly(t) /\ Older(t) /\ Complete(t)
  BY DEF ArrivalInv
<1>3. ASSUME NEW t \in Streams, t # s PROVE Orderly(t)' /\ Older(t)' /\ Complete(t)'
  <2>1. Rests(t) /\ pc'[t] = pc[t] /\ chan'[t] = chan[t] /\ opened'[t] = opened[t]
        /\ dropped'[t] = dropped[t]
    BY <1>1, <1>3 DEF Rests, TypeOK
  <2> QED BY <1>2, <2>1, RestingStream
<1>4. Here(s) \subseteq Nat /\ count \in Nat /\ \A n \in Here(s) : n < count
  BY <1>1, <1>2, HereNat DEF Older, TypeOK
<1>5. Orderly(s)' /\ Here(s)' \cup dropped'[s] = Here(s) \cup dropped[s] \cup {count}
      /\ Here(s)' \subseteq Here(s) \cup {count}
  <2>1. CASE buf' = buf /\ dropped' = [dropped EXCEPT ![s] = dropped[s] \cup {count}]
    <3>1. Orderly(s)' /\ Here(s)' = Here(s)
      <4>1. UNCHANGED <<got, hand, buf>>
        BY <1>1, <2>1
      <4> QED BY <1>2, <4>1 DEF Orderly, Here, Rising, Before, Numbers
    <3>2. dropped'[s] = dropped[s] \cup {count}
      BY <2>1 DEF TypeOK
    <3> QED BY <3>1, <3>2
  <2>2. CASE buf' = [buf EXCEPT ![s] = Append(buf[s], count)] /\ dropped' = dropped
    <3>1. buf'[s] = Append(buf[s], count) /\ got'[s] = got[s] /\ hand'[s] = hand[s]
          /\ buf[s] \in Seq(Nat)
      BY <1>1, <2>2 DEF TypeOK
    <3>2. Numbers(buf'[s]) = Numbers(buf[s]) \cup {count}
      BY <1>4, <3>1, NumbersOfAppend
    <3>3. Rising(buf'[s])
      BY <1>2, <1>4, <3>1, RisingAppend DEF Orderly, Here
    <3>4. Orderly(s)'
      BY <1>2, <1>4, <3>1, <3>2, <3>3 DEF Orderly, Here, Before
    <3>5. Here(s)' = Here(s) \cup {count}
      BY <3>1, <3>2 DEF Here
    <3> QED BY <2>2, <3>4, <3>5
  <2> QED BY <1>1, <2>1, <2>2
<1>6. Older(s)'
  BY <1>1, <1>4, <1>5 DEF Older
<1>7. Complete(s)'
  BY <1>1, <1>2, <1>5 DEF Complete
<1> QED BY <1>3, <1>5, <1>6, <1>7 DEF ArrivalInv

\* The handler takes an event out of its channel.
LEMMA ReceiveKeepsArrivals ==
  ASSUME TypeOK, ArrivalInv, NEW s \in Streams, Receive(s)
  PROVE  ArrivalInv'
<1>1. /\ pc[s] = "loop" /\ UNCHANGED <<mu, todo, count, chan, dropped, opened, got>>
      /\ \A t \in Streams : t # s => pc'[t] = pc[t] /\ hand'[t] = hand[t] /\ buf'[t] = buf[t]
  BY DEF Receive, TypeOK
<1>2. \A t \in Streams : Orderly(t) /\ Older(t) /\ Complete(t)
  BY DEF ArrivalInv
<1>3. ASSUME NEW t \in Streams, t # s PROVE Orderly(t)' /\ Older(t)' /\ Complete(t)'
  <2>1. Rests(t) /\ pc'[t] = pc[t] /\ chan'[t] = chan[t] /\ opened'[t] = opened[t]
        /\ dropped'[t] = dropped[t]
    BY <1>1, <1>3 DEF Rests
  <2> QED BY <1>2, <2>1, RestingStream
<1>4. CASE buf[s] = <<>>
  <2>1. Rests(s) /\ pc'[s] = "unsubscribe" /\ chan'[s] = chan[s] /\ opened'[s] = opened[s]
        /\ dropped'[s] = dropped[s]
    BY <1>1, <1>4 DEF Rests, Receive, TypeOK
  <2> QED BY <1>2, <1>3, <2>1, RestingStream DEF ArrivalInv
<1>5. CASE buf[s] # <<>>
  <2>1. /\ hand'[s] = <<Head(buf[s])>> /\ buf'[s] = Tail(buf[s]) /\ got'[s] = got[s]
        /\ buf[s] \in Seq(Nat) /\ Head(buf[s]) \in Nat
        /\ hand[s] = <<>>
    BY <1>1, <1>5, HeadTailProperties DEF Receive, TypeOK
  <2>2. /\ Numbers(buf[s]) = Numbers(hand'[s]) \cup Numbers(buf'[s])
        /\ Rising(buf'[s]) /\ Before(hand'[s], buf'[s])
    BY <1>2, <1>5, <2>1, RisingTail, NumbersOfAppend DEF Orderly
  <2>3. Numbers(hand[s]) = {} /\ Rising(hand'[s])
    BY <2>1, NumbersOfAppend
  <2>4. Orderly(s)'
    BY <1>2, <2>1, <2>2, <2>3 DEF Orderly, Before
  <2>5. Here(s)' = Here(s)
    BY <2>1, <2>2, <2>3 DEF Here
  <2>6. Older(s)' /\ Complete(s)'
    BY <1>1, <1>2, <2>5 DEF Older, Complete
  <2> QED BY <1>3, <2>4, <2>6 DEF ArrivalInv
<1> QED BY <1>4, <1>5

\* The handler writes it to the client, or fails to and gives up.
LEMMA WriteKeepsArrivals ==
  ASSUME TypeOK, ArrivalInv, NEW s \in Streams, WriteFrame(s)
  PROVE  ArrivalInv'
<1>1. /\ pc[s] = "write" /\ UNCHANGED <<mu, todo, count, chan, dropped, opened, buf>>
      /\ hand' = [hand EXCEPT ![s] = <<>>]
      /\ \/ got' = [got EXCEPT ![s] = got[s] \o hand[s]] /\ pc' = [pc EXCEPT ![s] = "loop"]
         \/ got' = got /\ pc' = [pc EXCEPT ![s] = "unsubscribe"]
  BY DEF WriteFrame
<1>2. \A t \in Streams : Orderly(t) /\ Older(t) /\ Complete(t)
  BY DEF ArrivalInv
<1>3. ASSUME NEW t \in Streams, t # s PROVE Orderly(t)' /\ Older(t)' /\ Complete(t)'
  <2>1. Rests(t) /\ pc'[t] = pc[t] /\ chan'[t] = chan[t] /\ opened'[t] = opened[t]
        /\ dropped'[t] = dropped[t]
    BY <1>1, <1>3 DEF Rests, TypeOK
  <2> QED BY <1>2, <2>1, RestingStream
<1>4. /\ hand'[s] = <<>> /\ Numbers(hand'[s]) = {} /\ Rising(hand'[s]) /\ buf'[s] = buf[s]
  BY <1>1, NumbersOfAppend DEF TypeOK
<1>5. CASE got' = got /\ pc' = [pc EXCEPT ![s] = "unsubscribe"]
  <2>1. Orderly(s)' /\ Here(s)' \subseteq Here(s)
    BY <1>2, <1>4, <1>5 DEF Orderly, Here, Before
  <2>2. Older(s)'
    BY <1>1, <1>2, <2>1 DEF Older
  <2>3. pc'[s] = "unsubscribe"
    BY <1>5 DEF TypeOK
  <2> QED BY <1>3, <2>1, <2>2, <2>3 DEF ArrivalInv, Complete
<1>6. CASE got' = [got EXCEPT ![s] = got[s] \o hand[s]]
  <2>1. got'[s] = got[s] \o hand[s] /\ got[s] \in Seq(Nat) /\ hand[s] \in Seq(Nat)
    BY <1>6 DEF TypeOK
  <2>2. Numbers(got'[s]) = Numbers(got[s]) \cup Numbers(hand[s]) /\ Rising(got'[s])
    BY <1>2, <2>1, RisingConcat DEF Orderly
  <2>3. Orderly(s)'
    BY <1>2, <1>4, <2>2 DEF Orderly, Before
  <2>4. Here(s)' = Here(s)
    BY <1>4, <2>2 DEF Here
  <2>5. Older(s)' /\ Complete(s)'
    BY <1>1, <1>2, <2>4 DEF Older, Complete
  <2> QED BY <1>3, <2>3, <2>5 DEF ArrivalInv
<1> QED BY <1>1, <1>5, <1>6

\* Nothing else touches what a client has or will get, but for its own departure.
LEMMA OthersKeepArrivals ==
  ASSUME TypeOK, ArrivalInv, NEW s \in Streams,
         CloseOne(s) \/ Accept(s) \/ Subscribe(s) \/ OpenStream(s) \/ ClientGone(s)
           \/ Unsubscribe(s)
  PROVE  ArrivalInv'
<1>1. \A t \in Streams : Orderly(t) /\ Older(t) /\ Complete(t)
  BY DEF ArrivalInv
<1>2. ASSUME NEW t \in Streams, t # s PROVE Orderly(t)' /\ Older(t)' /\ Complete(t)'
  <2>1. Rests(t) /\ pc'[t] = pc[t] /\ chan'[t] = chan[t] /\ opened'[t] = opened[t]
        /\ dropped'[t] = dropped[t]
    BY <1>2 DEF CloseOne, Accept, Subscribe, OpenStream, ClientGone, Unsubscribe, Shut,
                Return, Rests, TypeOK, handlers, broker
  <2> QED BY <1>1, <2>1, RestingStream
<1>3. CASE CloseOne(s)
  <2>1. /\ mu = Closer /\ mu' = mu /\ mu # Publisher
        /\ UNCHANGED <<got, hand, buf, count>> /\ chan'[s] = "shut"
    BY <1>3, StreamAssumption DEF CloseOne, Shut, handlers, TypeOK
  <2>2. Orderly(s)' /\ Here(s)' = Here(s)
    BY <1>1, <2>1 DEF Orderly, Here, Rising, Before, Numbers
  <2>3. Older(s)' /\ Complete(s)'
    BY <1>1, <2>1, <2>2 DEF Older, Complete
  <2> QED BY <1>2, <2>2, <2>3 DEF ArrivalInv
<1>4. CASE Accept(s) \/ Subscribe(s) \/ ClientGone(s)
  <2>1. Rests(s) /\ pc'[s] \notin {"loop", "write"} /\ opened'[s] = opened[s]
        /\ dropped'[s] = dropped[s]
    BY <1>4 DEF Accept, Subscribe, ClientGone, Rests, TypeOK, broker
  <2>2. Orderly(s)' /\ Here(s)' = Here(s)
    BY <1>1, <2>1 DEF Rests, Orderly, Here, Rising, Before, Numbers
  <2>3. Older(s)' /\ Complete(s)'
    BY <1>1, <2>1, <2>2 DEF Rests, Older, Complete
  <2> QED BY <1>2, <2>2, <2>3 DEF ArrivalInv
<1>5. CASE OpenStream(s)
  <2>1. /\ UNCHANGED <<mu, todo, count, got, hand, buf, chan, dropped>>
        /\ \/ opened'[s] = count /\ pc'[s] = "loop"
           \/ pc'[s] = "unsubscribe"
    BY <1>5 DEF OpenStream, broker, TypeOK
  <2>2. Orderly(s)' /\ Here(s)' = Here(s)
    BY <1>1, <2>1 DEF Orderly, Here, Rising, Before, Numbers
  <2>3. Older(s)' /\ Complete(s)'
    BY <1>1, <2>1, <2>2 DEF Older, Complete, TypeOK
  <2> QED BY <1>2, <2>2, <2>3 DEF ArrivalInv
<1>6. CASE Unsubscribe(s)
  <2>1. /\ pc[s] = "unsubscribe" /\ pc'[s] = "gone" /\ hand'[s] = hand[s]
        /\ buf'[s] = <<>> /\ got'[s] = <<>>
    BY <1>6 DEF Unsubscribe, Return, TypeOK
  <2>2. hand[s] = <<>>
    BY <2>1 DEF TypeOK
  <2>3. Orderly(s)' /\ Here(s)' = {}
    BY <2>1, <2>2, NumbersOfAppend DEF Orderly, Here, Before
  <2>4. Older(s)' /\ Complete(s)'
    BY <2>1, <2>3 DEF Older, Complete
  <2> QED BY <1>2, <2>3, <2>4 DEF ArrivalInv
<1> QED BY <1>3, <1>4, <1>5, <1>6

\* A client that has seen its stream open gets, in order, every event from then on
\* but those a full buffer dropped (EventsAfterOpenArrive).
THEOREM EventsArrive == Spec => []EventsAfterOpenArrive
<1>1. Init => ArrivalInv
  <2> SUFFICES ASSUME Init, NEW s \in Streams PROVE Orderly(s) /\ Older(s) /\ Complete(s)
    BY DEF ArrivalInv
  <2>1. got[s] = <<>> /\ hand[s] = <<>> /\ buf[s] = <<>> /\ pc[s] = "away"
    BY DEF Init
  <2> QED BY <2>1, NumbersOfAppend DEF Orderly, Older, Complete, Here, Before
<1>2. TypeOK /\ BrokerInv /\ ArrivalInv /\ [Next]_vars => ArrivalInv'
  <2> SUFFICES ASSUME TypeOK, BrokerInv, ArrivalInv, [Next]_vars PROVE ArrivalInv'
    OBVIOUS
  <2>1. CASE LockForPublish \/ LockForClose
    BY <2>1, LockKeepsArrivals
  <2>2. ASSUME NEW s \in Streams, SendTo(s) \/ Receive(s) \/ WriteFrame(s) PROVE ArrivalInv'
    BY <2>2, SendKeepsArrivals, ReceiveKeepsArrivals, WriteKeepsArrivals
  <2>3. ASSUME NEW s \in Streams, CloseOne(s) \/ Accept(s) \/ Subscribe(s) \/ OpenStream(s)
                                    \/ ClientGone(s) \/ Unsubscribe(s)
        PROVE  ArrivalInv'
    BY <2>3, OthersKeepArrivals
  <2>4. CASE UnlockPublish \/ UnlockClose \/ StopServer \/ Drained \/ DeadlinePasses
               \/ UNCHANGED vars
    <3> SUFFICES ASSUME NEW s \in Streams PROVE Orderly(s)' /\ Older(s)' /\ Complete(s)'
      BY DEF ArrivalInv
    <3>1. /\ UNCHANGED <<got, hand, buf, count, todo, pc, chan, opened, dropped>>
          /\ mu' = mu \/ todo = {}
      BY <2>4 DEF UnlockPublish, UnlockClose, Unlock, StopServer, Drained, DeadlinePasses,
                  vars, broker, handlers
    <3>2. Rests(s)
      BY <3>1 DEF Rests
    <3> QED BY <3>1, <3>2, RestingStream DEF ArrivalInv
  <2> QED
    BY <2>1, <2>2, <2>3, <2>4 DEF Next, FinishPublish, CloseStep, StreamStep, Over
<1>3. TypeOK /\ ArrivalInv => EventsAfterOpenArrive
  <2> SUFFICES ASSUME TypeOK, ArrivalInv, NEW s \in Streams
               PROVE  /\ Rising(Queued(s))
                      /\ Numbers(Queued(s)) = Here(s)
                      /\ Complete(s)
    BY DEF EventsAfterOpenArrive, Rising, Complete
  <2>1. got[s] \in Seq(Nat) /\ hand[s] \in Seq(Nat) /\ buf[s] \in Seq(Nat)
        /\ Orderly(s) /\ Complete(s)
    BY DEF TypeOK, ArrivalInv
  <2> DEFINE p == got[s] \o hand[s]
  <2>2. p \in Seq(Nat) /\ Numbers(p) = Numbers(got[s]) \cup Numbers(hand[s]) /\ Rising(p)
    BY <2>1, RisingConcat, ConcatProperties DEF Orderly
  <2> HIDE DEF p
  <2>3. Before(p, buf[s])
    BY <2>1, <2>2 DEF Orderly, Before
  <2>4. Numbers(p \o buf[s]) = Numbers(p) \cup Numbers(buf[s]) /\ Rising(p \o buf[s])
    <3>1. p \in Seq(Nat) /\ buf[s] \in Seq(Nat) /\ Rising(p) /\ Rising(buf[s]) /\ Before(p, buf[s])
      BY <2>1, <2>2, <2>3 DEF Orderly
    <3> QED BY <3>1, RisingConcat
  <2> QED BY <2>1, <2>2, <2>4 DEF Queued, Here, p
<1> QED
  BY <1>1, <1>2, <1>3, TypeCorrect, BrokerSafe, PTL DEF Spec

-----------------------------------------------------------------------------
(* ApiRequest: the inductive invariant, one request at a time.             *)

\* The places before the repository is asked, and those behind the cap and
\* behind the validator that are not yet answered.
Unserved == {"idle", "session", "cap", "route", "bind", "observe", "validate",
             "guard", "handle", "source", "serve"}
BehindCap == {"route", "bind", "observe", "validate",
              "guard", "handle", "source", "serve", "publish"}
BehindSpec == {"guard", "handle", "source", "serve", "publish"}
BeforeSpec == Unserved \ BehindSpec

\* Where a request is tells which route it took and what it has done.
OnItsRoute(q) ==
  /\ q.in.form # "object" => q.in.body = NoFields
  /\ q.at \in Unserved \cup {"publish"} => ~q.published /\ ~q.wrote /\ q.answers = <<>>
  /\ q.at \in Unserved \cup {"stream"} => q.given = None
  /\ q.at = "publish" => q.given # None /\ q.in.op \in Mutations
  /\ q.at = "stream" => q.in.op = "streamEvents" /\ ~q.published
  /\ q.at \in {"bind", "observe"} \cup (Observed \ {"guard"}) => q.in.op \in Operations
  /\ q.at \in {"guard", "panicking"} => q.in.op \in Operations \cup {"streamEvents"}
  /\ q.at = "leave" => q.answers # <<>>

\* What the handler finds behind the validator.
BodyOf(i) ==
  IF i.op \in Operations /\ i.form = "object" THEN WithDefaults(i.op, i.body) ELSE i.body

\* What the middlewares have made sure of.
IsChecked(q) ==
  /\ q.at \in BehindCap => q.in.size # "declared"
  /\ q.at \in BeforeSpec => q.body = q.in.body
  /\ q.at \in BehindSpec => PassesSpec(q.in) /\ q.body = BodyOf(q.in)
  /\ q.at = "serve" => Accepts(q.in.op, q.body)

\* The properties of the runs, of one request.
IsMembers(q) ==
  /\ q.at \in {"handle", "source", "serve", "publish", "stream"} \/ q.given # None
  /\ q.in.op # "GetHealth"
  => /\ setup.dev \/ q.in.cookie = "live"
     /\ q.user = IF setup.dev THEN "devUser" ELSE "member"

AnsweredOnce(q) ==
  /\ q.at = "done" => q.answers # <<>>
  /\ q.in.op # "streamEvents" =>
       /\ Len(q.answers) <= 1
       /\ q.answers = <<>> \/ q.wrote \/ q.at = "done"

Tells(q) ==
  \A n \in 1..Len(q.answers) :
    /\ q.answers[n] \in {400, 401, 405, 413} => q.given = None /\ ~q.published
    /\ q.answers[n] \in 200..299 /\ q.in.op \in Mutations => q.given # None /\ q.published

Clean(op, x) ==
  /\ x.name # None => ValidName(x.name) /\ x.name.blanks = 0 /\ x.name.runes <= MaxName
  /\ x.quantity # None => x.quantity \in 1..MaxInt32
  /\ x.unit # None => x.unit \in Units
  /\ HasNote(x.note) => x.note.runes <= MaxNote /\ x.note.blanks = 0
  /\ op \in Named \cup {"AddItem"} => x.name # None
  /\ op = "AddItem" => x.quantity # None /\ x.unit # None

Fitting(q) ==
  q.given # None => /\ Clean(q.in.op, q.given)
                    /\ q.in.op \in WithBody => q.in.size = "fits"

Sound(q) ==
  /\ OnItsRoute(q) /\ IsChecked(q)
  /\ IsMembers(q) /\ AnsweredOnce(q) /\ Tells(q) /\ Fitting(q)

ApiTypes ==
  /\ setup \in [dev: BOOLEAN, durable: BOOLEAN]
  /\ up \in BOOLEAN /\ outages \in 0..MaxOutages
  /\ request \in [Requests -> Request]

ApiInv == ApiTypes /\ InFlightCounts /\ \A r \in Requests : Sound(request[r])

\* The request is counted by the gauge.
Counted(q) == q.in.op \in Operations /\ q.at \in Observed \cup {"panicking"}

\* A request goes on, soundly, and the gauge need not know.
Follows(q, a) == a \in Request /\ Sound(a) /\ (Counted(a) <=> Counted(q))
GoesOn(r) == \E a : Follows(request[r], a) /\ request' = [request EXCEPT ![r] = a]

\* An answer, and a step to a place the request has a right to.
Given(q, status, place) ==
  [q EXCEPT !.answers = Append(@, status), !.wrote = TRUE, !.at = place]
Moved(q, place, body, user) == [q EXCEPT !.at = place, !.body = body, !.user = user]

Waits(q) == q.at \in Unserved \ {"idle"}

MayAnswer(q, status, place) ==
  /\ status \in Nat
  /\ status \in 200..299 => q.in.op \notin Mutations
  /\ place = IF Counted(q) THEN "leave" ELSE "done"

MayMove(q, place, body, user) ==
  /\ place \in (Unserved \cup {"stream"}) \ {"idle"}
  /\ body \in Fields /\ user \in {"nobody", "member", "devUser"}
  /\ place \in {"bind", "observe"} \cup (Observed \ {"guard"}) => q.in.op \in Operations
  /\ place = "guard" => q.in.op \in Operations \cup {"streamEvents"}
  /\ place = "stream" => q.in.op = "streamEvents"
  /\ place \in BehindCap => q.in.size # "declared"
  /\ place \in BeforeSpec => body = q.in.body
  /\ place \in BehindSpec => PassesSpec(q.in) /\ body = BodyOf(q.in)
  /\ place = "serve" => Accepts(q.in.op, body)
  /\ place \in {"handle", "source", "serve", "stream"} /\ q.in.op # "GetHealth" =>
       (setup.dev \/ q.in.cookie = "live") /\ user = IF setup.dev THEN "devUser" ELSE "member"

\* The step passes the metrics middleware in neither direction.
Stays(q, place) == q.in.op \in Operations => (place \in Observed <=> q.at \in Observed)

-----------------------------------------------------------------------------
(* ApiRequest: what one request does leaves the others alone.              *)

\* The gauge counts what is between the two ends of the metrics middleware.
LEMMA InsideIsCounted ==
  ASSUME NEW r \in Requests
  PROVE  Inside(r) <=> Counted(request[r])
BY DEF Inside, Counted, Op

\* One request changes, and the gauge with it.
LEMMA OneChangeKeeps ==
  ASSUME ApiInv, NEW r \in Requests, NEW a \in Request, Sound(a),
         request' = [request EXCEPT ![r] = a], UNCHANGED <<setup, up, outages>>,
         \/ (Counted(a) <=> Counted(request[r])) /\ inFlight' = inFlight
         \/ Counted(a) /\ ~Counted(request[r]) /\ inFlight' = inFlight + 1
         \/ ~Counted(a) /\ Counted(request[r]) /\ inFlight' = inFlight - 1
  PROVE  ApiInv'
<1>. DEFINE inside == {s \in Requests : Inside(s)}
<1>1. request \in [Requests -> Request]
  BY DEF ApiInv, ApiTypes
<1>2. /\ request' \in [Requests -> Request] /\ request'[r] = a
      /\ \A s \in Requests : s # r => request'[s] = request[s]
  BY <1>1
<1>3. ApiTypes'
  BY <1>2 DEF ApiInv, ApiTypes
<1>4. \A s \in Requests : Sound(request[s])'
  <2>. SUFFICES ASSUME NEW s \in Requests PROVE Sound(request'[s])
    BY DEF Sound, OnItsRoute, IsChecked, IsMembers, AnsweredOnce, Tells, Fitting
  <2>1. CASE s = r
    BY <1>2, <2>1
  <2>2. CASE s # r
    <3>1. request'[s] = request[s] /\ Sound(request[s])
      BY <1>2, <2>2 DEF ApiInv
    <3>. QED  BY ONLY <3>1
  <2>. QED  BY <2>1, <2>2
<1>5. inside \subseteq Requests /\ IsFiniteSet(inside) /\ inFlight = Cardinality(inside)
  <2>1. IsFiniteSet(Requests)
    BY ApiRequestAssumption DEF ApiRequestAssumption
  <2>. QED  BY <2>1, FS_Subset DEF ApiInv, InFlightCounts
<1>6. /\ r \in inside <=> Counted(request[r])
      /\ r \in inside' <=> Counted(a)
      /\ \A s \in Requests : s # r => (s \in inside' <=> s \in inside)
  BY <1>2 DEF Inside, Counted, Op
<1>7. inside' \subseteq Requests
  OBVIOUS
<1>. HIDE DEF inside
<1>8. inFlight' = Cardinality(inside')
  <2>1. CASE Counted(a) <=> Counted(request[r])
    <3>1. inside' = inside
      BY <1>5, <1>6, <1>7, <2>1
    <3>. QED  BY <1>5, <2>1, <3>1
  <2>2. CASE Counted(a) /\ ~Counted(request[r])
    <3>1. inside' = inside \cup {r} /\ r \notin inside
      BY <1>5, <1>6, <1>7, <2>2
    <3>2. Cardinality(inside \cup {r}) = Cardinality(inside) + 1
      BY <1>5, <3>1, FS_AddElement
    <3>. QED  BY <1>5, <2>2, <3>1, <3>2
  <2>3. CASE ~Counted(a) /\ Counted(request[r])
    <3>1. inside' = inside \ {r} /\ r \in inside
      BY <1>5, <1>6, <1>7, <2>3
    <3>2. Cardinality(inside \ {r}) = Cardinality(inside) - 1
      BY <1>5, <3>1, FS_RemoveElement
    <3>. QED  BY <1>5, <2>3, <3>1, <3>2
  <2>. QED  BY <2>1, <2>2, <2>3
<1>9. InFlightCounts'
  BY <1>8 DEF InFlightCounts, inside
<1>. QED  BY <1>3, <1>4, <1>9 DEF ApiInv

\* ... and where the metrics middleware is not passed, the gauge stays.
LEMMA GoingOnKeeps ==
  ASSUME ApiInv, NEW r \in Requests, GoesOn(r), UNCHANGED rest
  PROVE  ApiInv'
<1>1. PICK a : Follows(request[r], a) /\ request' = [request EXCEPT ![r] = a]
  BY DEF GoesOn
<1>. QED  BY <1>1, OneChangeKeeps DEF Follows, rest

-----------------------------------------------------------------------------
(* ApiRequest: an answer, and a step to the next place.                    *)

\* What the fields of a request may hold.
LEMMA RequestFields ==
  ASSUME NEW q \in Request
  PROVE  /\ q = [at |-> q.at, in |-> q.in, body |-> q.body, user |-> q.user, given |-> q.given,
                 published |-> q.published, logged |-> q.logged, wrote |-> q.wrote,
                 answers |-> q.answers]
         /\ q.at \in Places /\ q.in \in Input /\ q.body \in Fields
         /\ q.user \in {"nobody", "member", "devUser"} /\ q.given \in Fields \cup {None}
         /\ q.published \in BOOLEAN /\ q.logged \in BOOLEAN /\ q.wrote \in BOOLEAN
         /\ q.answers \in Seq(Nat)
BY DEF Request

\* A request that has not been served may be answered, with a success only if it
\* was not to change anything.
LEMMA AnswerIsSound ==
  ASSUME NEW q \in Request, Sound(q), Waits(q), NEW status, NEW place,
         MayAnswer(q, status, place)
  PROVE  Follows(q, Given(q, status, place))
<1>. DEFINE a == Given(q, status, place)
<1>0. /\ a = [q EXCEPT !.answers = Append(@, status), !.wrote = TRUE, !.at = place]
      /\ status \in Nat /\ (status \in 200..299 => q.in.op \notin Mutations)
      /\ place \in {"leave", "done"} /\ (place = "leave" <=> Counted(q))
      /\ q.at \in Unserved \ {"idle"}
  BY DEF Given, MayAnswer, Waits
<1>. HIDE DEF a
<1>1. q.answers = <<>> /\ q.given = None /\ ~q.published
  BY <1>0 DEF Sound, OnItsRoute
<1>2. a \in Request
  <2>1. q.answers \in Seq(Nat)
    BY DEF Request
  <2>2. Append(q.answers, status) \in Seq(Nat)
    BY <1>0, <2>1
  <2>. QED  BY <1>0, <2>2 DEF Request, Places, Observed
<1>3. /\ a.at = place /\ a.in = q.in /\ a.body = q.body /\ a.user = q.user
      /\ a.given = None /\ ~a.published /\ a.wrote /\ a.answers = <<status>>
  BY <1>0, <1>1, RequestFields DEF Request
<1>a. a.answers # <<>> /\ Len(a.answers) = 1 /\ a.answers[1] = status
  <2>1. <<status>> # <<>> /\ Len(<<status>>) = 1 /\ <<status>>[1] = status
    OBVIOUS
  <2>. QED  BY <2>1, <1>3, Zenon
<1>4. OnItsRoute(a)
  <2>1. a.in.form # "object" => a.in.body = NoFields
    BY <1>3 DEF Sound, OnItsRoute
  <2>. QED  BY <1>0, <2>1, <1>3, <1>a DEF OnItsRoute, Unserved, Observed, Counted
<1>5. IsChecked(a)
  BY <1>0, <1>3 DEF IsChecked, BehindCap, BehindSpec, BeforeSpec, Unserved
<1>6. IsMembers(a) /\ Fitting(a)
  BY <1>0, <1>3 DEF IsMembers, Fitting
<1>7. AnsweredOnce(a)
  BY <1>3, <1>a DEF AnsweredOnce
<1>8. Tells(a)
  <2>1. \A n \in 1..Len(a.answers) : a.answers[n] = status
    BY <1>a
  <2>. QED  BY <1>0, <2>1, <1>3 DEF Tells
<1>9. Counted(a) <=> Counted(q)
  BY <1>0, <1>3 DEF Counted, Observed
<1>. QED  BY <1>2, <1>4, <1>5, <1>6, <1>7, <1>8, <1>9 DEF Sound, Follows, a

\* A request that has not been served may go on to a place it has a right to.
LEMMA MoveIsSound ==
  ASSUME NEW q \in Request, Sound(q), Waits(q), NEW place, NEW body, NEW user,
         MayMove(q, place, body, user)
  PROVE  Moved(q, place, body, user) \in Request /\ Sound(Moved(q, place, body, user))
<1>. DEFINE a == Moved(q, place, body, user)
<1>0. /\ a = [q EXCEPT !.at = place, !.body = body, !.user = user]
      /\ q.at \in Unserved \ {"idle"} /\ place \in (Unserved \cup {"stream"}) \ {"idle"}
      /\ body \in Fields /\ user \in {"nobody", "member", "devUser"}
  BY DEF Moved, MayMove, Waits
<1>. HIDE DEF a
<1>1. q.answers = <<>> /\ q.given = None /\ ~q.published /\ ~q.wrote
  BY <1>0 DEF Sound, OnItsRoute
<1>2. a \in Request
  BY <1>0 DEF Request, Places, Observed, Unserved
<1>3. /\ a.at = place /\ a.in = q.in /\ a.body = body /\ a.user = user
      /\ a.answers = <<>> /\ a.given = None /\ ~a.published /\ ~a.wrote
  BY <1>0, <1>1, RequestFields DEF Request
<1>4. AnsweredOnce(a) /\ Tells(a) /\ Fitting(a)
  BY <1>0, <1>3 DEF AnsweredOnce, Tells, Fitting, Unserved
<1>5. OnItsRoute(a)
  <2>1. a.in.form # "object" => a.in.body = NoFields
    BY <1>3 DEF Sound, OnItsRoute
  <2>. QED  BY <1>0, <2>1, <1>3 DEF OnItsRoute, Unserved, Observed, MayMove
<1>6. IsChecked(a)
  BY <1>0, <1>3 DEF IsChecked, MayMove
<1>7. IsMembers(a)
  BY <1>0, <1>3 DEF IsMembers, Unserved, MayMove
<1>. QED  BY <1>2, <1>4, <1>5, <1>6, <1>7 DEF Sound, a

-----------------------------------------------------------------------------
(* ApiRequest: the OpenAPI document and the rules of the domain.           *)

\* An absent field is no value of any kind.
LEMMA NoneIsNoValue ==
  None \notin Int /\ None \notin Tokens /\ None \notin Text /\ None \notin Fields /\ None # Null
BY ApiRequestAssumption DEF ApiRequestAssumption

\* The bounds of the domain and of the document.
LEMMA BoundsAreNumbers ==
  /\ MaxName \in Nat \ {0} /\ MaxNote \in Nat \ {0} /\ SuffixLen \in Nat \ {0}
  /\ MaxInt32 \in Nat \ {0} /\ SuffixLen < MaxName
BY ApiRequestAssumption DEF ApiRequestAssumption

\* The document's default unit is a string a client may send.
LEMMA AmountIsToken ==
  "amount" \in Tokens /\ "amount" # None /\ Units \subseteq Tokens
BY ApiRequestAssumption DEF ApiRequestAssumption, Units

\* The checks of Service, one method at a time.
LEMMA AcceptsSays ==
  ASSUME NEW op, NEW b
  PROVE  /\ op \notin WithBody => Accepts(op, b)
         /\ op \in {"CreateList", "RenameList"} => (Accepts(op, b) <=> ValidName(AsString(b.name)))
         /\ op = "CopyList" =>
              (Accepts(op, b) <=> AsString(b.name) = AsString(None) \/ ValidName(b.name))
         /\ op = "AddItem" => (Accepts(op, b) <=> AddItemAccepts(b))
         /\ op = "UpdateItem" => (Accepts(op, b) <=> UpdateItemAccepts(b))
BY DEF Accepts, WithBody, Named

\* The defaults that the validator fills in make a body again.
LEMMA BodiesAreFields ==
  ASSUME NEW i \in Input
  PROVE  BodyOf(i) \in Fields
<1>1. i.body \in Fields
  BY DEF Input
<1>2. WithDefaults(i.op, i.body) \in Fields
  <2>. DEFINE q == IF i.op = "AddItem" /\ i.body.quantity = None THEN 1 ELSE i.body.quantity
              u == IF i.op \in {"AddItem", "UpdateItem"} /\ i.body.unit = None
                   THEN "amount" ELSE i.body.unit
  <2>0. i.body.quantity \in Int \cup {None} /\ i.body.unit \in Tokens \cup {None}
    BY <1>1 DEF Fields
  <2>1. q \in Int \cup {None}
    BY <2>0
  <2>3. u \in Tokens \cup {None}
    BY <2>0, AmountIsToken
  <2>2. WithDefaults(i.op, i.body) = [i.body EXCEPT !.quantity = q, !.unit = u]
    BY <1>1 DEF WithDefaults, Fields
  <2>. HIDE DEF q, u
  <2>. QED  BY <1>1, <2>1, <2>2, <2>3 DEF Fields
<1>. QED  BY <1>1, <1>2 DEF BodyOf

\* What the document has let through, field by field.
LEMMA SpecBounds ==
  ASSUME NEW i \in Input, i.op \in WithBody, PassesSpec(i),
         i.form # "object" => i.body = NoFields,
         NEW b, b = BodyOf(i)
  PROVE  /\ b \in Fields
         /\ b.name = None => i.op \in {"CopyList", "UpdateItem"}
         /\ b.name # None => b.name \in Text /\ b.name.runes + b.name.blanks \in 1..MaxName
         /\ i.op \in {"AddItem", "UpdateItem"} =>
              /\ b.quantity # None => b.quantity \in 1..MaxInt32
              /\ b.unit # None => b.unit \in Units
              /\ b.note \notin {None, Null} => b.note \in Text /\ b.note.runes + b.note.blanks <= MaxNote
         /\ i.op = "AddItem" => b.quantity # None /\ b.unit # None
<1>1. b \in Fields /\ i.body \in Fields
  BY BodiesAreFields DEF Input
<1>2. i.op \in Operations
  BY DEF Operations, Mutations
<1>3. CASE i.form = "object"
  <2>1. b = WithDefaults(i.op, i.body) /\ SpecAllows(i.op, i.body)
    BY <1>2, <1>3 DEF BodyOf, PassesSpec, Passes_Unread
  <2>2. b.name = i.body.name /\ b.note = i.body.note
    BY <1>1, <2>1 DEF WithDefaults, Fields
  <2>3. /\ b.quantity = IF i.op = "AddItem" /\ i.body.quantity = None THEN 1 ELSE i.body.quantity
        /\ b.unit = IF i.op \in {"AddItem", "UpdateItem"} /\ i.body.unit = None
                    THEN "amount" ELSE i.body.unit
    BY <1>1, <2>1 DEF WithDefaults, Fields
  <2>4. /\ b.name = None => i.op \in {"CopyList", "UpdateItem"}
        /\ b.name # None => b.name \in Text /\ b.name.runes + b.name.blanks \in 1..MaxName
    BY <1>1, <2>1, <2>2 DEF SpecAllows, SpecName, Long, Fields
  <2>5. CASE i.op \in {"AddItem", "UpdateItem"}
    <3>1. /\ i.body.quantity = None \/ i.body.quantity \in 1..MaxInt32
          /\ i.body.unit = None \/ i.body.unit \in Units
          /\ i.body.note \in {None, Null} \/ Long(i.body.note) <= MaxNote
      BY <2>1, <2>5 DEF SpecAllows, Named
    <3>2. b.note \notin {None, Null} => b.note \in Text /\ b.note.runes + b.note.blanks <= MaxNote
      BY <1>1, <2>2, <3>1 DEF Long, Fields
    <3>3. b.quantity # None => b.quantity \in 1..MaxInt32
      BY <2>3, <3>1, BoundsAreNumbers
    <3>4. b.unit # None => b.unit \in Units
      BY <2>3, <3>1 DEF Units
    <3>5. i.op = "AddItem" => b.quantity # None /\ b.unit # None
      BY <2>3, <2>5, NoneIsNoValue, AmountIsToken
    <3>. QED  BY <1>1, <2>4, <3>2, <3>3, <3>4, <3>5
  <2>6. CASE i.op \notin {"AddItem", "UpdateItem"}
    BY <2>6, <1>1, <2>4
  <2>. QED  BY <2>5, <2>6
<1>4. CASE i.form # "object"
  <2>1. i.op = "CopyList" /\ b = NoFields
    BY <1>4 DEF PassesSpec, Passes_Unread, Input, BodyOf
  <2>. QED  BY <2>1, <1>1 DEF NoFields
<1>. QED  BY <1>3, <1>4

\* The domain refuses nothing the document has let through but a blank name.
LEMMA DomainFollowsSpec ==
  ASSUME NEW i \in Input, PassesSpec(i), i.form # "object" => i.body = NoFields,
         ~Accepts(i.op, BodyOf(i))
  PROVE  BodyOf(i).name # None /\ BodyOf(i).name.runes = 0
<1>. DEFINE b == BodyOf(i)
<1>1. i.op \in WithBody
  BY AcceptsSays
<1>2. /\ b \in Fields
      /\ b.name = None => i.op \in {"CopyList", "UpdateItem"}
      /\ b.name # None => b.name \in Text /\ b.name.runes + b.name.blanks \in 1..MaxName
      /\ i.op \in {"AddItem", "UpdateItem"} =>
           /\ b.quantity # None => b.quantity \in 1..MaxInt32
           /\ b.unit # None => b.unit \in Units
           /\ b.note \notin {None, Null} => b.note \in Text /\ b.note.runes + b.note.blanks <= MaxNote
  BY <1>1, SpecBounds
<1>. SUFFICES b.name # None /\ b.name.runes = 0
  OBVIOUS
<1>5. ~Accepts(i.op, b)
  OBVIOUS
<1>. HIDE DEF b
<1>3. b.name # None /\ b.name.runes # 0 => ValidName(b.name) /\ ValidName(AsString(b.name))
  BY <1>2, BoundsAreNumbers DEF ValidName, AsString, Text
<1>4. i.op \in {"AddItem", "UpdateItem"} =>
        /\ ValidNote(b.note)
        /\ b.unit # None => ValidUnit(b.unit)
        /\ b.quantity # None => b.quantity >= 1 /\ ValidQuantity(b.quantity)
  <2>1. ASSUME i.op \in {"AddItem", "UpdateItem"} PROVE ValidNote(b.note)
    BY <2>1, <1>2, BoundsAreNumbers DEF ValidNote, HasNote, Text
  <2>2. ASSUME i.op \in {"AddItem", "UpdateItem"}, b.unit # None PROVE ValidUnit(b.unit)
    BY <2>2, <1>2 DEF ValidUnit
  <2>3. ASSUME i.op \in {"AddItem", "UpdateItem"}, b.quantity # None
        PROVE  b.quantity >= 1 /\ ValidQuantity(b.quantity)
    BY <2>3, <1>2 DEF ValidQuantity
  <2>. QED  BY <2>1, <2>2, <2>3
<1>6. CASE i.op \in {"CreateList", "RenameList"}
  BY <1>2, <1>3, <1>5, <1>6, AcceptsSays
<1>7. CASE i.op = "CopyList"
  <2>1. AsString(b.name) # AsString(None) /\ ~ValidName(b.name)
    BY <1>5, <1>7, AcceptsSays
  <2>2. b.name # None
    BY <2>1
  <2>. QED  BY <1>3, <2>1, <2>2
<1>8. CASE i.op = "AddItem"
  BY <1>2, <1>3, <1>4, <1>5, <1>8, AcceptsSays DEF AddItemAccepts
<1>9. CASE i.op = "UpdateItem"
  BY <1>3, <1>4, <1>5, <1>9, AcceptsSays DEF UpdateItemAccepts
<1>. QED  BY <1>1, <1>6, <1>7, <1>8, <1>9 DEF WithBody, Named

\* What each method of Service gives the repository.
LEMMA GivesSays ==
  ASSUME NEW op, NEW b
  PROVE  /\ op \notin WithBody => Gives(op, b) = {NoFields}
         /\ Derived(op, b) =>
              Gives(op, b) = {[NoFields EXCEPT !.name = t] :
                t \in UNION {CopyListName([runes |-> n, blanks |-> 0]) : n \in 1..MaxName}}
         /\ op \in Named /\ ~Derived(op, b) =>
              Gives(op, b) = {[NoFields EXCEPT !.name = Trimmed(b.name)]}
         /\ op = "AddItem" => Gives(op, b) = {AddItemGives(b)}
         /\ op = "UpdateItem" => Gives(op, b) = {UpdateItemGives(b)}
<1>1. ASSUME op \notin WithBody PROVE Gives(op, b) = {NoFields}
  BY <1>1 DEF Gives, Derived, WithBody, Named
<1>2. ASSUME Derived(op, b)
      PROVE  Gives(op, b) = {[NoFields EXCEPT !.name = t] :
               t \in UNION {CopyListName([runes |-> n, blanks |-> 0]) : n \in 1..MaxName}}
  BY <1>2 DEF Gives, Derived, Named
<1>3. ASSUME op \in Named, ~Derived(op, b)
      PROVE  Gives(op, b) = {[NoFields EXCEPT !.name = Trimmed(b.name)]}
  BY <1>3 DEF Gives, Derived, Named
<1>4. ASSUME op = "AddItem" PROVE Gives(op, b) = {AddItemGives(b)}
  BY <1>4 DEF Gives, Derived, Named
<1>5. ASSUME op = "UpdateItem" PROVE Gives(op, b) = {UpdateItemGives(b)}
  BY <1>5 DEF Gives, Derived, Named
<1>. QED  BY <1>1, <1>2, <1>3, <1>4, <1>5

\* A name derived for a copy fits, whatever the length of the original.
LEMMA CopyNamesFit ==
  ASSUME NEW n \in 1..MaxName, NEW t \in CopyListName([runes |-> n, blanks |-> 0])
  PROVE  t \in Text /\ ValidName(t) /\ t.blanks = 0
<1>. DEFINE original == [runes |-> n, blanks |-> 0]
<1>1. PICK k \in Nat : /\ t = [original EXCEPT !.runes = k + SuffixLen]
                      /\ k \in 1..(MaxName - SuffixLen)
  <2>1. CASE n + SuffixLen <= MaxName
    <3>1. t = [original EXCEPT !.runes = n + SuffixLen]
      BY <2>1 DEF CopyListName
    <3>2. n \in 1..(MaxName - SuffixLen)
      BY <2>1, BoundsAreNumbers
    <3>. QED  BY <3>1, <3>2
  <2>2. CASE ~(n + SuffixLen <= MaxName)
    <3>1. CopyListName(original) =
            {[original EXCEPT !.runes = k + SuffixLen] : k \in 1..(MaxName - SuffixLen)}
      BY <2>2 DEF CopyListName
    <3>. QED  BY <3>1, BoundsAreNumbers
  <2>. QED  BY <2>1, <2>2
<1>2. t = [runes |-> k + SuffixLen, blanks |-> 0]
  BY <1>1
<1>. QED  BY <1>1, <1>2, BoundsAreNumbers DEF Text, ValidName

\* cleanNote trims a note within its bound, or clears it.
LEMMA NotesAreClean ==
  ASSUME NEW n \in Text \cup {None, Null}, ValidNote(n)
  PROVE  /\ HasNote(n) => n \in Text /\ Trimmed(n) \in Text /\ Trimmed(n).blanks = 0
                          /\ Trimmed(n).runes <= MaxNote
         /\ CleanNote(n) \in Text \cup {Null}
         /\ HasNote(CleanNote(n)) => CleanNote(n).runes <= MaxNote /\ CleanNote(n).blanks = 0
<1>1. ASSUME HasNote(n)
      PROVE  n \in Text /\ Trimmed(n) \in Text /\ Trimmed(n).blanks = 0 /\ Trimmed(n).runes = n.runes
                /\ n.runes <= MaxNote
  BY <1>1 DEF HasNote, Trimmed, Text, ValidNote
<1>. QED  BY <1>1 DEF CleanNote, HasNote

\* cleanName trims a name within its bounds.
LEMMA NamesAreClean ==
  ASSUME NEW t \in Text, ValidName(t)
  PROVE  /\ Trimmed(t) \in Text /\ Trimmed(t) # None
         /\ ValidName(Trimmed(t)) /\ Trimmed(t).blanks = 0 /\ Trimmed(t).runes <= MaxName
<1>1. Trimmed(t) \in Text /\ Trimmed(t).blanks = 0 /\ Trimmed(t).runes = t.runes
  BY DEF Trimmed, Text
<1>. QED  BY <1>1, NoneIsNoValue, BoundsAreNumbers DEF ValidName

\* A name alone, as CreateList, RenameList and CopyList give one.
LEMMA NamedIsClean ==
  ASSUME NEW op \in Named, NEW t \in Text, ValidName(t), t.blanks = 0
  PROVE  LET x == [NoFields EXCEPT !.name = t] IN x \in Fields /\ Clean(op, x)
<1>. DEFINE x == [NoFields EXCEPT !.name = t]
<1>1. x = [name |-> t, quantity |-> None, unit |-> None, note |-> None]
  BY DEF NoFields
<1>2. x \in Fields
  BY <1>1 DEF Fields
<1>3. ~HasNote(x.note) /\ x.quantity = None /\ x.unit = None /\ x.name = t
  BY <1>1 DEF HasNote
<1>4. t # None /\ t.runes <= MaxName
  BY NoneIsNoValue, BoundsAreNumbers DEF ValidName
<1>. HIDE DEF x
<1>5. Clean(op, x)
  BY <1>3, <1>4 DEF Clean, Named
<1>. QED  BY <1>2, <1>5 DEF x
\* What a method of the service hands to the repository is clean.
LEMMA GivesAreClean ==
  ASSUME NEW i \in Input, PassesSpec(i), i.form # "object" => i.body = NoFields,
         i.op \in Mutations, Accepts(i.op, BodyOf(i)), NEW x \in Gives(i.op, BodyOf(i))
  PROVE  x \in Fields /\ x # None /\ Clean(i.op, x)
<1>. DEFINE b == BodyOf(i)
<1>1. b \in Fields /\ Accepts(i.op, b) /\ x \in Gives(i.op, b)
  BY BodiesAreFields
<1>2. i.op \in WithBody =>
        /\ b.name # None => b.name \in Text
        /\ i.op \in {"AddItem", "UpdateItem"} =>
             /\ b.quantity # None => b.quantity \in 1..MaxInt32
             /\ b.unit # None => b.unit \in Units
        /\ i.op = "AddItem" => b.quantity # None /\ b.unit # None
  BY SpecBounds
<1>. HIDE DEF b
<1>3. x \in Fields /\ Clean(i.op, x)
  <2>1. CASE i.op \notin WithBody
    <3>1. x = NoFields
      BY <1>1, <2>1, GivesSays
    <3>2. x.name = None /\ x.quantity = None /\ x.unit = None /\ x.note = None
      BY <3>1 DEF NoFields
    <3>3. x \in Fields
      BY <3>1 DEF NoFields, Fields
    <3>. QED  BY <2>1, <3>2, <3>3 DEF Clean, HasNote, WithBody
  <2>2. CASE Derived(i.op, b)
    <3>1. PICK t \in UNION {CopyListName([runes |-> n, blanks |-> 0]) : n \in 1..MaxName} :
            x = [NoFields EXCEPT !.name = t]
      BY <1>1, <2>2, GivesSays
    <3>2. t \in Text /\ ValidName(t) /\ t.blanks = 0
      BY CopyNamesFit
    <3>3. i.op \in Named
      BY <2>2 DEF Derived, Named
    <3>. QED  BY <3>1, <3>2, <3>3, NamedIsClean
  <2>3. CASE i.op \in Named /\ ~Derived(i.op, b)
    <3>1. x = [NoFields EXCEPT !.name = Trimmed(b.name)]
      BY <1>1, <2>3, GivesSays
    <3>2. b.name # None
      <4>1. CASE i.op = "CopyList"
        BY <2>3, <4>1 DEF Derived
      <4>2. CASE i.op \in {"CreateList", "RenameList"}
        <5>1. ValidName(AsString(b.name))
          BY <1>1, <4>2, AcceptsSays
        <5>. QED  BY <5>1, BoundsAreNumbers DEF ValidName, AsString
      <4>. QED  BY <4>1, <4>2, <2>3 DEF Named
    <3>3. b.name \in Text /\ ValidName(b.name)
      <4>1. ValidName(b.name)
        <5>1. i.op \in {"CreateList", "RenameList"} => ValidName(AsString(b.name))
          BY <1>1, AcceptsSays
        <5>2. AsString(b.name) = b.name
          BY <3>2 DEF AsString
        <5>3. i.op = "CopyList" => ValidName(b.name)
          BY <1>1, <2>3, AcceptsSays DEF Derived
        <5>. QED  BY <5>1, <5>2, <5>3, <2>3 DEF Named
      <4>. QED  BY <1>2, <2>3, <3>2, <4>1 DEF WithBody
    <3>. QED  BY <2>3, <3>1, <3>3, NamesAreClean, NamedIsClean
  <2>4. CASE i.op = "AddItem"
    <3>1. x = AddItemGives(b) /\ AddItemAccepts(b) /\ b.quantity # None /\ b.unit # None
      BY <1>1, <1>2, <2>4, GivesSays, AcceptsSays DEF WithBody
    <3>2. b.name # None /\ b.name \in Text /\ ValidName(b.name)
      <4>1. ValidName(AsString(b.name))
        BY <3>1 DEF AddItemAccepts
      <4>2. b.name # None
        BY <4>1, BoundsAreNumbers DEF ValidName, AsString
      <4>. QED  BY <1>1, <4>1, <4>2 DEF AsString, Fields
    <3>3. b.note \in Text \cup {None, Null} /\ ValidNote(b.note)
      BY <1>1, <3>1 DEF AddItemAccepts, Fields
    <3>4. NormalQuantity(b.quantity) \in 1..MaxInt32 /\ CleanUnit(b.unit) \in Units
      <4>1. b.quantity \in 1..MaxInt32 /\ b.unit \in Units
        BY <1>2, <2>4, <3>1 DEF WithBody
      <4>2. NormalQuantity(b.quantity) = b.quantity
        BY <4>1, BoundsAreNumbers DEF NormalQuantity
      <4>. QED  BY <4>1, <4>2 DEF CleanUnit, Units
    <3>5. x = [name |-> Trimmed(b.name), quantity |-> NormalQuantity(b.quantity),
               unit |-> CleanUnit(b.unit),
               note |-> IF HasNote(b.note) THEN Trimmed(b.note) ELSE None]
      BY <3>1 DEF AddItemGives
    <3>6. /\ x.name = Trimmed(b.name) /\ x.quantity = NormalQuantity(b.quantity)
          /\ x.unit = CleanUnit(b.unit)
          /\ x.note = IF HasNote(b.note) THEN Trimmed(b.note) ELSE None
      BY <3>5
    <3>7. /\ x.note \in Text \cup {None}
          /\ HasNote(x.note) => x.note.runes <= MaxNote /\ x.note.blanks = 0
      BY <3>3, <3>6, NotesAreClean DEF HasNote
    <3>8. x \in Fields
      <4>1. x.name \in Text /\ x.quantity \in Int /\ x.unit \in Tokens
        BY <3>2, <3>4, <3>6, NamesAreClean, AmountIsToken, BoundsAreNumbers
      <4>. QED  BY <3>5, <3>6, <3>7, <4>1 DEF Fields
    <3>9. x.quantity # None /\ x.unit # None
      BY <3>4, <3>6, NoneIsNoValue, AmountIsToken, BoundsAreNumbers
    <3>10. Clean(i.op, x)
      BY <3>2, <3>4, <3>6, <3>7, <3>9, NamesAreClean DEF Clean
    <3>. QED  BY <3>8, <3>10
  <2>5. CASE i.op = "UpdateItem"
    <3>1. x = UpdateItemGives(b) /\ UpdateItemAccepts(b)
      BY <1>1, <2>5, GivesSays, AcceptsSays
    <3>2. /\ b.name # None => b.name \in Text /\ ValidName(b.name)
          /\ b.quantity # None => b.quantity \in 1..MaxInt32
          /\ b.unit # None => CleanUnit(b.unit) \in Units
      BY <1>2, <2>5, <3>1 DEF UpdateItemAccepts, CleanUnit, Units, WithBody
    <3>3. b.note \in Text \cup {None, Null} /\ ValidNote(b.note)
      BY <1>1, <3>1 DEF UpdateItemAccepts, Fields
    <3>4. x = [name |-> IF b.name = None THEN None ELSE Trimmed(b.name),
               quantity |-> b.quantity,
               unit |-> IF b.unit = None THEN None ELSE CleanUnit(b.unit),
               note |-> IF b.note = None THEN None ELSE CleanNote(b.note)]
      BY <3>1 DEF UpdateItemGives
    <3>5. /\ x.name = IF b.name = None THEN None ELSE Trimmed(b.name)
          /\ x.quantity = b.quantity
          /\ x.unit = IF b.unit = None THEN None ELSE CleanUnit(b.unit)
          /\ x.note = IF b.note = None THEN None ELSE CleanNote(b.note)
      BY <3>4
    <3>6. /\ x.note \in Text \cup {None, Null}
          /\ HasNote(x.note) => x.note.runes <= MaxNote /\ x.note.blanks = 0
      BY <3>3, <3>5, NotesAreClean DEF HasNote
    <3>7. x \in Fields
      <4>1. x.name \in Text \cup {None} /\ x.quantity \in Int \cup {None} /\ x.unit \in Tokens \cup {None}
        BY <1>1, <3>2, <3>5, NamesAreClean, AmountIsToken DEF Fields
      <4>. QED  BY <3>4, <3>5, <3>6, <4>1 DEF Fields
    <3>8. x.name # None => ValidName(x.name) /\ x.name.blanks = 0 /\ x.name.runes <= MaxName
      BY <3>2, <3>5, NamesAreClean
    <3>9. (x.quantity # None => x.quantity \in 1..MaxInt32) /\ (x.unit # None => x.unit \in Units)
      BY <3>2, <3>5
    <3>10. Clean(i.op, x)
      BY <2>5, <3>6, <3>8, <3>9 DEF Clean, Named
    <3>. QED  BY <3>7, <3>10
  <2>. QED  BY <2>1, <2>2, <2>3, <2>4, <2>5 DEF WithBody
<1>. QED  BY <1>3, NoneIsNoValue

-----------------------------------------------------------------------------
(* ApiRequest: one lemma for each action of a request.                     *)

\* The invariant, of one request.
LEMMA OneRequest ==
  ASSUME ApiInv, NEW r \in Requests
  PROVE  request[r] \in Request /\ Sound(request[r])
BY DEF ApiInv, ApiTypes

\* An answer before the repository was asked keeps the invariant.
LEMMA AnswerGoesOn ==
  ASSUME ApiInv, NEW r \in Requests, Waits(request[r]), NEW status \in Nat,
         status \in 200..299 => Op(r) \notin Mutations, Answer(r, status)
  PROVE  GoesOn(r)
<1>. DEFINE place == IF Inside(r) THEN "leave" ELSE "done"
<1>1. MayAnswer(request[r], status, place)
  BY InsideIsCounted DEF MayAnswer, Op
<1>2. Answered(r, status) = Given(request[r], status, place)
  BY DEF Answered, Given
<1>. HIDE DEF place
<1>3. Follows(request[r], Given(request[r], status, place))
  BY <1>1, OneRequest, AnswerIsSound
<1>. QED  BY <1>2, <1>3 DEF GoesOn, Answer

\* A step towards the handler keeps it.
LEMMA MoveGoesOn ==
  ASSUME ApiInv, NEW r \in Requests, Waits(request[r]), NEW place, NEW body, NEW user,
         MayMove(request[r], place, body, user), Stays(request[r], place),
         request' = [request EXCEPT ![r] = Moved(request[r], place, body, user)]
  PROVE  GoesOn(r)
<1>. DEFINE a == Moved(request[r], place, body, user)
<1>1. a \in Request /\ Sound(a)
  BY OneRequest, MoveIsSound
<1>2. a.at = place /\ a.in = request[r].in /\ place \notin {"panicking"}
  BY OneRequest DEF Moved, Request, MayMove, Unserved
<1>3. Counted(a) <=> Counted(request[r])
  BY <1>2 DEF Counted, Stays, Waits, Unserved
<1>. QED  BY <1>1, <1>3 DEF GoesOn, Follows

\* MovesTo keeps the body and the user.
LEMMA PlaceGoesOn ==
  ASSUME ApiInv, NEW r \in Requests, Waits(request[r]), NEW place,
         MayMove(request[r], place, request[r].body, request[r].user), Stays(request[r], place),
         MovesTo(r, place)
  PROVE  GoesOn(r)
<1>1. Moved(request[r], place, request[r].body, request[r].user) = [request[r] EXCEPT !.at = place]
  BY OneRequest DEF Moved, Request
<1>2. request' = [request EXCEPT ![r] = Moved(request[r], place, request[r].body, request[r].user)]
  BY <1>1 DEF MovesTo
<1>. QED  BY <1>2, MoveGoesOn

\* A request nobody has sent yet.
LEMMA IdleIsRequest == Idle \in Request
<1>1. NoFields \in Fields
  BY DEF NoFields, Fields
<1>2. NoInput \in Input
  BY <1>1 DEF NoInput, Input, Elsewhere
<1>3. <<>> \in Seq(Nat) /\ "idle" \in Places
  BY DEF Places
<1>. QED  BY <1>1, <1>2, <1>3 DEF Idle, Request

\* net/http hands over a request.
LEMMA ArriveKeeps ==
  ASSUME ApiInv, NEW r \in Requests, Arrive(r)
  PROVE  ApiInv'
<1>1. PICK i \in Inputs :
        request' = [request EXCEPT ![r] = [Idle EXCEPT !.at = "session", !.in = i, !.body = i.body]]
  BY DEF Arrive
<1>. DEFINE a == [Idle EXCEPT !.at = "session", !.in = i, !.body = i.body]
<1>2. /\ i.op \in Operations \cup Elsewhere /\ i.form \in {"none", "broken", "object"}
      /\ i.form = "object" \/ i.body = NoFields
      /\ i.body \in Fields /\ i \in Input
  <2>1. NoFields \in Fields
    BY DEF NoFields, Fields
  <2>2. Asked \subseteq Operations \cup Elsewhere /\ Bodies \subseteq Fields
    BY ApiRequestAssumption DEF ApiRequestAssumption
  <2>. QED  BY <2>1, <2>2 DEF Inputs, Input
<1>3. /\ a.at = "session" /\ a.in = i /\ a.body = i.body /\ a.user = "nobody"
      /\ a.given = None /\ ~a.published /\ ~a.wrote /\ a.answers = <<>>
  BY DEF Idle
<1>4. a \in Request
  <2>1. "session" \in Places
    BY DEF Places
  <2>. QED  BY <1>2, <2>1, IdleIsRequest DEF Request
<1>. HIDE DEF a
<1>5. OnItsRoute(a)
  BY <1>2, <1>3 DEF OnItsRoute, Unserved, Observed
<1>6. IsChecked(a) /\ IsMembers(a) /\ Fitting(a)
  BY <1>3 DEF IsChecked, BehindCap, BehindSpec, BeforeSpec, IsMembers, Fitting
<1>7. AnsweredOnce(a) /\ Tells(a)
  BY <1>3 DEF AnsweredOnce, Tells
<1>8. ~Counted(a) /\ ~Counted(request[r])
  BY <1>3 DEF Counted, Observed, Arrive
<1>9. GoesOn(r)
  BY <1>1, <1>4, <1>5, <1>6, <1>7, <1>8 DEF GoesOn, Follows, Sound, a
<1>. QED  BY <1>9, GoingOnKeeps DEF Arrive

\* The session middleware.
LEMMA LoadAndSaveKeeps ==
  ASSUME ApiInv, NEW r \in Requests, LoadAndSave(r)
  PROVE  ApiInv'
<1>1. request[r].at = "session" /\ Waits(request[r])
  BY DEF LoadAndSave, Waits, Unserved
<1>2. ASSUME Answer(r, 500) PROVE GoesOn(r)
  BY <1>1, <1>2, AnswerGoesOn
<1>3. ASSUME MovesTo(r, "cap") PROVE GoesOn(r)
  <2>1. MayMove(request[r], "cap", request[r].body, request[r].user) /\ Stays(request[r], "cap")
    BY <1>1, OneRequest, RequestFields
    DEF MayMove, Stays, Sound, IsChecked, Unserved, Observed, BehindCap, BehindSpec, BeforeSpec
  <2>. QED  BY <1>1, <1>3, <2>1, PlaceGoesOn
<1>. QED  BY <1>2, <1>3, GoingOnKeeps DEF LoadAndSave

\* The cap on bodies of a declared length.
LEMMA MaxBodyKeeps ==
  ASSUME ApiInv, NEW r \in Requests, MaxBody(r)
  PROVE  ApiInv'
<1>1. request[r].at = "cap" /\ Waits(request[r])
  BY DEF MaxBody, Waits, Unserved
<1>2. ASSUME Answer(r, 413) PROVE GoesOn(r)
  BY <1>1, <1>2, AnswerGoesOn
<1>3. ASSUME MovesTo(r, "route"), request[r].in.size # "declared" PROVE GoesOn(r)
  <2>1. /\ MayMove(request[r], "route", request[r].body, request[r].user)
      /\ Stays(request[r], "route")
    BY <1>1, <1>3, OneRequest, RequestFields
    DEF MayMove, Stays, Sound, IsChecked, Unserved, Observed, BehindCap, BehindSpec, BeforeSpec
  <2>. QED  BY <1>1, <1>3, <2>1, PlaceGoesOn
<1>. QED  BY <1>2, <1>3, GoingOnKeeps DEF MaxBody

\* The router. The guard of the stream comes without the validator: no handler reads
\* the body of a request for it.
LEMMA RouteKeeps ==
  ASSUME ApiInv, NEW r \in Requests, Route(r)
  PROVE  ApiInv'
<1>1. request[r].at = "route" /\ Waits(request[r]) /\ request[r].in.size # "declared"
  BY OneRequest DEF Route, Waits, Unserved, Sound, IsChecked, BehindCap
<1>2. ASSUME NEW status \in {404, 405}, Answer(r, status) PROVE GoesOn(r)
  BY <1>1, <1>2, AnswerGoesOn
<1>3. ASSUME MovesTo(r, "guard"), Op(r) = "streamEvents" PROVE GoesOn(r)
  <2>1. Op(r) \notin WithBody /\ Op(r) \notin Operations
    BY <1>3 DEF Operations, Mutations, WithBody, Named, Reads, ItemSteps
  <2>2. PassesSpec(request[r].in)
    BY <2>1 DEF PassesSpec, Passes_Unread, Op
  <2>3. request[r].body = BodyOf(request[r].in)
    BY <1>1, <2>1, OneRequest DEF Sound, IsChecked, BodyOf, Op, BeforeSpec, BehindSpec, Unserved
  <2>4. /\ MayMove(request[r], "guard", request[r].body, request[r].user)
      /\ Stays(request[r], "guard")
    BY <1>1, <1>3, <2>1, <2>2, <2>3, OneRequest, RequestFields
    DEF MayMove, Stays, Unserved, Observed, BeforeSpec, BehindSpec, Op
  <2>. QED  BY <1>1, <1>3, <2>4, PlaceGoesOn
<1>4. ASSUME MovesTo(r, "bind"), Op(r) \in Operations PROVE GoesOn(r)
  <2>1. /\ MayMove(request[r], "bind", request[r].body, request[r].user)
      /\ Stays(request[r], "bind")
    BY <1>1, <1>4, OneRequest, RequestFields
    DEF Op, MayMove, Stays, Sound, IsChecked, Unserved, Observed, BehindCap, BehindSpec, BeforeSpec
  <2>. QED  BY <1>1, <1>4, <2>1, PlaceGoesOn
<1>5. Op(r) \in Operations \cup Elsewhere
  BY OneRequest, RequestFields DEF Input, Op
<1>6. GoesOn(r) /\ UNCHANGED rest
  <2>1. CASE Op(r) = "unknown path"
    BY <1>2, <2>1 DEF Route
  <2>2. CASE Op(r) = "wrong method"
    BY <1>2, <2>2 DEF Route
  <2>3. CASE Op(r) = "streamEvents"
    BY <1>3, <2>3 DEF Route
  <2>4. CASE Op(r) \notin {"unknown path", "wrong method", "streamEvents"}
    <3>1. Op(r) \in Operations
      BY <1>5, <2>4 DEF Elsewhere
    <3>. QED  BY <1>4, <2>4, <3>1 DEF Route
  <2>. QED  BY <2>1, <2>2, <2>3, <2>4
<1>. QED  BY <1>6, GoingOnKeeps

\* The generated wrapper binds the path parameters.
LEMMA BindKeeps ==
  ASSUME ApiInv, NEW r \in Requests, Bind(r)
  PROVE  ApiInv'
<1>1. request[r].at = "bind" /\ Waits(request[r])
  BY DEF Bind, Waits, Unserved
<1>2. ASSUME Answer(r, 400) PROVE GoesOn(r)
  BY <1>1, <1>2, AnswerGoesOn
<1>3. ASSUME MovesTo(r, "observe") PROVE GoesOn(r)
  <2>1. /\ MayMove(request[r], "observe", request[r].body, request[r].user)
        /\ Stays(request[r], "observe")
    BY <1>1, OneRequest, RequestFields DEF MayMove, Stays, Sound, OnItsRoute, IsChecked,
      Unserved, Observed, BehindCap, BehindSpec, BeforeSpec
  <2>. QED  BY <1>1, <1>3, <2>1, PlaceGoesOn
<1>. QED  BY <1>2, <1>3, GoingOnKeeps DEF Bind

\* The gauge is raised with the request it counts.
LEMMA EnterMetricsKeeps ==
  ASSUME ApiInv, NEW r \in Requests, EnterMetrics(r)
  PROVE  ApiInv'
<1>1. request[r].at = "observe" /\ Waits(request[r])
  BY DEF EnterMetrics, Waits, Unserved
<1>. DEFINE a == Moved(request[r], "validate", request[r].body, request[r].user)
<1>2. MayMove(request[r], "validate", request[r].body, request[r].user)
  BY <1>1, OneRequest, RequestFields DEF MayMove, Sound, OnItsRoute, IsChecked,
    Unserved, Observed, BehindCap, BehindSpec, BeforeSpec
<1>3. a \in Request /\ Sound(a)
  BY <1>1, <1>2, OneRequest, MoveIsSound
<1>4. a = [request[r] EXCEPT !.at = "validate"]
  BY OneRequest DEF Moved, Request
<1>5. Counted(a) /\ ~Counted(request[r])
  BY <1>1, <1>4, OneRequest DEF Counted, Observed, Sound, OnItsRoute, Request
<1>6. request' = [request EXCEPT ![r] = a] /\ inFlight' = inFlight + 1
  BY <1>4 DEF EnterMetrics, MovesTo
<1>. HIDE DEF a
<1>. QED  BY <1>3, <1>5, <1>6, OneChangeKeeps DEF EnterMetrics

\* Behind the validator the body is what the document allows, with its defaults.
LEMMA ValidateKeeps ==
  ASSUME ApiInv, NEW r \in Requests, Validate(r)
  PROVE  ApiInv'
<1>1. request[r].at = "validate" /\ Waits(request[r])
  BY DEF Validate, Waits, Unserved
<1>2. ASSUME Answer(r, 400) PROVE GoesOn(r)
  BY <1>1, <1>2, AnswerGoesOn
<1>3. ASSUME PassesSpec(request[r].in),
             request' = [request EXCEPT ![r].at = "guard",
                           ![r].body = IF request[r].in.form = "object"
                                       THEN WithDefaults(Op(r), @) ELSE @]
      PROVE  GoesOn(r)
  <2>. DEFINE i == request[r].in
              q == request[r]
  <2>0. q \in Request /\ i \in Input /\ q.user \in {"nobody", "member", "devUser"}
    BY OneRequest, RequestFields
  <2>1. q.body = i.body /\ i.op \in Operations /\ i.size # "declared"
    BY <1>1, OneRequest
    DEF Sound, IsChecked, OnItsRoute, Observed, BeforeSpec, BehindSpec, BehindCap, Unserved
  <2>2. BodyOf(i) = IF i.form = "object" THEN WithDefaults(Op(r), q.body) ELSE q.body
    BY <2>1 DEF BodyOf, Op
  <2>3. BodyOf(i) \in Fields
    BY <2>0, BodiesAreFields
  <2>4. MayMove(q, "guard", BodyOf(i), q.user) /\ Stays(q, "guard")
    BY <1>1, <1>3, <2>0, <2>1, <2>3 DEF MayMove, Stays, Unserved, Observed, BeforeSpec, BehindSpec
  <2>5. Moved(q, "guard", BodyOf(i), q.user) = [q EXCEPT !.at = "guard", !.body = BodyOf(i)]
    BY <2>0 DEF Moved, Request
  <2>6. request' = [request EXCEPT ![r] = [q EXCEPT !.at = "guard", !.body = BodyOf(i)]]
    <3>1. request \in [Requests -> Request]
      BY DEF ApiInv, ApiTypes
    <3>2. request' = [request EXCEPT ![r].at = "guard", ![r].body = BodyOf(i)]
      BY <1>3, <2>2, <3>1 DEF Request
    <3>. QED  BY <3>1, <3>2
  <2>. QED  BY <1>1, <2>4, <2>5, <2>6, MoveGoesOn
<1>. QED  BY <1>2, <1>3, GoingOnKeeps DEF Validate

\* Behind the guard there is a member, or GetHealth.
LEMMA RequireAuthKeeps ==
  ASSUME ApiInv, NEW r \in Requests, RequireAuth(r)
  PROVE  ApiInv'
<1>. DEFINE q == request[r]
<1>0. q \in Request /\ q.at = "guard" /\ Waits(q)
  BY OneRequest DEF RequireAuth, Waits, Unserved
<1>1. /\ q.in.op \in Operations \cup {"streamEvents"} /\ q.in.size # "declared"
      /\ PassesSpec(q.in) /\ q.body = BodyOf(q.in)
      /\ q.body \in Fields /\ q.user \in {"nobody", "member", "devUser"}
  BY <1>0, OneRequest, RequestFields DEF Sound, OnItsRoute, IsChecked, BehindSpec, BehindCap
<1>. DEFINE place == IF Op(r) = "streamEvents" THEN "stream" ELSE "handle"
<1>2. place \in {"handle", "stream"} /\ (place = "stream" <=> q.in.op = "streamEvents")
      /\ (place = "handle" => q.in.op \in Operations)
  BY <1>1 DEF Op, Operations, Reads, Mutations, WithBody, Named, ItemSteps
<1>3. ASSUME NEW user \in {"nobody", "member", "devUser"},
             \/ Op(r) = "GetHealth"
             \/ (setup.dev \/ q.in.cookie = "live") /\ user = IF setup.dev THEN "devUser" ELSE "member",
             request' = [request EXCEPT ![r] = [q EXCEPT !.user = user, !.at = place]]
      PROVE  GoesOn(r)
  <2>. HIDE DEF place, q
  <2>a. /\ q.in.op # "GetHealth" =>
             (setup.dev \/ q.in.cookie = "live") /\ user = IF setup.dev THEN "devUser" ELSE "member"
    BY <1>3 DEF Op, q
  <2>b. Stays(q, place)
    BY <1>0, <1>1, <1>2 DEF Stays, Observed, Operations, Reads, Mutations, WithBody, Named, ItemSteps
  <2>1. MayMove(q, place, q.body, user) /\ Stays(q, place)
    BY <1>0, <1>1, <1>2, <2>a, <2>b DEF MayMove, Unserved, Observed, BeforeSpec, BehindSpec
  <2>2. Moved(q, place, q.body, user) = [q EXCEPT !.user = user, !.at = place]
    BY <1>0 DEF Moved, Request
  <2>. QED  BY <1>0, <1>3, <2>1, <2>2, MoveGoesOn DEF q
<1>4. ASSUME Answer(r, 401) PROVE GoesOn(r)
  BY <1>0, <1>4, AnswerGoesOn
<1>5. request \in [Requests -> Request]
  BY DEF ApiInv, ApiTypes
<1>6. CASE Public(r)
  <2>1. place = "handle" /\ MovesTo(r, "handle")
    BY <1>6 DEF RequireAuth, Public
  <2>2. request' = [request EXCEPT ![r] = [q EXCEPT !.user = q.user, !.at = place]]
    BY <1>0, <1>5, <2>1 DEF MovesTo, Request
  <2>. QED  BY <1>1, <1>3, <1>6, <2>2, GoingOnKeeps DEF Public, RequireAuth
<1>7. CASE ~Public(r) /\ setup.dev
  <2>1. request' = [request EXCEPT ![r].user = "devUser", ![r].at = place]
    BY <1>7 DEF RequireAuth
  <2>2. request' = [request EXCEPT ![r] = [q EXCEPT !.user = "devUser", !.at = place]]
    BY <1>0, <1>5, <2>1 DEF Request
  <2>. QED  BY <1>3, <1>7, <2>2, GoingOnKeeps DEF RequireAuth
<1>8. CASE ~Public(r) /\ ~setup.dev /\ request[r].in.cookie = "live"
  <2>1. request' = [request EXCEPT ![r].user = "member", ![r].at = place]
    BY <1>8 DEF RequireAuth
  <2>2. request' = [request EXCEPT ![r] = [q EXCEPT !.user = "member", !.at = place]]
    BY <1>0, <1>5, <2>1 DEF Request
  <2>. QED  BY <1>3, <1>8, <2>2, GoingOnKeeps DEF RequireAuth
<1>9. CASE ~Public(r) /\ ~setup.dev /\ request[r].in.cookie # "live"
  <2>1. Answer(r, 401)
    BY <1>9 DEF RequireAuth
  <2>. QED  BY <1>4, <2>1, GoingOnKeeps DEF RequireAuth
<1>. QED  BY <1>6, <1>7, <1>8, <1>9

\* What is known of a request at its handler.
LEMMA HandlerFinds ==
  ASSUME ApiInv, NEW r \in Requests, request[r].at \in {"handle", "source", "serve"}
  PROVE  /\ request[r] \in Request /\ Sound(request[r]) /\ Waits(request[r])
         /\ request[r].in \in Input /\ Op(r) \in Operations
         /\ request[r].in.form # "object" => request[r].in.body = NoFields
         /\ request[r].in.size # "declared" /\ PassesSpec(request[r].in)
         /\ request[r].body = BodyOf(request[r].in) /\ request[r].body \in Fields
         /\ request[r].user \in {"nobody", "member", "devUser"}
         /\ Op(r) # "GetHealth" =>
              /\ setup.dev \/ request[r].in.cookie = "live"
              /\ request[r].user = IF setup.dev THEN "devUser" ELSE "member"
<1>1. request[r] \in Request /\ Sound(request[r])
  BY OneRequest
<1>2. Waits(request[r])
  BY DEF Waits, Unserved
<1>3. /\ request[r].in \in Input /\ request[r].body \in Fields
      /\ request[r].user \in {"nobody", "member", "devUser"}
  BY <1>1, RequestFields
<1>4. /\ Op(r) \in Operations
      /\ request[r].in.form # "object" => request[r].in.body = NoFields
  BY <1>1 DEF Sound, OnItsRoute, Observed, Op
<1>5. /\ request[r].in.size # "declared" /\ PassesSpec(request[r].in)
      /\ request[r].body = BodyOf(request[r].in)
  BY <1>1 DEF Sound, IsChecked, BehindCap, BehindSpec
<1>6. Op(r) # "GetHealth" =>
        /\ setup.dev \/ request[r].in.cookie = "live"
        /\ request[r].user = IF setup.dev THEN "devUser" ELSE "member"
  BY <1>1 DEF Sound, IsMembers, Op
<1>. QED  BY <1>1, <1>2, <1>3, <1>4, <1>5, <1>6

\* From the handler to the source, and to the repository with a body that suits.
LEMMA HandlerMoves ==
  ASSUME ApiInv, NEW r \in Requests, request[r].at \in {"handle", "source"},
         NEW place \in {"source", "serve"}, place = "serve" => Suits(r),
         MovesTo(r, place)
  PROVE  GoesOn(r)
<1>1. /\ MayMove(request[r], place, request[r].body, request[r].user)
      /\ Stays(request[r], place)
  BY HandlerFinds DEF MayMove, Stays, Unserved, Observed, BeforeSpec, BehindSpec, Op, Suits
<1>. QED  BY <1>1, HandlerFinds, PlaceGoesOn

\* The handler answers, or goes on with a body that suits the service.
LEMMA HandleKeeps ==
  ASSUME ApiInv, NEW r \in Requests, Handle(r)
  PROVE  ApiInv'
<1>1. request[r].at = "handle" /\ Waits(request[r])
  BY DEF Handle, Waits, Unserved
<1>2. ASSUME NEW status \in {400, 500}, Answer(r, status) PROVE GoesOn(r)
  BY <1>1, <1>2, AnswerGoesOn
<1>3. ASSUME Answer(r, 200), Op(r) \in Reads PROVE GoesOn(r)
  <2>1. Op(r) \notin Mutations
    BY <1>3 DEF Reads, Mutations, WithBody, Named, ItemSteps
  <2>. QED  BY <1>1, <1>3, <2>1, AnswerGoesOn
<1>4. ASSUME MovesTo(r, "source") PROVE GoesOn(r)
  BY <1>1, <1>4, HandlerMoves
<1>5. ASSUME MovesTo(r, "serve"), Suits(r) PROVE GoesOn(r)
  BY <1>1, <1>5, HandlerMoves
<1>6. GoesOn(r)
  <2>1. CASE Op(r) \in {"GetHealth", "GetMe"}
    BY <2>1, <1>2, <1>3 DEF Handle, Broken, WithBody, Named, Attributed, Reads
  <2>2. CASE Op(r) \notin {"GetHealth", "GetMe"} /\ Broken(r)
    BY <2>2, <1>2 DEF Handle
  <2>3. CASE Op(r) \notin {"GetHealth", "GetMe"} /\ ~Broken(r)
    <3>1. CASE Op(r) \in Attributed /\ ~Known(r)
      BY <2>3, <3>1, <1>2 DEF Handle
    <3>2. CASE ~(Op(r) \in Attributed /\ ~Known(r))
      BY <2>3, <3>2, <1>2, <1>4, <1>5 DEF Handle
    <3>. QED  BY <3>1, <3>2
  <2>. QED  BY <2>1, <2>2, <2>3
<1>. QED  BY <1>6, GoingOnKeeps DEF Handle

\* CopyList reads its source.
LEMMA ReadSourceKeeps ==
  ASSUME ApiInv, NEW r \in Requests, ReadSource(r)
  PROVE  ApiInv'
<1>1. request[r].at = "source" /\ Waits(request[r])
  BY DEF ReadSource, Waits, Unserved
<1>2. ASSUME NEW status \in {400, 404, 500}, Answer(r, status) PROVE GoesOn(r)
  BY <1>1, <1>2, AnswerGoesOn
<1>3. ASSUME MovesTo(r, "serve"), Suits(r) PROVE GoesOn(r)
  BY <1>1, <1>3, HandlerMoves
<1>. QED  BY <1>2, <1>3, GoingOnKeeps DEF ReadSource

\* The service gives the repository what is clean, and a body that was read.
LEMMA GivenForIsClean ==
  ASSUME ApiInv, NEW r \in Requests, request[r].at = "serve", NEW x \in GivenFor(r)
  PROVE  /\ x \in Fields \cup {None}
         /\ Op(r) \in Mutations <=> x # None
         /\ x # None => /\ Clean(Op(r), x)
                        /\ Op(r) \in WithBody => request[r].in.size = "fits"
<1>1. Accepts(Op(r), BodyOf(request[r].in))
  BY OneRequest, HandlerFinds DEF Sound, IsChecked, Op
<1>2. ASSUME Op(r) \in Mutations PROVE x \in Fields /\ x # None /\ Clean(Op(r), x)
  <2>1. x \in Gives(request[r].in.op, BodyOf(request[r].in))
    BY <1>2, HandlerFinds DEF GivenFor, Op
  <2>. QED  BY <1>1, <1>2, <2>1, HandlerFinds, GivesAreClean DEF Op
<1>3. ASSUME Op(r) \in WithBody PROVE request[r].in.size = "fits"
  BY <1>3, HandlerFinds DEF PassesSpec, Input, Op
<1>4. Op(r) \notin Mutations => x = None
  BY DEF GivenFor
<1>. QED  BY <1>2, <1>3, <1>4

\* A 404 or a 500 tells the client nothing about the store.
LEMMA ErrorsTellNothing ==
  ASSUME NEW q, \A n \in 1..Len(q.answers) : q.answers[n] \in {404, 500}
  PROVE  Tells(q)
<1>1. ASSUME NEW n \in 1..Len(q.answers)
      PROVE  q.answers[n] \notin {400, 401, 405, 413} /\ q.answers[n] \notin 200..299
  <2>1. q.answers[n] \in {404, 500}
    OBVIOUS
  <2>2. CASE q.answers[n] = 404
    BY <2>2
  <2>3. CASE q.answers[n] = 500
    BY <2>3
  <2>. QED  BY <2>1, <2>2, <2>3
<1>. QED  BY <1>1 DEF Tells

\* An internal error is neither a refusal nor a success.
LEMMA ServerError ==
  ASSUME NEW c, c = 500
  PROVE  c \notin {400, 401, 405, 413} /\ c \notin 200..299
OBVIOUS

\* The same of answers that have a name of their own.
LEMMA TheyTellNothing ==
  ASSUME NEW q, NEW s, q.answers = s, \A n \in 1..Len(s) : s[n] \in {404, 500}
  PROVE  Tells(q)
<1>1. \A n \in 1..Len(q.answers) : q.answers[n] \in {404, 500}
  OBVIOUS
<1>. QED  BY <1>1, ErrorsTellNothing

\* What may follow at the repository: its panic, the hint, or an error.
MayFollow(r, place, wrote, answers) ==
  \/ place = "panicking" /\ answers = <<>> /\ ~wrote
  \/ place = "publish" /\ answers = <<>> /\ ~wrote /\ Op(r) \in Mutations
  \/ place = "leave" /\ (answers = <<404>> \/ answers = <<500>>) /\ wrote

\* Each of them keeps the invariant.
LEMMA ServedIsSound ==
  ASSUME ApiInv, NEW r \in Requests, request[r].at = "serve", NEW x \in GivenFor(r),
         NEW place, NEW wrote \in BOOLEAN, NEW answers, MayFollow(r, place, wrote, answers),
         request' = [request EXCEPT ![r] = [@ EXCEPT !.given = x, !.at = place,
                                              !.answers = answers, !.wrote = wrote]]
  PROVE  GoesOn(r)
<1>. DEFINE q == request[r]
            a == [q EXCEPT !.given = x, !.at = place, !.answers = answers, !.wrote = wrote]
<1>1. q \in Request /\ Sound(q) /\ Op(r) \in Operations /\ Op(r) = q.in.op
  BY HandlerFinds DEF Op
<1>2. /\ x \in Fields \cup {None} /\ (Op(r) \in Mutations <=> x # None)
      /\ x # None => Clean(Op(r), x) /\ (Op(r) \in WithBody => q.in.size = "fits")
  BY GivenForIsClean
<1>3. place \in {"panicking", "publish", "leave"} /\ answers \in Seq(Nat)
  <2>1. <<>> \in Seq(Nat) /\ <<404>> \in Seq(Nat) /\ <<500>> \in Seq(Nat)
    OBVIOUS
  <2>2. answers = <<>> \/ answers = <<404>> \/ answers = <<500>>
    BY DEF MayFollow
  <2>3. answers \in Seq(Nat)
    <3>1. CASE answers = <<>>
      BY <2>1, <3>1
    <3>2. CASE answers = <<404>>
      BY <2>1, <3>2
    <3>3. CASE answers = <<500>>
      BY <2>1, <3>3
    <3>. QED  BY <2>2, <3>1, <3>2, <3>3
  <2>4. place \in {"panicking", "publish", "leave"}
    BY DEF MayFollow
  <2>. QED  BY <2>3, <2>4
<1>4. a \in Request
  <2>1. place \in Places
    BY <1>3 DEF Places, Observed
  <2>. QED  BY <1>1, <1>2, <1>3, <2>1 DEF Request
<1>5. /\ a.at = place /\ a.in = q.in /\ a.body = q.body /\ a.user = q.user /\ a.given = x
      /\ a.published = q.published /\ a.wrote = wrote /\ a.answers = answers
  BY <1>1 DEF Request
<1>6. ~q.published /\ (q.in.form # "object" => q.in.body = NoFields)
  BY <1>1 DEF Sound, OnItsRoute, Unserved
<1>7. request' = [request EXCEPT ![r] = a]
  OBVIOUS
<1>8. /\ answers # <<>> => place = "leave" /\ wrote
      /\ place = "leave" => answers # <<>>
      /\ place = "publish" => answers = <<>> /\ ~wrote /\ Op(r) \in Mutations
      /\ Len(answers) <= 1 /\ \A n \in 1..Len(answers) : answers[n] \in {404, 500}
  <2>1. Len(<<>>) = 0
    OBVIOUS
  <2>2. ASSUME NEW status \in {404, 500}, answers = <<status>>
        PROVE  answers # <<>> /\ Len(answers) = 1 /\ \A n \in 1..Len(answers) : answers[n] = status
    BY <2>2
  <2>3. CASE answers = <<>>
    BY <2>1, <2>3 DEF MayFollow
  <2>4. CASE answers = <<404>> \/ answers = <<500>>
    <3>1. answers # <<>> /\ Len(answers) = 1 /\ \A n \in 1..Len(answers) : answers[n] \in {404, 500}
      BY <2>2, <2>4
    <3>. QED  BY <3>1 DEF MayFollow
  <2>. QED  BY <2>3, <2>4 DEF MayFollow
<1>. HIDE DEF a
<1>9. OnItsRoute(a)
  BY <1>1, <1>2, <1>3, <1>5, <1>6, <1>8 DEF OnItsRoute, Unserved, Observed
<1>10. IsChecked(a)
  BY <1>1, <1>3, <1>5, HandlerFinds DEF IsChecked, BehindCap, BehindSpec, BeforeSpec, Unserved
<1>11. IsMembers(a)
  BY <1>1, <1>5, HandlerFinds DEF IsMembers
<1>12. AnsweredOnce(a)
  BY <1>3, <1>5, <1>8 DEF AnsweredOnce
<1>13. Tells(a)
  <2>1. a.answers = answers /\ \A n \in 1..Len(answers) : answers[n] \in {404, 500}
    BY <1>5, <1>8
  <2>. QED  BY ONLY <2>1, TheyTellNothing
<1>14. Fitting(a)
  BY <1>1, <1>2, <1>5 DEF Fitting
<1>15. Counted(a) <=> Counted(q)
  BY <1>1, <1>3, <1>5 DEF Counted, Observed
<1>. QED  BY <1>4, <1>7, <1>9, <1>10, <1>11, <1>12, <1>13, <1>14, <1>15 DEF GoesOn, Follows, Sound, q

\* The statements take effect or fail; what they were given is clean.
LEMMA CallRepositoryKeeps ==
  ASSUME ApiInv, NEW r \in Requests, CallRepository(r)
  PROVE  ApiInv'
<1>. DEFINE q == request[r]
<1>1. PICK x \in GivenFor(r) :
        \/ request' = [request EXCEPT ![r].given = x, ![r].at = "panicking"]
        \/ /\ Op(r) \in Mutations
           /\ request' = [request EXCEPT ![r].given = x, ![r].at = "publish"]
        \/ Op(r) \notin Mutations /\ Answer(r, 200)
        \/ \E err \in {"ErrNotFound", "error"} :
             request' = [request EXCEPT ![r] = [Answered(r, WriteError(r, err)) EXCEPT !.given = x]]
  BY DEF CallRepository
<1>2. /\ q.at = "serve" /\ Waits(q) /\ q \in Request
      /\ q.answers = <<>> /\ ~q.wrote /\ q.wrote \in BOOLEAN /\ Inside(r)
  BY OneRequest, HandlerFinds, RequestFields
  DEF CallRepository, Waits, Unserved, Sound, OnItsRoute, Inside, Observed
<1>3. request \in [Requests -> Request] /\ UNCHANGED rest
  BY DEF ApiInv, ApiTypes, CallRepository
<1>4. ASSUME request' = [request EXCEPT ![r].given = x, ![r].at = "panicking"]
      PROVE  GoesOn(r)
  <2>1. [q EXCEPT !.given = x, !.at = "panicking"]
          = [q EXCEPT !.given = x, !.at = "panicking", !.answers = <<>>, !.wrote = FALSE]
    BY <1>2 DEF Request
  <2>2. request' = [request EXCEPT ![r] =
          [q EXCEPT !.given = x, !.at = "panicking", !.answers = <<>>, !.wrote = FALSE]]
    BY <1>2, <1>3, <1>4, <2>1
  <2>3. MayFollow(r, "panicking", FALSE, <<>>)
    BY DEF MayFollow
  <2>. QED  BY <1>1, <1>2, <2>2, <2>3, ServedIsSound
<1>5. ASSUME Op(r) \in Mutations,
             request' = [request EXCEPT ![r].given = x, ![r].at = "publish"]
      PROVE  GoesOn(r)
  <2>1. [q EXCEPT !.given = x, !.at = "publish"]
          = [q EXCEPT !.given = x, !.at = "publish", !.answers = <<>>, !.wrote = FALSE]
    BY <1>2 DEF Request
  <2>2. request' = [request EXCEPT ![r] =
          [q EXCEPT !.given = x, !.at = "publish", !.answers = <<>>, !.wrote = FALSE]]
    BY <1>2, <1>3, <1>5, <2>1
  <2>3. MayFollow(r, "publish", FALSE, <<>>)
    BY <1>5 DEF MayFollow
  <2>. QED  BY <1>1, <1>2, <2>2, <2>3, ServedIsSound
<1>6. ASSUME Op(r) \notin Mutations, Answer(r, 200) PROVE GoesOn(r)
  BY <1>2, <1>6, AnswerGoesOn
<1>7. ASSUME NEW err \in {"ErrNotFound", "error"},
             request' = [request EXCEPT ![r] = [Answered(r, WriteError(r, err)) EXCEPT !.given = x]]
      PROVE  GoesOn(r)
  <2>. DEFINE status == WriteError(r, err)
  <2>1. status \in {404, 500}
    BY DEF WriteError
  <2>2. request' = [request EXCEPT ![r] = [Answered(r, status) EXCEPT !.given = x]]
    BY <1>7
  <2>. HIDE DEF status
  <2>3. Append(q.answers, status) = <<status>>
    BY <1>2
  <2>4. Answered(r, status) = [q EXCEPT !.answers = <<status>>, !.wrote = TRUE, !.at = "leave"]
    BY <1>2, <2>3 DEF Answered
  <2>5. [Answered(r, status) EXCEPT !.given = x]
          = [q EXCEPT !.given = x, !.at = "leave", !.answers = <<status>>, !.wrote = TRUE]
    BY <1>2, <2>4 DEF Request
  <2>6. request' = [request EXCEPT ![r] =
          [q EXCEPT !.given = x, !.at = "leave", !.answers = <<status>>, !.wrote = TRUE]]
    BY <2>2, <2>5
  <2>7. MayFollow(r, "leave", TRUE, <<status>>)
    BY <2>1 DEF MayFollow
  <2>. QED  BY <1>1, <1>2, <2>6, <2>7, ServedIsSound
<1>. QED  BY <1>1, <1>3, <1>4, <1>5, <1>6, <1>7, GoingOnKeeps

\* A success is told after the hint.
LEMMA PublishAndReplyKeeps ==
  ASSUME ApiInv, NEW r \in Requests, PublishAndReply(r)
  PROVE  ApiInv'
<1>. DEFINE q == request[r]
            status == Success(Op(r))
            a == [Answered(r, status) EXCEPT !.published = TRUE]
<1>1. q \in Request /\ Sound(q) /\ q.at = "publish" /\ Op(r) = q.in.op
  BY OneRequest DEF PublishAndReply, Op
<1>2. /\ q.answers = <<>> /\ q.given # None /\ Op(r) \in Mutations /\ Op(r) \in Operations
      /\ q.in.form # "object" => q.in.body = NoFields
  BY <1>1 DEF Sound, OnItsRoute, Observed
<1>3. status \in {200, 201, 204} /\ Inside(r)
  BY <1>1, <1>2 DEF Success, Inside, Observed
<1>4. request' = [request EXCEPT ![r] = a]
  BY DEF PublishAndReply
<1>. HIDE DEF status
<1>6. Append(q.answers, status) = <<status>> /\ <<status>> \in Seq(Nat)
  BY <1>2, <1>3
<1>5. a = [q EXCEPT !.answers = <<status>>, !.wrote = TRUE, !.at = "leave", !.published = TRUE]
  BY <1>1, <1>3, <1>6 DEF Answered, Request
<1>. HIDE DEF a
<1>7. a \in Request
  <2>1. "leave" \in Places
    BY DEF Places, Observed
  <2>. QED  BY <1>1, <1>5, <1>6, <2>1 DEF Request
<1>8. /\ a.at = "leave" /\ a.in = q.in /\ a.body = q.body /\ a.user = q.user
      /\ a.given = q.given /\ a.published /\ a.wrote /\ a.answers = <<status>>
  BY <1>1, <1>5, <1>6 DEF Request
<1>9. a.answers # <<>> /\ Len(a.answers) = 1 /\ \A n \in 1..Len(a.answers) : a.answers[n] = status
  BY <1>8
<1>10. OnItsRoute(a) /\ AnsweredOnce(a)
  BY <1>1, <1>2, <1>8, <1>9 DEF OnItsRoute, AnsweredOnce, Unserved, Observed
<1>11. IsChecked(a) /\ IsMembers(a) /\ Fitting(a)
  BY <1>1, <1>2, <1>8
  DEF Sound, IsChecked, IsMembers, Fitting, BehindCap, BehindSpec, BeforeSpec, Unserved
<1>12. Tells(a)
  <2>1. ASSUME NEW n \in 1..Len(a.answers)
        PROVE  a.answers[n] \notin {400, 401, 405, 413} /\ a.given # None /\ a.published
    <3>1. a.answers[n] = status
      BY <1>9
    <3>2. a.answers[n] \notin {400, 401, 405, 413}
      BY <1>3, <3>1
    <3>3. a.given # None /\ a.published
      BY <1>2, <1>8
    <3>. QED  BY <3>2, <3>3
  <2>. QED  BY ONLY <2>1 DEF Tells
<1>13. Counted(a) <=> Counted(q)
  BY <1>1, <1>8 DEF Counted, Observed
<1>14. GoesOn(r)
  BY <1>4, <1>7, <1>10, <1>11, <1>12, <1>13 DEF GoesOn, Follows, Sound
<1>. QED  BY <1>14, GoingOnKeeps DEF PublishAndReply

\* The streams' requests are no operations.
LEMMA StreamsAreElsewhere ==
  ASSUME ApiInv, NEW r \in Requests, request[r].at = "stream"
  PROVE  /\ request[r] \in Request /\ Sound(request[r]) /\ Op(r) = "streamEvents"
         /\ "streamEvents" \notin Operations /\ "streamEvents" \notin Mutations
<1>1. request[r] \in Request /\ Sound(request[r])
  BY OneRequest
<1>2. Op(r) = "streamEvents"
  BY <1>1 DEF Sound, OnItsRoute, Op
<1>. QED  BY <1>1, <1>2 DEF Operations, Mutations, WithBody, Named, Reads, ItemSteps

\* The stream's header.
LEMMA OpenEventsKeeps ==
  ASSUME ApiInv, NEW r \in Requests, OpenEvents(r)
  PROVE  ApiInv'
<1>. DEFINE q == request[r]
            a == [q EXCEPT !.answers = <<200>>]
<1>1. /\ q \in Request /\ Sound(q) /\ q.at = "stream" /\ q.in.op = "streamEvents"
      /\ "streamEvents" \notin Operations /\ "streamEvents" \notin Mutations
  BY StreamsAreElsewhere DEF OpenEvents, Op
<1>2. a \in Request
  <2>1. <<200>> \in Seq(Nat)
    OBVIOUS
  <2>. QED  BY <1>1, <2>1 DEF Request
<1>3. /\ a.at = "stream" /\ a.in = q.in /\ a.body = q.body /\ a.user = q.user
      /\ a.given = q.given /\ a.published = q.published
      /\ a.answers = <<200>>
  BY <1>1 DEF Request
<1>4. request' = [request EXCEPT ![r] = a]
  <2>1. request \in [Requests -> Request]
    BY DEF ApiInv, ApiTypes
  <2>. QED  BY <2>1 DEF OpenEvents
<1>. HIDE DEF a
<1>5. \A n \in 1..Len(a.answers) : a.answers[n] = 200
  BY <1>3
<1>6. OnItsRoute(a) /\ AnsweredOnce(a)
  BY <1>1, <1>3 DEF Sound, OnItsRoute, AnsweredOnce, Unserved, Observed
<1>7. IsChecked(a) /\ IsMembers(a) /\ Fitting(a)
  BY <1>1, <1>3
  DEF Sound, IsChecked, IsMembers, Fitting, BehindCap, BehindSpec, BeforeSpec, Unserved
<1>8. Tells(a)
  <2>1. ASSUME NEW n \in 1..Len(a.answers) PROVE a.answers[n] \notin {400, 401, 405, 413}
    <3>1. a.answers[n] = 200
      BY <1>5
    <3>. QED  BY <3>1
  <2>2. a.in.op \notin Mutations
    BY <1>1, <1>3
  <2>3. ASSUME NEW n \in 1..Len(a.answers)
        PROVE  /\ a.answers[n] \in {400, 401, 405, 413} => a.given = None /\ ~a.published
               /\ a.answers[n] \in 200..299 /\ a.in.op \in Mutations => a.given # None /\ a.published
    <3>1. a.answers[n] \notin {400, 401, 405, 413}
      BY <2>1
    <3>. QED  BY <2>2, <3>1, Zenon
  <2>. QED  BY <2>3, Zenon DEF Tells
<1>9. Counted(a) <=> Counted(q)
  BY <1>1, <1>3 DEF Counted
<1>10. GoesOn(r)
  BY <1>2, <1>4, <1>6, <1>7, <1>8, <1>9 DEF GoesOn, Follows, Sound
<1>. QED  BY <1>10, GoingOnKeeps DEF OpenEvents

\* What the answers tell does not change while nothing is answered or asked.
LEMMA TellsTheSame ==
  ASSUME NEW q, NEW a, Tells(q), a.answers = q.answers, a.in = q.in, a.given = q.given,
         a.published = q.published
  PROVE  Tells(a)
BY DEF Tells

\* The first frame.
LEMMA SendFrameKeeps ==
  ASSUME ApiInv, NEW r \in Requests, SendFrame(r)
  PROVE  ApiInv'
<1>. DEFINE q == request[r]
            a == [q EXCEPT !.wrote = TRUE]
<1>1. /\ q \in Request /\ Sound(q) /\ q.at = "stream" /\ q.in.op = "streamEvents"
      /\ "streamEvents" \notin Operations
  BY StreamsAreElsewhere DEF SendFrame, Op
<1>2. a \in Request
  BY <1>1 DEF Request
<1>3. /\ a.at = "stream" /\ a.in = q.in /\ a.body = q.body /\ a.user = q.user
      /\ a.given = q.given /\ a.published = q.published /\ a.answers = q.answers
  BY <1>1 DEF Request
<1>4. request' = [request EXCEPT ![r] = a]
  <2>1. request \in [Requests -> Request]
    BY DEF ApiInv, ApiTypes
  <2>. QED  BY <2>1 DEF SendFrame
<1>. HIDE DEF a
<1>6. OnItsRoute(a) /\ AnsweredOnce(a)
  BY <1>1, <1>3 DEF Sound, OnItsRoute, AnsweredOnce, Unserved, Observed
<1>7. IsChecked(a) /\ IsMembers(a) /\ Fitting(a)
  BY <1>1, <1>3
  DEF Sound, IsChecked, IsMembers, Fitting, BehindCap, BehindSpec, BeforeSpec, Unserved
<1>8. Tells(a)
  BY <1>1, <1>3, TellsTheSame DEF Sound
<1>9. Counted(a) <=> Counted(q)
  BY <1>1, <1>3 DEF Counted
<1>10. GoesOn(r)
  BY <1>2, <1>4, <1>6, <1>7, <1>8, <1>9 DEF GoesOn, Follows, Sound
<1>. QED  BY <1>10, GoingOnKeeps DEF SendFrame

\* The end of a stream.
LEMMA EndEventsKeeps ==
  ASSUME ApiInv, NEW r \in Requests, EndEvents(r)
  PROVE  ApiInv'
<1>. DEFINE q == request[r]
            a == [q EXCEPT !.at = "done"]
<1>1. /\ q \in Request /\ Sound(q) /\ q.at = "stream" /\ q.in.op = "streamEvents"
      /\ "streamEvents" \notin Operations /\ q.answers # <<>>
  BY StreamsAreElsewhere DEF EndEvents, Op
<1>2. a \in Request
  BY <1>1 DEF Request, Places
<1>3. /\ a.at = "done" /\ a.in = q.in /\ a.body = q.body /\ a.user = q.user
      /\ a.given = q.given /\ a.published = q.published /\ a.answers = q.answers
  BY <1>1 DEF Request
<1>4. request' = [request EXCEPT ![r] = a]
  BY DEF EndEvents, MovesTo
<1>. HIDE DEF a
<1>6. OnItsRoute(a) /\ AnsweredOnce(a)
  BY <1>1, <1>3 DEF Sound, OnItsRoute, AnsweredOnce, Unserved, Observed
<1>7. IsChecked(a) /\ IsMembers(a) /\ Fitting(a)
  BY <1>1, <1>3
  DEF Sound, IsChecked, IsMembers, Fitting, BehindCap, BehindSpec, BeforeSpec, Unserved
<1>8. Tells(a)
  BY <1>1, <1>3, TellsTheSame DEF Sound
<1>9. Counted(a) <=> Counted(q)
  BY <1>1, <1>3 DEF Counted
<1>10. GoesOn(r)
  BY <1>2, <1>4, <1>6, <1>7, <1>8, <1>9 DEF GoesOn, Follows, Sound
<1>. QED  BY <1>10, GoingOnKeeps DEF EndEvents

\* The gauge is lowered with the request that leaves.
LEMMA LeaveMetricsKeeps ==
  ASSUME ApiInv, NEW r \in Requests, LeaveMetrics(r)
  PROVE  ApiInv'
<1>. DEFINE q == request[r]
            a == [q EXCEPT !.at = "done", !.logged = TRUE]
<1>1. q \in Request /\ Sound(q) /\ q.at = "leave" /\ q.in.op \in Operations /\ q.answers # <<>>
  BY OneRequest DEF LeaveMetrics, Sound, OnItsRoute, Observed
<1>2. a \in Request
  <2>1. "done" \in Places
    BY DEF Places
  <2>. QED  BY <1>1, <2>1 DEF Request
<1>3. /\ a.at = "done" /\ a.in = q.in /\ a.body = q.body /\ a.user = q.user
      /\ a.given = q.given /\ a.published = q.published /\ a.answers = q.answers
      /\ a.wrote = q.wrote
  BY <1>1 DEF Request
<1>4. request' = [request EXCEPT ![r] = a]
  <2>1. request \in [Requests -> Request]
    BY DEF ApiInv, ApiTypes
  <2>. QED  BY <2>1 DEF LeaveMetrics
<1>. HIDE DEF a
<1>5. OnItsRoute(a) /\ AnsweredOnce(a)
  BY <1>1, <1>3 DEF Sound, OnItsRoute, AnsweredOnce, Unserved, Observed
<1>6. IsChecked(a) /\ IsMembers(a) /\ Fitting(a)
  BY <1>1, <1>3
  DEF Sound, IsChecked, IsMembers, Fitting, BehindCap, BehindSpec, BeforeSpec, Unserved
<1>7. Tells(a)
  BY <1>1, <1>3, TellsTheSame DEF Sound
<1>8. ~Counted(a) /\ Counted(q)
  BY <1>1, <1>3 DEF Counted, Observed
<1>. QED  BY <1>2, <1>4, <1>5, <1>6, <1>7, <1>8, OneChangeKeeps DEF LeaveMetrics, Sound

\* A panic can come wherever the server's own code runs.
LEMMA PanicKeeps ==
  ASSUME ApiInv, NEW r \in Requests, Panic(r)
  PROVE  ApiInv'
<1>. DEFINE q == request[r]
            a == [q EXCEPT !.at = "panicking"]
<1>1. /\ q \in Request /\ Sound(q)
      /\ q.at \in {"validate", "guard", "handle", "source", "publish", "stream", "leave"}
  BY OneRequest DEF Panic
<1>2. a \in Request
  <2>1. "panicking" \in Places
    BY DEF Places
  <2>. QED  BY <1>1, <2>1 DEF Request
<1>3. /\ a.at = "panicking" /\ a.in = q.in /\ a.body = q.body /\ a.user = q.user
      /\ a.given = q.given /\ a.published = q.published /\ a.answers = q.answers
      /\ a.wrote = q.wrote
  BY <1>1 DEF Request
<1>4. request' = [request EXCEPT ![r] = a]
  BY DEF Panic, MovesTo
<1>. HIDE DEF a
<1>5. q.in.op \in Operations \cup {"streamEvents"} /\ (q.at = "stream" => q.in.op = "streamEvents")
      /\ (q.at \notin {"guard", "stream"} => q.in.op \in Operations)
  BY <1>1 DEF Sound, OnItsRoute, Observed
<1>6. OnItsRoute(a) /\ AnsweredOnce(a)
  BY <1>1, <1>3, <1>5 DEF Sound, OnItsRoute, AnsweredOnce, Unserved, Observed
<1>7. IsChecked(a) /\ IsMembers(a) /\ Fitting(a)
  BY <1>1, <1>3
  DEF Sound, IsChecked, IsMembers, Fitting, BehindCap, BehindSpec, BeforeSpec, Unserved
<1>8. Tells(a)
  BY <1>1, <1>3, TellsTheSame DEF Sound
<1>9. Counted(a) <=> Counted(q)
  <2>1. "streamEvents" \notin Operations
    BY DEF Operations, Mutations, WithBody, Named, Reads, ItemSteps
  <2>. QED  BY <1>1, <1>3, <1>5, <2>1 DEF Counted, Observed
<1>10. GoesOn(r)
  BY <1>2, <1>4, <1>6, <1>7, <1>8, <1>9 DEF GoesOn, Follows, Sound
<1>. QED  BY <1>10, GoingOnKeeps DEF Panic

\* Another answer tells no more than those before it if it is a 500.
LEMMA ErrorAfterwards ==
  ASSUME NEW q, NEW a, Tells(q), q.answers \in Seq(Nat), a.answers = Append(q.answers, 500),
         a.in = q.in, a.given = q.given, a.published = q.published
  PROVE  Tells(a)
<1>1. ASSUME NEW n \in 1..Len(a.answers)
      PROVE  \/ n \in 1..Len(q.answers) /\ a.answers[n] = q.answers[n]
             \/ a.answers[n] = 500
  OBVIOUS
<1>2. ASSUME NEW n \in 1..Len(a.answers)
      PROVE  /\ a.answers[n] \in {400, 401, 405, 413} => a.given = None /\ ~a.published
             /\ a.answers[n] \in 200..299 /\ a.in.op \in Mutations => a.given # None /\ a.published
  <2>1. CASE n \in 1..Len(q.answers) /\ a.answers[n] = q.answers[n]
    BY <2>1 DEF Tells
  <2>2. CASE a.answers[n] = 500
    <3>1. a.answers[n] \notin {400, 401, 405, 413} /\ a.answers[n] \notin 200..299
      BY ONLY <2>2, ServerError
    <3>. QED  BY ONLY <3>1
  <2>. QED  BY <1>1, <2>1, <2>2
<1>. QED  BY <1>2 DEF Tells

\* A request that is answered is still one.
LEMMA AnsweredIsRequest ==
  ASSUME NEW w \in Request, NEW s \in Seq(Nat)
  PROVE  [w EXCEPT !.at = "done", !.answers = s] \in Request
<1>1. "done" \in Places
  BY DEF Places
<1>. QED  BY <1>1 DEF Request

\* A request that is given up keeps everything but its place.
LEMMA AbortedIsRequest ==
  ASSUME NEW w \in Request
  PROVE  /\ [w EXCEPT !.at = "aborted"] \in Request
         /\ \A b : b = [w EXCEPT !.at = "aborted"] =>
              /\ b.at = "aborted" /\ b.in = w.in /\ b.body = w.body /\ b.user = w.user
              /\ b.given = w.given /\ b.published = w.published
              /\ b.answers = w.answers /\ b.wrote = w.wrote
<1>1. "aborted" \in Places
  BY DEF Places
<1>. QED  BY <1>1 DEF Request

\* Recover answers what nobody has answered, and the gauge is lowered either way.
LEMMA RecoverPanicKeeps ==
  ASSUME ApiInv, NEW r \in Requests, RecoverPanic(r)
  PROVE  ApiInv'
<1>. DEFINE q == request[r]
            a == Recovered(r)
<1>1. q \in Request /\ Sound(q) /\ q.at = "panicking" /\ q.answers \in Seq(Nat)
  BY OneRequest, RequestFields DEF RecoverPanic
<1>2. /\ a \in Request /\ a.at \in {"done", "aborted"} /\ a.in = q.in /\ a.body = q.body
      /\ a.user = q.user /\ a.given = q.given /\ a.published = q.published
      /\ a.at = "aborted" => a.answers = q.answers /\ a.wrote = q.wrote /\ q.wrote
      /\ a.at = "done" => a.answers = Append(q.answers, 500) /\ ~q.wrote
  <2>1. CASE q.wrote
    <3>1. a = [q EXCEPT !.at = "aborted"]
      BY <2>1 DEF Recovered
    <3>2. PICK w \in Request : w = q
      BY <1>1
    <3>3. PICK b \in Request : b = [w EXCEPT !.at = "aborted"]
      BY AbortedIsRequest
    <3>4. a = b
      BY <3>1, <3>2, <3>3, Zenon
    <3>5. /\ b.at = "aborted" /\ b.in = w.in /\ b.body = w.body /\ b.user = w.user
          /\ b.given = w.given /\ b.published = w.published
          /\ b.answers = w.answers /\ b.wrote = w.wrote
      BY <3>3, AbortedIsRequest
    <3>. HIDE DEF a, q
    <3>6. /\ a \in Request /\ a.at = "aborted" /\ a.in = q.in /\ a.body = q.body /\ a.user = q.user
          /\ a.given = q.given /\ a.published = q.published
          /\ a.answers = q.answers /\ a.wrote = q.wrote
      BY <3>2, <3>4, <3>5, Zenon
    <3>. QED  BY <2>1, <3>6
  <2>2. CASE ~q.wrote
    <3>1. a = [q EXCEPT !.at = "done", !.answers = Append(q.answers, 500)]
      BY <2>2 DEF Recovered
    <3>2. Append(q.answers, 500) \in Seq(Nat)
      BY <1>1
    <3>. HIDE DEF a
    <3>3. a \in Request
      <4>1. PICK w \in Request, s \in Seq(Nat) : w = q /\ s = Append(q.answers, 500)
        BY <1>1, <3>2
      <4>2. [w EXCEPT !.at = "done", !.answers = s] \in Request
        BY AnsweredIsRequest
      <4>. HIDE DEF q
      <4>. QED  BY ONLY <3>1, <4>1, <4>2
    <3>4. /\ a.at = "done" /\ a.in = q.in /\ a.body = q.body /\ a.user = q.user
          /\ a.given = q.given /\ a.published = q.published
          /\ a.answers = Append(q.answers, 500)
      BY <1>1, <3>1 DEF Request
    <3>. QED  BY <2>2, <3>3, <3>4
  <2>. QED  BY <2>1, <2>2
<1>3. request' = [request EXCEPT ![r] = a]
  BY DEF RecoverPanic
<1>. HIDE DEF a
<1>4. OnItsRoute(a)
  BY <1>1, <1>2 DEF Sound, OnItsRoute, Unserved, Observed
<1>5. IsChecked(a) /\ IsMembers(a) /\ Fitting(a)
  BY <1>1, <1>2
  DEF Sound, IsChecked, IsMembers, Fitting, BehindCap, BehindSpec, BeforeSpec, Unserved
<1>6. AnsweredOnce(a)
  <2>1. CASE a.at = "aborted"
    BY <1>1, <1>2, <2>1 DEF Sound, AnsweredOnce
  <2>2. CASE a.at = "done"
    <3>1. a.answers # <<>>
      BY <1>1, <1>2, <2>2
    <3>2. q.in.op # "streamEvents" => q.answers = <<>>
      BY <1>1, <1>2, <2>2 DEF Sound, AnsweredOnce
    <3>3. ASSUME q.answers = <<>> PROVE Len(a.answers) = 1
      <4>1. \A e : e = Append(<<>>, 500) => Len(e) = 1
        OBVIOUS
      <4>2. a.answers = Append(q.answers, 500)
        BY <1>2, <2>2
      <4>3. a.answers = Append(<<>>, 500)
        BY <3>3, <4>2, Zenon
      <4>. HIDE DEF a
      <4>. QED  BY <4>1, <4>3, Zenon
    <3>. QED  BY <1>2, <2>2, <3>1, <3>2, <3>3 DEF AnsweredOnce
  <2>. QED  BY <1>2, <2>1, <2>2
<1>7. Tells(a)
  <2>1. CASE a.at = "aborted"
    BY <1>1, <1>2, <2>1, TellsTheSame DEF Sound
  <2>2. CASE a.at = "done"
    BY <1>1, <1>2, <2>2, ErrorAfterwards DEF Sound
  <2>. QED  BY <1>2, <2>1, <2>2
<1>8. /\ ~Counted(a)
      /\ inFlight' = IF Counted(q) THEN inFlight - 1 ELSE inFlight
  BY <1>1, <1>2, InsideIsCounted DEF Counted, Observed, RecoverPanic
<1>. QED  BY <1>1, <1>2, <1>3, <1>4, <1>5, <1>6, <1>7, <1>8, OneChangeKeeps DEF RecoverPanic, Sound

\* The database goes and comes back.
LEMMA DatabaseKeeps ==
  ASSUME ApiInv, LoseDatabase \/ RegainDatabase
  PROVE  ApiInv'
<1>1. UNCHANGED <<setup, request, inFlight>>
  BY DEF LoseDatabase, RegainDatabase
<1>2. up' \in BOOLEAN /\ outages' \in 0..MaxOutages
  <2>1. MaxOutages \in Nat
    BY ApiRequestAssumption DEF ApiRequestAssumption
  <2>2. outages \in 0..MaxOutages
    BY DEF ApiInv, ApiTypes
  <2>3. CASE LoseDatabase
    <3>1. up' = FALSE /\ outages' = outages + 1 /\ outages < MaxOutages
      BY <2>3 DEF LoseDatabase
    <3>2. outages' \in 0..MaxOutages
      BY <2>1, <2>2, <3>1
    <3>. QED  BY <3>1, <3>2
  <2>4. CASE RegainDatabase
    BY <2>2, <2>4 DEF RegainDatabase
  <2>. QED  BY <2>3, <2>4
<1>3. ApiTypes' /\ InFlightCounts'
  BY <1>1, <1>2 DEF ApiInv, ApiTypes, InFlightCounts, Inside, Op
<1>4. \A r \in Requests : Sound(request[r])'
  BY <1>1 DEF ApiInv, Sound, OnItsRoute, IsChecked, IsMembers, AnsweredOnce, Tells, Fitting
<1>. QED  BY <1>3, <1>4 DEF ApiInv

\* Before the first request.
LEMMA IdlersAreSound == ApiInit => ApiInv
<1>. SUFFICES ASSUME ApiInit PROVE ApiInv
  OBVIOUS
<1>1. ApiTypes
  <2>1. MaxOutages \in Nat
    BY ApiRequestAssumption DEF ApiRequestAssumption
  <2>. QED  BY <2>1, IdleIsRequest DEF ApiInit, ApiTypes
<1>2. /\ Idle.at = "idle" /\ Idle.in.body = NoFields /\ Idle.body = NoFields /\ Idle.given = None
      /\ ~Idle.published /\ ~Idle.wrote /\ Idle.answers = <<>>
  BY DEF Idle, NoInput
<1>3. Sound(Idle)
  <2>1. OnItsRoute(Idle) /\ IsChecked(Idle)
    BY <1>2 DEF OnItsRoute, IsChecked, Unserved, Observed, BehindCap, BehindSpec, BeforeSpec
  <2>2. IsMembers(Idle) /\ AnsweredOnce(Idle) /\ Tells(Idle) /\ Fitting(Idle)
    BY <1>2 DEF IsMembers, AnsweredOnce, Tells, Fitting
  <2>. QED  BY <2>1, <2>2 DEF Sound
<1>4. \A r \in Requests : request[r] = Idle
  BY DEF ApiInit
<1>5. InFlightCounts
  <2>1. {r \in Requests : Inside(r)} = {}
    BY <1>2, <1>4 DEF Inside, Observed
  <2>. QED  BY <2>1, FS_EmptySet DEF ApiInit, InFlightCounts
<1>. QED  BY <1>1, <1>3, <1>4, <1>5 DEF ApiInv

\* The inductive invariant: where a request is tells which checks it has passed, what
\* it has been answered and whether the gauge counts it.
THEOREM ApiSound == ApiSpec => []ApiInv
<1>1. ASSUME ApiInv, [ApiNext]_apiVars PROVE ApiInv'
  <2>1. CASE UNCHANGED apiVars
    BY <1>1, <2>1 DEF apiVars, ApiInv, ApiTypes, InFlightCounts, Inside, Op,
      Sound, OnItsRoute, IsChecked, IsMembers, AnsweredOnce, Tells, Fitting
  <2>2. ASSUME NEW r \in Requests, Middleware(r) PROVE ApiInv'
    BY <1>1, <2>2, ArriveKeeps, LoadAndSaveKeeps, MaxBodyKeeps, RouteKeeps, BindKeeps,
      EnterMetricsKeeps, ValidateKeeps, RequireAuthKeeps DEF Middleware
  <2>3. ASSUME NEW r \in Requests, Handler(r) PROVE ApiInv'
    BY <1>1, <2>3, HandleKeeps, ReadSourceKeeps, CallRepositoryKeeps, PublishAndReplyKeeps,
      OpenEventsKeeps, SendFrameKeeps, EndEventsKeeps DEF Handler
  <2>4. ASSUME NEW r \in Requests, WayOut(r) PROVE ApiInv'
    BY <1>1, <2>4, LeaveMetricsKeeps, PanicKeeps, RecoverPanicKeeps DEF WayOut
  <2>5. CASE LoseDatabase \/ RegainDatabase
    BY <1>1, <2>5, DatabaseKeeps
  <2>. QED  BY <1>1, <2>1, <2>2, <2>3, <2>4, <2>5 DEF ApiNext
<1>. QED  BY <1>1, IdlersAreSound, PTL DEF ApiSpec

\* The gauge of metrics/middleware.go never falls below zero, and the values of the
\* state are those the code can hold (ApiTypeOK).
THEOREM RequestTypes == ApiSpec => []ApiTypeOK
<1>1. ApiInv => ApiTypeOK
  <2>. SUFFICES ASSUME ApiInv PROVE inFlight \in Nat
    BY DEF ApiInv, ApiTypes, ApiTypeOK
  <2>1. IsFiniteSet({r \in Requests : Inside(r)})
    BY ApiRequestAssumption, FS_Subset DEF ApiRequestAssumption
  <2>. QED  BY <2>1, FS_CardinalityType DEF ApiInv, InFlightCounts
<1>. QED  BY <1>1, ApiSound, PTL

\* The gauge is the number of requests in the chain, for any number of them, also
\* after answers, refusals and panics (InFlightCounts).
THEOREM GaugeTells == ApiSpec => []InFlightCounts
<1>1. ApiInv => InFlightCounts
  BY DEF ApiInv
<1>. QED  BY <1>1, ApiSound, PTL

\* Only a live session, or dev-auth, gets a handler to run, GetHealth excepted, on
\* both routes into the API: the guards of server.go (ServedOnlyMembers).
THEOREM HandlersServeMembers == ApiSpec => []ServedOnlyMembers
<1>1. ApiInv => ServedOnlyMembers
  BY DEF ApiInv, Sound, IsMembers, ServedOnlyMembers, Served, Op
<1>. QED  BY <1>1, ApiSound, PTL

\* A request that ends has been answered, and once: no handler answers and goes on,
\* and Recover adds nothing to an answer (OneAnswer).
THEOREM AnswersOnce == ApiSpec => []OneAnswer
<1>1. ApiInv => OneAnswer
  BY DEF ApiInv, Sound, AnsweredOnce, OneAnswer, Op
<1>. QED  BY <1>1, ApiSound, PTL

\* A refusal means that the store was not asked, a success that it was and that the
\* others were told: respond.go and the handlers (AnswerTells).
THEOREM StatusTells == ApiSpec => []AnswerTells
<1>1. ApiInv => AnswerTells
  BY DEF ApiInv, Sound, Tells, AnswerTells, Op
<1>. QED  BY <1>1, ApiSound, PTL

\* What lists.go and service.go give the repository is clean, for every body and all
\* bounds of the domain (GivenIsClean).
THEOREM StoreGetsClean == ApiSpec => []GivenIsClean
<1>1. ApiInv => GivenIsClean
  BY DEF ApiInv, Sound, Fitting, Clean, GivenIsClean, Op
<1>. QED  BY <1>1, ApiSound, PTL

\* The domain refuses nothing the OpenAPI document has let through but a name of
\* blanks, for all bounds (DomainAgreesWithSpec).
THEOREM DomainAgrees == ApiSpec => []DomainAgreesWithSpec
<1>1. ApiInv => DomainAgreesWithSpec
  <2>. SUFFICES ASSUME ApiInv, NEW r \in Requests, request[r].at = "handle", ~Suits(r)
                PROVE  request[r].body.name # None /\ request[r].body.name.runes = 0
    BY DEF DomainAgreesWithSpec
  <2>. QED  BY HandlerFinds, DomainFollowsSpec DEF Suits, Op
<1>. QED  BY <1>1, ApiSound, PTL

\* No body over the cap of maxbody.go reaches the repository (CapHolds).
THEOREM OversizeStopsHere == ApiSpec => []CapHolds
<1>1. ApiInv => CapHolds
  BY DEF ApiInv, Sound, Fitting, CapHolds, Op
<1>. QED  BY <1>1, ApiSound, PTL

===============================================================================
