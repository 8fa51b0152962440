----------------------------- MODULE EventStream -----------------------------
(* The live-update channel inside one server process: events.Broker, the SSE  *)
(* handlers that read from it (rest.sseHandler), the API handlers that        *)
(* publish to it and the graceful shutdown that closes it.  The broker's      *)
(* mutex is explicit: Publish and Close walk the subscribers one at a time    *)
(* while they hold it, and the streams receive without it.  A handler that    *)
(* publishes keeps no state of its own and only one can hold the mutex, so    *)
(* `Publisher` stands for whichever does.                                     *)
(*                                                                            *)
(* An event is the number of its Publish; what it says does not matter here.  *)
EXTENDS Naturals, Sequences, FiniteSets

CONSTANTS
  Streams,     \* SSE requests; a client that reconnects is another one
  Publisher,   \* the API handler that is publishing
  Buffer,      \* subscriberBuffer
  MaxEvents,   \* bound on the events published
  Closer,      \* the goroutine of the shutdown hook
  Nobody       \* the mutex is free

ASSUME StreamAssumption ==
  /\ Buffer \in Nat \ {0}
  /\ MaxEvents \in Nat
  /\ Publisher # Closer /\ Nobody \notin {Publisher, Closer}

VARIABLES
  mu,        \* who holds the broker's mutex across steps
  todo,      \* the subscribers its loop has still to visit
  subs,      \* Broker.subs
  closed,    \* Broker.closed
  chan,      \* each stream's channel: "nil", "open" or "shut"
  buf,       \* what is queued in it
  pc,        \* where each SSE handler stands
  hand,      \* the events it has received and is writing (none or one)
  phase,     \* the HTTP server
  hook,      \* the shutdown hook
  count,     \* events published so far
  opened,    \* ghost: `count` when the client saw its stream open
  got,       \* ghost: the events written to the client
  dropped,   \* ghost: the events Publish dropped for the stream
  missed,    \* ghost: an event was dropped since the client's last frame
  panicked   \* ghost: a send on, or a close of, a closed channel

broker == <<mu, todo, subs, closed, chan, buf, count, dropped, missed, panicked>>
handlers == <<pc, hand, opened, got>>
server == <<phase, hook>>
vars == <<broker, handlers, server>>

-----------------------------------------------------------------------------
(* The broker.                                                             *)

\* close(sub) panics on a closed channel.
Shut(s) ==
  /\ chan' = [chan EXCEPT ![s] = "shut"]
  /\ panicked' = (panicked \/ chan[s] = "shut")

LockForPublish ==
  /\ mu = Nobody
  /\ count < MaxEvents
  /\ count' = count + 1
  /\ mu' = Publisher
  /\ todo' = subs
  /\ UNCHANGED <<subs, closed, chan, buf, dropped, missed, panicked, handlers, server>>

\* Faulty: a full buffer is emptied to make room, and the event dropped too.
SendTo_Drains(s) ==
  /\ mu = Publisher /\ s \in todo
  /\ todo' = todo \ {s}
  /\ IF Len(buf[s]) < Buffer
     THEN /\ buf' = [buf EXCEPT ![s] = Append(@, count)]
          /\ UNCHANGED <<dropped, missed>>
     ELSE /\ buf' = [buf EXCEPT ![s] = <<>>]
          /\ dropped' = [dropped EXCEPT ![s] = @ \cup {count}]
          /\ missed' = [missed EXCEPT ![s] = TRUE]
  /\ panicked' = (panicked \/ chan[s] = "shut")
  /\ UNCHANGED <<mu, subs, closed, chan, count, handlers, server>>

\* The select with a default: a subscriber whose buffer is full misses the event.
SendTo(s) ==
  /\ mu = Publisher /\ s \in todo
  /\ todo' = todo \ {s}
  /\ IF Len(buf[s]) < Buffer
     THEN /\ buf' = [buf EXCEPT ![s] = Append(@, count)]
          /\ UNCHANGED <<dropped, missed>>
     ELSE /\ dropped' = [dropped EXCEPT ![s] = @ \cup {count}]
          /\ missed' = [missed EXCEPT ![s] = TRUE]
          /\ UNCHANGED buf
  /\ panicked' = (panicked \/ chan[s] = "shut")
  /\ UNCHANGED <<mu, subs, closed, chan, count, handlers, server>>

Unlock(holder) ==
  /\ mu = holder /\ todo = {}
  /\ mu' = Nobody
  /\ UNCHANGED <<todo, subs, closed, chan, buf, count, dropped, missed, panicked, handlers>>

UnlockPublish == Unlock(Publisher) /\ UNCHANGED server

LockForClose ==
  /\ hook = "called" /\ mu = Nobody
  /\ mu' = Closer
  /\ todo' = subs
  /\ closed' = TRUE
  /\ hook' = "closing"
  /\ UNCHANGED <<subs, chan, buf, count, dropped, missed, panicked, handlers, phase>>

CloseOne(s) ==
  /\ mu = Closer /\ s \in todo
  /\ todo' = todo \ {s}
  /\ subs' = subs \ {s}
  /\ Shut(s)
  /\ UNCHANGED <<mu, closed, buf, count, dropped, missed, handlers, server>>

UnlockClose == hook = "closing" /\ Unlock(Closer) /\ hook' = "done" /\ UNCHANGED phase

-----------------------------------------------------------------------------
(* An SSE handler.                                                         *)

Accept(s) ==
  /\ pc[s] = "away" /\ phase = "serving"
  /\ pc' = [pc EXCEPT ![s] = "subscribe"]
  /\ UNCHANGED <<broker, hand, opened, got, server>>

\* Faulty: a closed broker goes on taking subscribers.
Subscribe_EvenClosed(s) ==
  /\ pc[s] = "subscribe" /\ mu = Nobody
  /\ chan' = [chan EXCEPT ![s] = "open"]
  /\ subs' = subs \cup {s}
  /\ pc' = [pc EXCEPT ![s] = "flush"]
  /\ UNCHANGED <<mu, todo, closed, buf, count, dropped, missed, panicked, hand, opened, got, server>>

\* Faulty: the headers are flushed before the handler subscribes.
Subscribe_AfterOpen(s) ==
  /\ \/ /\ pc[s] = "subscribe" /\ opened[s] > count
        /\ opened' = [opened EXCEPT ![s] = count]
        /\ UNCHANGED <<chan, subs, pc>>
     \/ /\ pc[s] = "subscribe" /\ opened[s] <= count /\ mu = Nobody
        /\ chan' = [chan EXCEPT ![s] = IF closed THEN "shut" ELSE "open"]
        /\ subs' = IF closed THEN subs ELSE subs \cup {s}
        /\ pc' = [pc EXCEPT ![s] = "loop"]
        /\ UNCHANGED opened
  /\ UNCHANGED <<mu, todo, closed, buf, count, dropped, missed, panicked, hand, got, server>>

Subscribe(s) ==
  /\ pc[s] = "subscribe" /\ mu = Nobody
  /\ chan' = [chan EXCEPT ![s] = IF closed THEN "shut" ELSE "open"]
  /\ subs' = IF closed THEN subs ELSE subs \cup {s}
  /\ pc' = [pc EXCEPT ![s] = "flush"]
  /\ UNCHANGED <<mu, todo, closed, buf, count, dropped, missed, panicked, hand, opened, got, server>>

\* Faulty: a failed first flush returns without unsubscribing.
OpenStream_Leaks(s) ==
  /\ pc[s] = "flush"
  /\ \/ /\ opened' = [opened EXCEPT ![s] = count]
        /\ pc' = [pc EXCEPT ![s] = "loop"]
     \/ /\ pc' = [pc EXCEPT ![s] = "gone"]
        /\ UNCHANGED opened
  /\ UNCHANGED <<broker, hand, got, server>>

\* The first flush lets the client's EventSource open, or fails.
OpenStream(s) ==
  /\ pc[s] = "flush"
  /\ \/ /\ opened' = [opened EXCEPT ![s] = count]
        /\ pc' = [pc EXCEPT ![s] = "loop"]
     \/ /\ pc' = [pc EXCEPT ![s] = "unsubscribe"]
        /\ UNCHANGED opened
  /\ UNCHANGED <<broker, hand, got, server>>

\* A closed channel still hands out what is queued before it reports !ok.
Receive(s) ==
  /\ pc[s] = "loop"
  /\ \/ /\ buf[s] # <<>>
        /\ hand' = [hand EXCEPT ![s] = <<Head(buf[s])>>]
        /\ buf' = [buf EXCEPT ![s] = Tail(@)]
        /\ pc' = [pc EXCEPT ![s] = "write"]
     \/ /\ buf[s] = <<>> /\ chan[s] = "shut"
        /\ pc' = [pc EXCEPT ![s] = "unsubscribe"]
        /\ UNCHANGED <<hand, buf>>
  /\ UNCHANGED <<mu, todo, subs, closed, chan, count, dropped, missed, panicked, opened, got, server>>

\* writeEventFrame; a write or flush error ends the stream.
WriteFrame(s) ==
  /\ pc[s] = "write"
  /\ \/ /\ got' = [got EXCEPT ![s] = @ \o hand[s]]
        /\ missed' = [missed EXCEPT ![s] = FALSE]
        /\ pc' = [pc EXCEPT ![s] = "loop"]
     \/ /\ pc' = [pc EXCEPT ![s] = "unsubscribe"]
        /\ UNCHANGED <<got, missed>>
  /\ hand' = [hand EXCEPT ![s] = <<>>]
  /\ UNCHANGED <<mu, todo, subs, closed, chan, buf, count, dropped, panicked, opened, server>>

\* The request context is done, or a heartbeat cannot be written.
ClientGone(s) ==
  /\ pc[s] = "loop"
  /\ pc' = [pc EXCEPT ![s] = "unsubscribe"]
  /\ UNCHANGED <<broker, hand, opened, got, server>>

\* The deferred unsubscribe has run; the channel and the ghosts are garbage.
Return(s) ==
  /\ subs' = subs \ {s}
  /\ pc' = [pc EXCEPT ![s] = "gone"]
  /\ buf' = [buf EXCEPT ![s] = <<>>]
  /\ opened' = [opened EXCEPT ![s] = MaxEvents + 1]
  /\ got' = [got EXCEPT ![s] = <<>>]
  /\ dropped' = [dropped EXCEPT ![s] = {}]
  /\ missed' = [missed EXCEPT ![s] = FALSE]
  /\ UNCHANGED <<mu, todo, closed, count, hand, server>>

\* Faulty: the mutex is not taken.
Unsubscribe_Unlocked(s) ==
  /\ pc[s] = "unsubscribe"
  /\ IF s \in subs THEN Shut(s) ELSE UNCHANGED <<chan, panicked>>
  /\ Return(s)

Unsubscribe(s) ==
  /\ pc[s] = "unsubscribe" /\ mu = Nobody
  /\ IF s \in subs THEN Shut(s) ELSE UNCHANGED <<chan, panicked>>
  /\ Return(s)

-----------------------------------------------------------------------------
(* Shutdown.                                                               *)

\* A signal: no new connection is accepted and the hook is called.
StopServer ==
  /\ phase = "serving"
  /\ phase' = "stopping"
  /\ hook' = "called"
  /\ UNCHANGED <<broker, handlers>>

\* Shutdown returns once every connection is idle...
Drained ==
  /\ phase = "stopping"
  /\ \A s \in Streams : pc[s] \in {"away", "gone"}
  /\ phase' = "stopped"
  /\ UNCHANGED <<broker, handlers, hook>>

\* ...or when its deadline has passed.
DeadlinePasses ==
  /\ phase = "stopping"
  /\ phase' = "expired"
  /\ UNCHANGED <<broker, handlers, hook>>

Over == phase \in {"stopped", "expired"} /\ UNCHANGED vars

-----------------------------------------------------------------------------

Init ==
  /\ mu = Nobody /\ todo = {} /\ subs = {} /\ closed = FALSE
  /\ chan = [s \in Streams |-> "nil"]
  /\ buf = [s \in Streams |-> <<>>]
  /\ pc = [s \in Streams |-> "away"]
  /\ hand = [s \in Streams |-> <<>>]
  /\ phase = "serving" /\ hook = "idle"
  /\ count = 0
  /\ opened = [s \in Streams |-> MaxEvents + 1]
  /\ got = [s \in Streams |-> <<>>]
  /\ dropped = [s \in Streams |-> {}]
  /\ missed = [s \in Streams |-> FALSE]
  /\ panicked = FALSE

FinishPublish == (\E s \in Streams : SendTo(s)) \/ UnlockPublish

CloseStep == LockForClose \/ (\E s \in Streams : CloseOne(s)) \/ UnlockClose

StreamStep(s) ==
  Subscribe(s) \/ OpenStream(s) \/ Receive(s) \/ WriteFrame(s) \/ Unsubscribe(s)

Next ==
  \/ LockForPublish \/ FinishPublish
  \/ CloseStep
  \/ \E s \in Streams : Accept(s) \/ StreamStep(s) \/ ClientGone(s)
  \/ StopServer \/ Drained \/ DeadlinePasses
  \/ Over

Spec == Init /\ [][Next]_vars

\* Goroutines run on: a select takes a ready case, a write ends or fails, whoever
\* holds the mutex releases it.  Nobody has to publish, leave or stop the server,
\* and the shutdown deadline is never counted on.
FairSpec ==
  /\ Spec
  /\ \A s \in Streams : WF_vars(StreamStep(s))
  /\ WF_vars(FinishPublish)
  /\ WF_vars(CloseStep)
  /\ WF_vars(Drained)

-----------------------------------------------------------------------------
(* What must hold.                                                         *)

Queued(s) == got[s] \o hand[s] \o buf[s]

Numbers(seq) == {seq[k] : k \in DOMAIN seq}

\* The types of the variables: the queues stay within subscriberBuffer, a handler
\* holds an event exactly while it writes it, and only a holder of the mutex has
\* subscribers left to visit.
TypeOK ==
  /\ mu \in {Publisher, Closer, Nobody}
  /\ subs \subseteq Streams /\ todo \subseteq subs
  /\ mu = Nobody => todo = {}
  /\ closed \in BOOLEAN
  /\ chan \in [Streams -> {"nil", "open", "shut"}]
  /\ buf \in [Streams -> Seq(Nat)] /\ \A s \in Streams : Len(buf[s]) <= Buffer
  /\ pc \in [Streams -> {"away", "subscribe", "flush", "loop", "write", "unsubscribe", "gone"}]
  /\ hand \in [Streams -> Seq(Nat)] /\ \A s \in Streams : hand[s] # <<>> <=> pc[s] = "write"
  /\ phase \in {"serving", "stopping", "stopped", "expired"}
  /\ hook \in {"idle", "called", "closing", "done"}
  /\ count \in Nat
  /\ opened \in [Streams -> Nat]
  /\ got \in [Streams -> Seq(Nat)]
  /\ dropped \in [Streams -> SUBSET Nat]
  /\ missed \in [Streams -> BOOLEAN]
  /\ panicked \in BOOLEAN

\* Publish never sends on a closed channel and no channel is closed twice, though
\* a departing client, the shutdown hook and the publishers race for them.
NeverPanics == ~panicked

\* The broker's set holds exactly the open channels, each with a handler that will
\* still unsubscribe: no subscription outlives its handler.
NoSubscriptionLeaks ==
  \A s \in Streams :
    /\ s \in subs <=> chan[s] = "open"
    /\ s \in subs => pc[s] \in {"flush", "loop", "write", "unsubscribe"}

\* While its handler runs, a client that has seen its stream open gets every event
\* published from then on, in order, but for those the full buffer dropped
\* (sseHandler subscribes before its first flush).
EventsAfterOpenArrive ==
  \A s \in Streams :
    /\ \A i, j \in DOMAIN Queued(s) : i < j => Queued(s)[i] < Queued(s)[j]
    /\ pc[s] \in {"loop", "write"} /\ chan[s] = "open" =>
         \A n \in 1 .. count : n > opened[s] =>
            \/ n \in Numbers(Queued(s)) \cup dropped[s]
            \/ n = count /\ mu # Nobody /\ s \in todo

\* A dropped hint never leaves a client in the dark: some frame is still to be
\* written to it after the drop (the comment on subscriberBuffer).
DropsAreFollowed ==
  \A s \in Streams :
    missed[s] /\ pc[s] \in {"flush", "loop", "write"} => hand[s] # <<>> \/ buf[s] # <<>>

\* Once the server is stopping, every stream ends and the shutdown completes
\* without its deadline, whatever the streams were doing and even if one
\* subscribes after the broker was closed (RegisterOnShutdown(broker.Close)).
ShutdownCompletes == phase = "stopping" ~> phase \in {"stopped", "expired"}
=============================================================================
