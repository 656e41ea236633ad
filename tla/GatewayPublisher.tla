--------------------------- MODULE GatewayPublisher ---------------------------
(***************************************************************************)
(* The gateway event publisher and the shutdown it takes part in:          *)
(* internal/gateway/publisher.go and the end of run() in                   *)
(* cmd/uncord/main.go.                                                     *)
(*                                                                         *)
(* HTTP handlers enqueue events without waiting; a pool of workers         *)
(* publishes them to Valkey, each attempt bounded by a timeout.  On a      *)
(* signal, main drains the HTTP server for at most ShutdownTimeout, cancels *)
(* the services' context and waits at most ShutdownGraceTimeout for them.  *)
(* Events are numbered in the order enqueue is called.                     *)
(***************************************************************************)
EXTENDS Integers, Sequences, FiniteSets

CONSTANTS
  Handlers,   \* HTTP requests that run concurrently
  Workers,    \* cfg.GatewayPublishWorkers
  QueueSize,  \* cfg.GatewayPublishQueueSize
  MaxEvents,  \* bound: events enqueued
  None

\* Config.validate refuses fewer than one worker and an empty queue.
ASSUME PublisherAssumption ==
  /\ Workers # {}
  /\ QueueSize \in Nat \ {0}
  /\ MaxEvents \in Nat
  /\ None \notin Int

VARIABLES
  stage,      \* main: serving, draining, drained, cancelled, stopped
  handler,    \* per handler: idle, handling, or panicked
  checked,    \* the event a handler has passed the closed check with, or None
  made,       \* events handed to enqueue so far
  closed,     \* Publisher.closed
  queueOpen,  \* FALSE once close(queue) has run
  queue,      \* Publisher.queue
  run,        \* Publisher.Run: running, closing, waiting, returned
  worker,     \* per worker: the event it is publishing, None, or exited
  accepted,   \* history: the events put into the queue, in order
  published,  \* events Valkey received, in order
  failed,     \* events whose publication failed or timed out
  dropped     \* Publisher.dropped

vars == <<stage, handler, checked, made, closed, queueOpen, queue, run, worker, accepted,
          published, failed, dropped>>

Exited == -1
Events == 1 .. MaxEvents
Elements(s) == {s[i] : i \in DOMAIN s}

Init ==
  /\ stage = "serving"
  /\ handler = [h \in Handlers |-> "idle"]
  /\ checked = [h \in Handlers |-> None]
  /\ made = 0
  /\ closed = FALSE
  /\ queueOpen = TRUE
  /\ queue = <<>>
  /\ run = "running"
  /\ worker = [w \in Workers |-> None]
  /\ accepted = <<>>
  /\ published = <<>>
  /\ failed = {}
  /\ dropped = 0

Alive == stage # "stopped"

\* An operator that stands directly before another and repeats it with one
\* slip (Uncounted, Early, Never) is a variant for mutation
\* checks and no part of the model.

-----------------------------------------------------------------------------
(* Handlers. *)

\* A request arrives; the listener is closed once shutdown begins.
Request(h) ==
  /\ stage = "serving"
  /\ handler[h] = "idle"
  /\ handler' = [handler EXCEPT ![h] = "handling"]
  /\ UNCHANGED <<stage, checked, made, closed, queueOpen, queue, run, worker, accepted,
                 published, failed, dropped>>

\* enqueue, the check of the closed flag.
EnqueueCheck(h) ==
  /\ Alive
  /\ handler[h] = "handling" /\ checked[h] = None
  /\ made < MaxEvents
  /\ made' = made + 1
  /\ \/ closed /\ dropped' = dropped + 1 /\ UNCHANGED checked
     \/ ~closed /\ checked' = [checked EXCEPT ![h] = made + 1] /\ UNCHANGED dropped
  /\ UNCHANGED <<stage, handler, closed, queueOpen, queue, run, worker, accepted, published,
                 failed>>

EnqueueSendUncounted(h) ==
  /\ Alive
  /\ handler[h] = "handling" /\ checked[h] # None
  /\ checked' = [checked EXCEPT ![h] = None]
  /\ IF Len(queue) < QueueSize
     THEN queue' = Append(queue, checked[h]) /\ accepted' = Append(accepted, checked[h])
     ELSE UNCHANGED <<queue, accepted>>
  /\ UNCHANGED <<stage, handler, made, closed, queueOpen, run, worker, published, failed,
                 dropped>>

\* enqueue, the select: a full queue drops; a send on a closed channel panics.
\* No code of the repository recovers a handler's panic, so whether it ends the
\* request or the process is up to the web framework.
EnqueueSend(h) ==
  /\ Alive
  /\ handler[h] = "handling" /\ checked[h] # None
  /\ checked' = [checked EXCEPT ![h] = None]
  /\ \/ /\ ~queueOpen
        /\ handler' = [handler EXCEPT ![h] = "panicked"]
        /\ stage' \in {stage, "stopped"}
        /\ UNCHANGED <<queue, accepted, dropped>>
     \/ /\ queueOpen /\ Len(queue) < QueueSize
        /\ queue' = Append(queue, checked[h])
        /\ accepted' = Append(accepted, checked[h])
        /\ UNCHANGED <<stage, handler, dropped>>
     \/ /\ queueOpen /\ Len(queue) >= QueueSize
        /\ dropped' = dropped + 1
        /\ UNCHANGED <<stage, handler, queue, accepted>>
  /\ UNCHANGED <<made, closed, queueOpen, run, worker, published, failed>>

Respond(h) ==
  /\ Alive
  /\ handler[h] = "handling" /\ checked[h] = None
  /\ handler' = [handler EXCEPT ![h] = "idle"]
  /\ UNCHANGED <<stage, checked, made, closed, queueOpen, queue, run, worker, accepted,
                 published, failed, dropped>>

-----------------------------------------------------------------------------
(* The worker pool. *)

\* for j := range p.queue
Take(w) ==
  /\ Alive
  /\ worker[w] = None /\ queue # <<>>
  /\ worker' = [worker EXCEPT ![w] = Head(queue)]
  /\ queue' = Tail(queue)
  /\ UNCHANGED <<stage, handler, checked, made, closed, queueOpen, run, accepted, published,
                 failed, dropped>>

\* publishWithTimeout: published, or abandoned with a warning.
Publish(w) ==
  /\ Alive
  /\ worker[w] \in Events
  /\ worker' = [worker EXCEPT ![w] = None]
  /\ \/ published' = Append(published, worker[w]) /\ UNCHANGED failed
     \/ failed' = failed \cup {worker[w]} /\ UNCHANGED published
  /\ UNCHANGED <<stage, handler, checked, made, closed, queueOpen, queue, run, accepted,
                 dropped>>

WorkerExitEarly(w) ==
  /\ Alive
  /\ worker[w] = None /\ ~queueOpen
  /\ worker' = [worker EXCEPT ![w] = Exited]
  /\ UNCHANGED <<stage, handler, checked, made, closed, queueOpen, queue, run, accepted,
                 published, failed, dropped>>

\* The range ends when the channel is closed and empty.
WorkerExit(w) ==
  /\ Alive
  /\ worker[w] = None /\ queue = <<>> /\ ~queueOpen
  /\ worker' = [worker EXCEPT ![w] = Exited]
  /\ UNCHANGED <<stage, handler, checked, made, closed, queueOpen, queue, run, accepted,
                 published, failed, dropped>>

-----------------------------------------------------------------------------
(* Run and main. *)

\* Run after cancellation: closed.Store(true), close(queue), wg.Wait().
RunClose ==
  /\ Alive
  /\ run = "running" /\ stage = "cancelled"
  /\ run' = "closing"
  /\ closed' = TRUE
  /\ UNCHANGED <<stage, handler, checked, made, queueOpen, queue, worker, accepted, published,
                 failed, dropped>>

RunCloseQueue ==
  /\ Alive
  /\ run = "closing"
  /\ run' = "waiting"
  /\ queueOpen' = FALSE
  /\ UNCHANGED <<stage, handler, checked, made, closed, queue, worker, accepted, published,
                 failed, dropped>>

RunReturn ==
  /\ Alive
  /\ run = "waiting"
  /\ \A w \in Workers : worker[w] = Exited
  /\ run' = "returned"
  /\ UNCHANGED <<stage, handler, checked, made, closed, queueOpen, queue, worker, accepted,
                 published, failed, dropped>>

StageTo(from, to) ==
  /\ stage = from
  /\ stage' = to
  /\ UNCHANGED <<handler, checked, made, closed, queueOpen, queue, run, worker, accepted,
                 published, failed, dropped>>

\* A signal, or Listen failing: shutdownApp starts.
Signal == StageTo("serving", "draining")

DrainTimeoutNever == FALSE /\ UNCHANGED vars

\* ShutdownWithContext returns: every request is answered, or time is up.
Drained == (\A h \in Handlers : handler[h] # "handling") /\ StageTo("draining", "drained")
DrainTimeout == (\E h \in Handlers : handler[h] = "handling") /\ StageTo("draining", "drained")

\* gatewayHub.Shutdown (GatewaySession), then subCancel.
Cancel == StageTo("drained", "cancelled")

\* The wait group is done, or ShutdownGraceTimeout has passed; run() returns.
Stop == run = "returned" /\ StageTo("cancelled", "stopped")
GraceTimeout == run # "returned" /\ StageTo("cancelled", "stopped")

-----------------------------------------------------------------------------
WorkerStep(w) == Take(w) \/ Publish(w) \/ WorkerExit(w)
RunStep == RunClose \/ RunCloseQueue \/ RunReturn
HandlerStep(h) == Request(h) \/ EnqueueCheck(h) \/ EnqueueSend(h) \/ Respond(h)
MainStep == Signal \/ Drained \/ DrainTimeout \/ Cancel \/ Stop \/ GraceTimeout

Next ==
  \/ \E h \in Handlers : HandlerStep(h)
  \/ \E w \in Workers : WorkerStep(w)
  \/ RunStep
  \/ MainStep

Spec == Init /\ [][Next]_vars

\* Go schedules the workers, Run and main; each publication ends by its
\* timeout, the two shutdown waits by theirs.
Fairness ==
  /\ \A w \in Workers : WF_vars(WorkerStep(w))
  /\ WF_vars(RunStep)
  /\ WF_vars(Drained \/ DrainTimeout \/ Cancel \/ Stop \/ GraceTimeout)

FairSpec == Spec /\ Fairness

-----------------------------------------------------------------------------
\* The type of every variable.
TypeOK ==
  /\ stage \in {"serving", "draining", "drained", "cancelled", "stopped"}
  /\ handler \in [Handlers -> {"idle", "handling", "panicked"}]
  /\ checked \in [Handlers -> Events \cup {None}]
  /\ made \in 0 .. MaxEvents
  /\ closed \in BOOLEAN /\ queueOpen \in BOOLEAN
  /\ queue \in Seq(Events) /\ Len(queue) <= QueueSize
  /\ run \in {"running", "closing", "waiting", "returned"}
  /\ worker \in [Workers -> Events \cup {None, Exited}]
  /\ accepted \in Seq(Events) /\ published \in Seq(Events)
  /\ failed \subseteq Events
  /\ dropped \in Nat

Held == {worker[w] : w \in Workers} \cap Events

\* Nothing enqueue accepted is lost or sent twice between the queue, the
\* workers and Valkey, and the counter Run reports at the end misses no drop:
\* every event is in exactly one place (or its handler panicked).
EveryEventAccounted ==
  /\ Elements(accepted) = Elements(queue) \cup Held \cup Elements(published) \cup failed
  /\ Len(accepted) = Len(queue) + Cardinality(Held) + Len(published) + Cardinality(failed)
  /\ made = Len(accepted) + dropped
            + Cardinality({h \in Handlers : checked[h] # None \/ handler[h] = "panicked"})

\* Run "drains remaining items": when it returns, every accepted event has
\* been tried, and none is accepted afterwards.
DrainedOnReturn ==
  run = "returned" => Elements(accepted) = Elements(published) \cup failed

\* Violated (publisher.go, Enqueue "is safe to call from any goroutine"): no
\* call of enqueue sends on the closed channel.
EnqueueIsSafe == \A h \in Handlers : handler[h] # "panicked"

\* After cancellation the publisher stops and the process ends, whatever the
\* handlers that outlived the drain do.
ShutdownTerminates == stage = "draining" ~> stage = "stopped"
=============================================================================
