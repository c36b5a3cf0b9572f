------------------------------ MODULE EventBus ------------------------------
(***************************************************************************)
(* LowLatencyEventBus (events/bus.py): threads that publish and flush, a   *)
(* bounded queue, workers that take micro-batches from it, and the owner   *)
(* of the bus, which starts and stops the workers.                         *)
(*                                                                         *)
(* A step is what happens between two accesses to shared state: the queue  *)
(* with its count of unfinished tasks (one lock), the counters (another)   *)
(* and the stop event.  Timeouts of flush and join may expire at any time. *)
(* Latency sums, batch counts, the high watermark and the backpressure     *)
(* counter, which nothing here depends on, are left out.                   *)
(***************************************************************************)
EXTENDS Naturals, Sequences, FiniteSets, Functions

CONSTANTS
    Producers,    \* threads that publish
    Flushers,     \* bound of the model: those of them that also flush
    Slots,        \* worker threads, alive or dead; a dead one may be reused
    WorkerCount,  \* worker_count
    QueueSize,    \* queue_size
    BatchSize,    \* batch_size
    MaxEvents     \* bound on the events offered

ASSUME BusAssumption ==
    /\ Flushers \subseteq Producers
    /\ WorkerCount \in Nat \ {0}
    /\ QueueSize \in Nat \ {0}
    /\ BatchSize \in Nat \ {0}
    /\ MaxEvents \in Nat

Events == 1..MaxEvents

VARIABLES
    dropOnFull,   \* _drop_on_full, set when the bus is created
    queue,        \* events in _queue, oldest first
    unfinished,   \* _queue.unfinished_tasks
    stop,         \* the _stop event
    worker,       \* for each thread: where it is, its batch, the events it has dispatched
    workers,      \* _workers: the threads start has listed and stop will join
    producer,     \* for each thread: where it is, its event, what was accepted
                  \* before its flush
    owner,        \* where the owner is in stop
    published, dropped, dispatched,   \* the counters of the same names
    offered,      \* history: events offered so far, numbered in order
    accepted,     \* history: events the queue has taken
    handled       \* history: how many times each event was dispatched

queueVars   == <<queue, unfinished, accepted>>
counters    == <<published, dropped, dispatched>>
controlVars == <<stop, workers, owner, dropOnFull>>
vars == <<queueVars, counters, controlVars, worker, producer, offered, handled>>

IdleProducer == [at |-> "idle", event |-> 0, before |-> {}]
DeadWorker   == [at |-> "dead", batch |-> <<>>, done |-> 0]

TypeOK ==
    /\ dropOnFull \in BOOLEAN
    /\ queue \in Seq(Events) /\ Len(queue) <= QueueSize
    /\ unfinished \in Nat
    /\ stop \in BOOLEAN
    /\ worker \in [Slots -> [at : {"dead", "check", "look", "get", "fill",
                                   "dispatch", "finish", "account"},
                             batch : Seq(Events), done : 0..BatchSize]]
    /\ workers \subseteq Slots
    /\ producer \in [Producers -> [at : {"idle", "put", "count", "flush", "flushed"},
                                   event : Events \cup {0}, before : SUBSET Events]]
    /\ owner \in {"idle", "join"}
    /\ published \in Nat /\ dropped \in Nat /\ dispatched \in Nat
    /\ offered \in 0..MaxEvents
    /\ accepted \subseteq Events
    /\ handled \in [Events -> Nat]

Init ==
    /\ dropOnFull \in BOOLEAN
    /\ queue = <<>>
    /\ unfinished = 0
    /\ stop = FALSE
    /\ worker = [w \in Slots |-> DeadWorker]
    /\ workers = {}
    /\ producer = [p \in Producers |-> IdleProducer]
    /\ owner = "idle"
    /\ published = 0 /\ dropped = 0 /\ dispatched = 0
    /\ offered = 0
    /\ accepted = {}
    /\ handled = [e \in Events |-> 0]

-----------------------------------------------------------------------------
(* publish_many, one event at a time, and flush *)

Full == Len(queue) >= QueueSize

Publish(p) ==
    /\ producer[p].at = "idle"
    /\ offered < MaxEvents
    /\ offered' = offered + 1
    /\ producer' = [producer EXCEPT ![p] = [IdleProducer EXCEPT !.at = "put",
                                                                !.event = offered + 1]]
    /\ UNCHANGED <<queueVars, counters, controlVars, worker, handled>>

\* put_nowait or put: without drop_on_full, a full queue blocks the thread.
Put(p) ==
    /\ producer[p].at = "put"
    /\ ~Full
    /\ queue' = Append(queue, producer[p].event)
    /\ unfinished' = unfinished + 1
    /\ accepted' = accepted \cup {producer[p].event}
    /\ producer' = [producer EXCEPT ![p].at = "count"]
    /\ UNCHANGED <<counters, controlVars, worker, offered, handled>>

Drop(p) ==
    /\ producer[p].at = "put"
    /\ Full
    /\ dropOnFull
    /\ dropped' = dropped + 1
    /\ producer' = [producer EXCEPT ![p] = IdleProducer]
    /\ UNCHANGED <<queueVars, published, dispatched, controlVars, worker, offered, handled>>

CountPublished(p) ==
    /\ producer[p].at = "count"
    /\ published' = published + 1
    /\ producer' = [producer EXCEPT ![p] = IdleProducer]
    /\ UNCHANGED <<queueVars, dropped, dispatched, controlVars, worker, offered, handled>>

Flush(p) ==
    /\ p \in Flushers
    /\ producer[p].at = "idle"
    /\ producer' = [producer EXCEPT ![p] = [IdleProducer EXCEPT !.at = "flush",
                                                                !.before = accepted]]
    /\ UNCHANGED <<queueVars, counters, controlVars, worker, offered, handled>>

MutDrained == queue = <<>>
Drained == unfinished = 0

FlushReturnsTrue(p) ==
    /\ producer[p].at = "flush"
    /\ Drained
    /\ producer' = [producer EXCEPT ![p].at = "flushed"]
    /\ UNCHANGED <<queueVars, counters, controlVars, worker, offered, handled>>

\* flush gave up, or its caller goes on after a successful one.
FlushOver(p) ==
    /\ producer[p].at \in {"flush", "flushed"}
    /\ producer' = [producer EXCEPT ![p] = IdleProducer]
    /\ UNCHANGED <<queueVars, counters, controlVars, worker, offered, handled>>

-----------------------------------------------------------------------------
(* _worker_loop *)

\* Workers that leave at a stop whatever is queued, or at an empty queue too.
MutEndsAtStop == IF stop THEN "dead" ELSE "get"
MutEndsWhenEmpty == IF stop THEN "dead" ELSE "look"

AfterCheck == IF stop THEN "look" ELSE "get"

\* The condition of the loop reads the stop event ...
WorkerChecks(w) ==
    /\ worker[w].at = "check"
    /\ worker' = [worker EXCEPT ![w].at = AfterCheck]
    /\ UNCHANGED <<queueVars, counters, controlVars, producer, offered, handled>>

\* ... and, if it was set, the queue, whatever became of either in between.
WorkerLooks(w) ==
    /\ worker[w].at = "look"
    /\ worker' = [worker EXCEPT ![w].at = IF queue = <<>> THEN "dead" ELSE "get"]
    /\ UNCHANGED <<queueVars, counters, controlVars, producer, offered, handled>>

\* get: the first event of a batch, or back to the check when it times out.
WorkerGets(w) ==
    /\ worker[w].at = "get"
    /\ IF queue = <<>>
       THEN worker' = [worker EXCEPT ![w].at = "check"] /\ UNCHANGED queue
       ELSE /\ worker' = [worker EXCEPT ![w] = [at |-> "fill", batch |-> <<Head(queue)>>,
                                                done |-> 0]]
            /\ queue' = Tail(queue)
    /\ UNCHANGED <<unfinished, accepted, counters, controlVars, producer, offered, handled>>

MutAfterFill == queue
AfterFill == Tail(queue)

\* get_nowait, up to batch_size events.
WorkerFills(w) ==
    /\ worker[w].at = "fill"
    /\ IF queue = <<>> \/ Len(worker[w].batch) = BatchSize
       THEN worker' = [worker EXCEPT ![w].at = "dispatch"] /\ UNCHANGED queue
       ELSE /\ worker' = [worker EXCEPT ![w].batch = Append(@, Head(queue))]
            /\ queue' = AfterFill
    /\ UNCHANGED <<unfinished, accepted, counters, controlVars, producer, offered, handled>>

\* super().publish: the handlers run; what they raise is caught and counted.
WorkerDispatches(w) ==
    /\ worker[w].at = "dispatch"
    /\ handled' = [handled EXCEPT ![Head(worker[w].batch)] = @ + 1]
    /\ worker' = [worker EXCEPT ![w].at = "finish"]
    /\ UNCHANGED <<queueVars, counters, controlVars, producer, offered>>

Rest(w) == Tail(worker[w].batch)

\* The finally clause: count the event and call task_done.
WorkerFinishes(w) ==
    /\ worker[w].at = "finish"
    /\ unfinished' = unfinished - 1
    /\ worker' = [worker EXCEPT ![w] = [at    |-> IF Rest(w) = <<>> THEN "account" ELSE "dispatch",
                                        batch |-> Rest(w),
                                        done  |-> @.done + 1]]
    /\ UNCHANGED <<queue, accepted, counters, controlVars, producer, offered, handled>>

DispatchedBy(w) == dispatched + worker[w].done

WorkerAccounts(w) ==
    /\ worker[w].at = "account"
    /\ dispatched' = DispatchedBy(w)
    /\ worker' = [worker EXCEPT ![w] = [DeadWorker EXCEPT !.at = "check"]]
    /\ UNCHANGED <<queueVars, published, dropped, controlVars, producer, offered, handled>>

-----------------------------------------------------------------------------
(* start and stop *)

\* start, unless workers are listed: those of a stop that timed out may still run.
Start ==
    /\ owner = "idle"
    /\ workers = {}
    /\ stop' = FALSE
    /\ \E new \in SUBSET Slots :
          /\ Cardinality(new) = WorkerCount
          /\ \A w \in new : worker[w].at = "dead"
          /\ worker' = [w \in Slots |-> IF w \in new THEN [DeadWorker EXCEPT !.at = "check"]
                                                     ELSE worker[w]]
          /\ workers' = new
    /\ UNCHANGED <<queueVars, counters, owner, dropOnFull, producer, offered, handled>>

\* stop sets the event after a flush whose answer it does not look at, so at any
\* moment; then it joins the workers, which may time out, and forgets them.
OwnerGoes(from, to) == owner = from /\ owner' = to

Stop ==
    /\ OwnerGoes("idle", "join")
    /\ stop' = TRUE
    /\ UNCHANGED <<queueVars, counters, workers, dropOnFull, worker, producer, offered, handled>>

StopJoined ==
    /\ OwnerGoes("join", "idle")
    /\ workers' = {}
    /\ UNCHANGED <<queueVars, counters, stop, dropOnFull, worker, producer, offered, handled>>

-----------------------------------------------------------------------------
Producer(p) == Publish(p) \/ Put(p) \/ Drop(p) \/ CountPublished(p)
                  \/ Flush(p) \/ FlushReturnsTrue(p) \/ FlushOver(p)

Worker(w) == WorkerChecks(w) \/ WorkerLooks(w) \/ WorkerGets(w) \/ WorkerFills(w)
                \/ WorkerDispatches(w) \/ WorkerFinishes(w) \/ WorkerAccounts(w)

Owner == Start \/ Stop \/ StopJoined

Next == \/ \E p \in Producers : Producer(p)
        \/ \E w \in Slots : Worker(w)
        \/ Owner

Spec == Init /\ [][Next]_vars

\* Workers run and handlers return; a free place in the queue is taken by one of
\* the threads in put.  Which one is open: queue.Queue.put lets a later thread
\* overtake one that waits, again and again.
FairSpec == /\ Spec
            /\ \A w \in Slots : WF_vars(Worker(w))
            /\ WF_vars(\E p \in Producers : Put(p))

-----------------------------------------------------------------------------
(* Properties *)

Alive(w) == worker[w].at # "dead"

\* flush returns True only when every event accepted before it has been handled.
FlushedMeansHandled ==
    \A p \in Producers : producer[p].at = "flushed" =>
        \A e \in producer[p].before : handled[e] = 1

\* Every accepted event is handled at most once: the bus implements
\* EventDelivery, also with workers of an earlier start still running.
Delivery == INSTANCE EventDelivery
DeliverySpec == Delivery!Spec

\* A queued event is handled as long as some worker lives when it is there: a
\* worker leaves only an empty queue behind.
QueuedIsHandled ==
    \A e \in Events : (e \in Range(queue) /\ \E w \in Slots : Alive(w)) ~> handled[e] > 0

\* Threads wait in put, of a bus that was started and not stopped since and that
\* blocks when it is full.
Blocked == /\ \E p \in Producers : producer[p].at = "put"
           /\ ~dropOnFull /\ ~stop /\ workers # {}

\* While publishers wait at a running bus, not all of them are stuck: the queue
\* goes on taking events.
PublishingProgresses == <>[]Blocked => []<><<\E p \in Producers : Put(p)>>_vars

=============================================================================
