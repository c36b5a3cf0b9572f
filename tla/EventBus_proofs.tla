-------------------------- MODULE EventBus_proofs --------------------------
(***************************************************************************)
(* Proofs about EventBus for every value of its constants: any sets of     *)
(* publishers and worker threads, any number of workers per start, any     *)
(* sizes of the queue and of the batches, any number of events.            *)
(***************************************************************************)
EXTENDS EventBus, FiniteSetTheorems, TLAPS

-----------------------------------------------------------------------------
(* Events in a queue or a batch: Range is the set of them.                 *)

\* No event is there twice.
Distinct(s) == \A i, j \in 1..Len(s) : s[i] = s[j] => i = j

LEMMA EmptyRange == Range(<<>>) = {} /\ Distinct(<<>>)
BY DEF Range, Distinct

LEMMA RangeType == ASSUME NEW T, NEW s \in Seq(T) PROVE Range(s) \subseteq T
BY DEF Range

\* Appending an event adds it and keeps a sequence without it distinct.
LEMMA AppendRange ==
    ASSUME NEW T, NEW s \in Seq(T), NEW e \in T
    PROVE  /\ Append(s, e) \in Seq(T) /\ Append(s, e) # <<>>
           /\ Len(Append(s, e)) = Len(s) + 1
           /\ Range(Append(s, e)) = Range(s) \cup {e}
           /\ Distinct(s) /\ e \notin Range(s) => Distinct(Append(s, e))
           /\ s # <<>> => Head(Append(s, e)) = Head(s)
<1> DEFINE t == Append(s, e)
<1>1. /\ t \in Seq(T) /\ Len(t) = Len(s) + 1 /\ t[Len(t)] = e
      /\ \A i \in 1..Len(s) : t[i] = s[i]
      /\ DOMAIN t = 1..Len(t) /\ DOMAIN s = 1..Len(s) /\ Len(s) \in Nat
    OBVIOUS
<1> HIDE DEF t
<1>2. Range(t) = Range(s) \cup {e}
  <2>1. ASSUME NEW x \in Range(t) PROVE x \in Range(s) \cup {e}
    <3>1. PICK i \in 1..Len(t) : x = t[i]
        BY <1>1, <2>1 DEF Range
    <3> QED
        BY <1>1, <3>1 DEF Range
  <2>2. ASSUME NEW x \in Range(s) \cup {e} PROVE x \in Range(t)
    <3>1. CASE x = e
        BY <1>1, <3>1 DEF Range
    <3>2. CASE x \in Range(s)
      <4>1. PICK i \in 1..Len(s) : x = s[i]
          BY <1>1, <3>2 DEF Range
      <4> QED
          BY <1>1, <4>1 DEF Range
    <3> QED
        BY <3>1, <3>2, <2>2
  <2> QED
      BY <2>1, <2>2
<1>3. Distinct(s) /\ e \notin Range(s) => Distinct(t)
    BY <1>1 DEF Distinct, Range
<1>4. t # <<>> /\ (s # <<>> => Head(t) = Head(s))
    BY <1>1
<1> QED
    BY <1>1, <1>2, <1>3, <1>4 DEF t

\* Taking the first event removes it, and only it when no event is there twice.
LEMMA TailRange ==
    ASSUME NEW T, NEW s \in Seq(T), s # <<>>, Distinct(s)
    PROVE  /\ Head(s) \in Range(s) /\ Head(s) \in T
           /\ Tail(s) \in Seq(T) /\ Len(Tail(s)) = Len(s) - 1
           /\ Range(Tail(s)) = Range(s) \ {Head(s)}
           /\ Distinct(Tail(s))
<1> DEFINE t == Tail(s)
<1>1. /\ t \in Seq(T) /\ Len(t) = Len(s) - 1 /\ Len(s) \in Nat /\ Len(s) > 0
      /\ \A i \in 1..Len(t) : t[i] = s[i + 1]
      /\ Head(s) = s[1] /\ s[1] \in T
      /\ DOMAIN t = 1..Len(t) /\ DOMAIN s = 1..Len(s)
    OBVIOUS
<1> HIDE DEF t
<1>2. Range(t) = Range(s) \ {s[1]}
  <2>1. ASSUME NEW x \in Range(t) PROVE x \in Range(s) \ {s[1]}
    <3>1. PICK i \in 1..Len(t) : x = t[i]
        BY <1>1, <2>1 DEF Range
    <3>2. i + 1 \in 1..Len(s) /\ x = s[i + 1] /\ i + 1 # 1
        BY <1>1, <3>1
    <3>3. x # s[1]
        BY <1>1, <3>2 DEF Distinct
    <3>4. x \in Range(s)
        BY <1>1, <3>2 DEF Range
    <3> QED
        BY <3>3, <3>4
  <2>2. ASSUME NEW x \in Range(s) \ {s[1]} PROVE x \in Range(t)
    <3>1. PICK i \in 1..Len(s) : x = s[i]
        BY <1>1, <2>2 DEF Range
    <3>2. i - 1 \in 1..Len(t) /\ t[i - 1] = s[(i - 1) + 1]
        BY <1>1, <2>2, <3>1
    <3>3. x = t[i - 1]
        BY <3>1, <3>2
    <3> QED
        BY <1>1, <3>2, <3>3 DEF Range
  <2> QED
      BY <2>1, <2>2
<1>3. Distinct(t)
  <2> SUFFICES ASSUME NEW i \in 1..Len(t), NEW j \in 1..Len(t), t[i] = t[j] PROVE i = j
      BY DEF Distinct
  <2>1. i + 1 \in 1..Len(s) /\ j + 1 \in 1..Len(s) /\ s[i + 1] = s[j + 1]
      BY <1>1
  <2>2. i + 1 = j + 1
      BY <2>1 DEF Distinct
  <2> QED
      BY <2>2
<1>4. Head(s) \in Range(s)
    BY <1>1 DEF Range
<1> QED
    BY <1>1, <1>2, <1>3, <1>4 DEF t

-----------------------------------------------------------------------------
(* Type correctness; unfinished follows from what it counts, below         *)

WorkerType == [at : {"dead", "check", "look", "get", "fill", "dispatch", "finish", "account"},
               batch : Seq(Events), done : 0..BatchSize]
ProducerType == [at : {"idle", "put", "count", "flush", "flushed"},
                 event : Events \cup {0}, before : SUBSET Events]

\* TypeOK but for unfinished.
BusTypes ==
    /\ dropOnFull \in BOOLEAN
    /\ queue \in Seq(Events) /\ Len(queue) <= QueueSize
    /\ stop \in BOOLEAN
    /\ worker \in [Slots -> WorkerType]
    /\ workers \subseteq Slots
    /\ producer \in [Producers -> ProducerType]
    /\ owner \in {"idle", "join"}
    /\ published \in Nat /\ dropped \in Nat /\ dispatched \in Nat
    /\ offered \in 0..MaxEvents
    /\ accepted \subseteq Events
    /\ handled \in [Events -> Nat]

\* A worker has a batch exactly while it fills or dispatches one, and what it has
\* taken together with what it has done fits a batch.
BatchShape(b) ==
    /\ b.at \in {"fill", "dispatch", "finish"} <=> b.batch # <<>>
    /\ b.at # "account" => Len(b.batch) + b.done <= BatchSize
    /\ b.at = "fill" => b.done = 0

\* A thread in put has an event to put.
HasEvent(p) == producer[p].at = "put" => producer[p].event \in 1..offered

TypeInv == /\ BusTypes
           /\ \A w \in Slots : BatchShape(worker[w])
           /\ \A p \in Producers : HasEvent(p)

LEMMA StepsOfProducer ==
    ASSUME NEW p \in Producers, Producer(p)
    PROVE  UNCHANGED <<controlVars, worker, handled, dispatched>>
BY DEF Producer, Publish, Put, Drop, CountPublished, Flush, FlushReturnsTrue, FlushOver,
       counters

LEMMA StepsOfWorker ==
    ASSUME NEW w \in Slots, Worker(w)
    PROVE  UNCHANGED <<accepted, published, dropped, controlVars, producer, offered>>
BY DEF Worker, WorkerChecks, WorkerLooks, WorkerGets, WorkerFills, WorkerDispatches,
       WorkerFinishes, WorkerAccounts, counters, queueVars

LEMMA StepsOfOwner ==
    ASSUME Owner
    PROVE  UNCHANGED <<queueVars, counters, dropOnFull, producer, offered, handled>>
BY DEF Owner, Start, Stop, StopJoined

LEMMA ProducerTypes ==
    ASSUME TypeInv, NEW p \in Producers, Producer(p)
    PROVE  TypeInv'
<1> USE DEF TypeInv
<1>0. UNCHANGED <<controlVars, worker, handled, dispatched>>
    BY StepsOfProducer
<1>1. /\ producer \in [Producers -> ProducerType] /\ accepted \subseteq Events
      /\ offered \in 0..MaxEvents /\ MaxEvents \in Nat /\ QueueSize \in Nat
      /\ queue \in Seq(Events) /\ Len(queue) <= QueueSize
      /\ published \in Nat /\ dropped \in Nat
    BY BusAssumption DEF BusTypes
<1>2. IdleProducer \in ProducerType /\ IdleProducer.at = "idle"
    BY DEF IdleProducer, ProducerType
<1>3. SUFFICES /\ producer' \in [Producers -> ProducerType] /\ accepted' \subseteq Events
               /\ offered' \in 0..MaxEvents
               /\ queue' \in Seq(Events) /\ Len(queue') <= QueueSize
               /\ published' \in Nat /\ dropped' \in Nat
               /\ \A r \in Producers : HasEvent(r)'
    BY <1>0, <1>3 DEF BusTypes, controlVars, BatchShape
<1> USE DEF HasEvent
<1>4. CASE Publish(p)
  <2>1. offered' = offered + 1 /\ offered + 1 \in Events
      BY <1>1, <1>4 DEF Publish, Events
  <2>2. /\ producer' = [producer EXCEPT ![p] = [IdleProducer EXCEPT !.at = "put", !.event = offered + 1]]
        /\ [IdleProducer EXCEPT !.at = "put", !.event = offered + 1] \in ProducerType
      BY <1>4, <2>1 DEF Publish, ProducerType, IdleProducer
  <2>3. producer' \in [Producers -> ProducerType]
      BY <1>1, <2>2
  <2>4. producer'[p].event = offered + 1
      BY <1>1, <2>2 DEF IdleProducer
  <2>5. \A r \in Producers \ {p} : producer'[r] = producer[r]
      BY <1>1, <2>2
  <2>6. \A r \in Producers : HasEvent(r)'
      BY <1>1, <2>1, <2>4, <2>5
  <2> QED
      BY <1>1, <1>4, <2>1, <2>3, <2>6 DEF Publish, Events, queueVars, counters
<1>5. CASE Put(p)
  <2>1. producer[p].event \in Events
      BY <1>1, <1>5 DEF Put, Events
  <2>2. queue' \in Seq(Events) /\ Len(queue') <= QueueSize
      BY <1>1, <1>5, <2>1, AppendRange DEF Put, Full
  <2>3. producer' \in [Producers -> ProducerType] /\ producer'[p].at = "count"
      BY <1>1, <1>5 DEF Put, ProducerType
  <2>4. \A r \in Producers \ {p} : producer'[r] = producer[r]
      BY <1>1, <1>5 DEF Put
  <2> QED
      BY <1>1, <1>5, <2>1, <2>2, <2>3, <2>4 DEF Put, counters
<1>6. CASE Drop(p) \/ CountPublished(p) \/ FlushOver(p)
  <2>1. producer' = [producer EXCEPT ![p] = IdleProducer]
      BY <1>6 DEF Drop, CountPublished, FlushOver
  <2>2. producer' \in [Producers -> ProducerType] /\ producer'[p].at = "idle"
      BY <1>1, <1>2, <2>1
  <2>3. \A r \in Producers \ {p} : producer'[r] = producer[r]
      BY <1>1, <2>1
  <2> QED
      BY <1>1, <1>6, <2>2, <2>3 DEF Drop, CountPublished, FlushOver, counters, queueVars
<1>7. CASE Flush(p) \/ FlushReturnsTrue(p)
  <2>1. producer' \in [Producers -> ProducerType] /\ producer'[p].at \in {"flush", "flushed"}
    <3>1. CASE Flush(p)
        BY <1>1, <3>1 DEF Flush, IdleProducer, ProducerType
    <3>2. CASE FlushReturnsTrue(p)
        BY <1>1, <3>2 DEF FlushReturnsTrue, ProducerType
    <3> QED
        BY <1>7, <3>1, <3>2
  <2>3. \A r \in Producers \ {p} : producer'[r] = producer[r]
      BY <1>1, <1>7 DEF Flush, FlushReturnsTrue
  <2> QED
      BY <1>1, <1>7, <2>1, <2>3 DEF Flush, FlushReturnsTrue, counters, queueVars
<1> QED
    BY <1>4, <1>5, <1>6, <1>7 DEF Producer

\* One worker moves: the others keep what they have.
LEMMA WorkerMoves ==
    ASSUME TypeInv, NEW w \in Slots, NEW b \in WorkerType, BatchShape(b),
           worker' = [worker EXCEPT ![w] = b]
    PROVE  /\ worker' \in [Slots -> WorkerType] /\ \A v \in Slots : BatchShape(worker'[v])
           /\ worker'[w] = b /\ \A v \in Slots \ {w} : worker'[v] = worker[v]
<1>1. worker \in [Slots -> WorkerType]
    BY DEF TypeInv, BusTypes
<1>2. /\ worker' \in [Slots -> WorkerType]
      /\ worker'[w] = b /\ \A v \in Slots \ {w} : worker'[v] = worker[v]
    BY <1>1
<1>3. \A v \in Slots : BatchShape(worker'[v])
    BY <1>2 DEF TypeInv
<1> QED
    BY <1>2, <1>3

LEMMA HeadTail ==
    ASSUME NEW T, NEW s \in Seq(T), s # <<>>
    PROVE  /\ Head(s) \in T /\ Tail(s) \in Seq(T)
           /\ Len(s) \in Nat /\ Len(s) > 0 /\ Len(Tail(s)) = Len(s) - 1
OBVIOUS

\* A worker about to look at the stop event has nothing in hand.
LEMMA CheckingWorker ==
    /\ [DeadWorker EXCEPT !.at = "check"] = [at |-> "check", batch |-> <<>>, done |-> 0]
    /\ [DeadWorker EXCEPT !.at = "check"] \in WorkerType
    /\ BatchShape([DeadWorker EXCEPT !.at = "check"])
<1> DEFINE b == [at |-> "check", batch |-> <<>>, done |-> 0]
<1>1. [DeadWorker EXCEPT !.at = "check"] = b
    BY DEF DeadWorker
<1>2. BatchSize \in Nat /\ <<>> \in Seq(Events) /\ Len(<<>>) = 0
    BY BusAssumption
<1>3. b \in WorkerType
    BY <1>2 DEF WorkerType
<1>4. BatchShape(b)
    BY <1>2 DEF BatchShape
<1> QED
    BY <1>1, <1>3, <1>4

LEMMA WorkerTypes ==
    ASSUME TypeInv, NEW w \in Slots, Worker(w)
    PROVE  TypeInv'
<1> USE DEF TypeInv
<1>0. UNCHANGED <<accepted, published, dropped, controlVars, producer, offered>>
    BY StepsOfWorker
<1>1. /\ worker[w] \in WorkerType /\ BatchShape(worker[w])
      /\ queue \in Seq(Events) /\ Len(queue) <= QueueSize /\ Len(queue) \in Nat
      /\ QueueSize \in Nat /\ BatchSize \in Nat /\ 1 <= BatchSize
      /\ dispatched \in Nat /\ handled \in [Events -> Nat]
      /\ worker[w].batch \in Seq(Events) /\ worker[w].done \in 0..BatchSize
      /\ worker \in [Slots -> WorkerType]
    BY BusAssumption DEF BusTypes, WorkerType
<1>2. SUFFICES ASSUME TRUE
               PROVE /\ queue' \in Seq(Events) /\ Len(queue') <= QueueSize
                     /\ dispatched' \in Nat /\ handled' \in [Events -> Nat]
                     /\ \E b \in WorkerType : BatchShape(b) /\ worker' = [worker EXCEPT ![w] = b]
  <2>1. PICK b \in WorkerType : BatchShape(b) /\ worker' = [worker EXCEPT ![w] = b]
      BY <1>2
  <2>2. worker' \in [Slots -> WorkerType] /\ \A v \in Slots : BatchShape(worker'[v])
      BY <2>1, WorkerMoves
  <2> QED
      BY <1>0, <1>2, <2>2 DEF BusTypes, controlVars, HasEvent
<1>3. CASE WorkerChecks(w) \/ WorkerLooks(w)
  <2>1. PICK at \in {"dead", "look", "get"} : worker' = [worker EXCEPT ![w].at = at]
      BY <1>3 DEF WorkerChecks, WorkerLooks, AfterCheck
  <2> DEFINE b == [worker[w] EXCEPT !.at = at]
  <2>2. b \in WorkerType /\ BatchShape(b)
      BY <1>1, <1>3 DEF WorkerChecks, WorkerLooks, WorkerType, BatchShape
  <2>3. worker' = [worker EXCEPT ![w] = b]
      BY <1>1, <2>1
  <2> QED
      BY <1>1, <1>3, <2>2, <2>3 DEF WorkerChecks, WorkerLooks, queueVars, counters
<1>4. CASE WorkerGets(w)
  <2>1. UNCHANGED <<dispatched, handled>>
      BY <1>4 DEF WorkerGets, counters
  <2>2. CASE queue = <<>>
    <3> DEFINE b == [worker[w] EXCEPT !.at = "check"]
    <3>1. b \in WorkerType /\ BatchShape(b)
        BY <1>1, <1>4 DEF WorkerGets, WorkerType, BatchShape
    <3>2. worker' = [worker EXCEPT ![w] = b] /\ queue' = queue
        BY <1>1, <1>4, <2>2 DEF WorkerGets
    <3> QED
        BY <1>1, <2>1, <3>1, <3>2
  <2>3. CASE queue # <<>>
    <3> DEFINE b == [at |-> "fill", batch |-> <<Head(queue)>>, done |-> 0]
    <3>1. Head(queue) \in Events /\ Tail(queue) \in Seq(Events) /\ Len(Tail(queue)) <= QueueSize
        BY <1>1, <2>3, HeadTail
    <3>2. b \in WorkerType /\ BatchShape(b)
        BY <1>1, <3>1 DEF WorkerType, BatchShape
    <3>3. worker' = [worker EXCEPT ![w] = b] /\ queue' = Tail(queue)
        BY <1>4, <2>3 DEF WorkerGets
    <3> QED
        BY <1>1, <2>1, <3>1, <3>2, <3>3
  <2> QED
      BY <2>2, <2>3
<1>5. CASE WorkerFills(w)
  <2>1. UNCHANGED <<dispatched, handled>> /\ worker[w].at = "fill" /\ worker[w].batch # <<>>
        /\ Len(worker[w].batch) \in Nat /\ Len(worker[w].batch) <= BatchSize
      BY <1>1, <1>5 DEF WorkerFills, counters, BatchShape
  <2>2. CASE queue = <<>> \/ Len(worker[w].batch) = BatchSize
    <3> DEFINE b == [worker[w] EXCEPT !.at = "dispatch"]
    <3>1. b \in WorkerType /\ BatchShape(b)
        BY <1>1, <2>1 DEF WorkerType, BatchShape
    <3>2. worker' = [worker EXCEPT ![w] = b] /\ queue' = queue
        BY <1>1, <1>5, <2>2 DEF WorkerFills
    <3> QED
        BY <1>1, <2>1, <3>1, <3>2
  <2>3. CASE queue # <<>> /\ Len(worker[w].batch) # BatchSize
    <3> DEFINE more == Append(worker[w].batch, Head(queue))
               b == [worker[w] EXCEPT !.batch = more]
    <3>1. Head(queue) \in Events /\ Tail(queue) \in Seq(Events) /\ Len(Tail(queue)) <= QueueSize
        BY <1>1, <2>3, HeadTail
    <3>0. \A s \in Seq(Events), e \in Events :
             Append(s, e) \in Seq(Events) /\ Append(s, e) # <<>> /\ Len(Append(s, e)) = Len(s) + 1
        BY AppendRange
    <3>2. more \in Seq(Events) /\ more # <<>> /\ Len(more) = Len(worker[w].batch) + 1
        BY <1>1, <3>0, <3>1
    <3> HIDE DEF more
    <3>3. b \in WorkerType
        BY <1>1, <3>2 DEF WorkerType
    <3>4. BatchShape(b)
        BY <1>1, <2>1, <2>3, <3>2 DEF WorkerType, BatchShape
    <3>5. worker' = [worker EXCEPT ![w] = b] /\ queue' = Tail(queue)
        BY <1>1, <1>5, <2>3 DEF WorkerFills, AfterFill, more
    <3> QED
        BY <1>1, <2>1, <3>1, <3>3, <3>4, <3>5
  <2> QED
      BY <2>2, <2>3
<1>6. CASE WorkerDispatches(w)
  <2> DEFINE b == [worker[w] EXCEPT !.at = "finish"]
  <2>1. b \in WorkerType /\ BatchShape(b)
      BY <1>1, <1>6 DEF WorkerDispatches, WorkerType, BatchShape
  <2>0. Head(worker[w].batch) \in Events
      BY <1>1, <1>6, HeadTail DEF WorkerDispatches, BatchShape
  <2>2. worker' = [worker EXCEPT ![w] = b]
      BY <1>1, <1>6 DEF WorkerDispatches
  <2>3. handled' \in [Events -> Nat]
      BY <1>1, <1>6, <2>0 DEF WorkerDispatches
  <2> QED
      BY <1>1, <1>6, <2>1, <2>2, <2>3 DEF WorkerDispatches, queueVars, counters
<1>7. CASE WorkerFinishes(w)
  <2> DEFINE b == [at    |-> IF Rest(w) = <<>> THEN "account" ELSE "dispatch",
                   batch |-> Rest(w), done |-> worker[w].done + 1]
  <2>1. worker[w].at = "finish" /\ worker[w].batch # <<>>
      BY <1>1, <1>7 DEF WorkerFinishes, BatchShape
  <2>2. /\ Rest(w) \in Seq(Events) /\ Len(Rest(w)) = Len(worker[w].batch) - 1
        /\ Len(worker[w].batch) \in Nat /\ Len(worker[w].batch) > 0
      BY <1>1, <2>1, HeadTail DEF Rest
  <2>3. Len(worker[w].batch) + worker[w].done <= BatchSize
      BY <1>1, <2>1 DEF BatchShape
  <2>4. b \in WorkerType /\ BatchShape(b)
      BY <1>1, <2>2, <2>3 DEF WorkerType, BatchShape
  <2>5. worker' = [worker EXCEPT ![w] = b]
      BY <1>1, <1>7 DEF WorkerFinishes
  <2> QED
      BY <1>1, <1>7, <2>4, <2>5 DEF WorkerFinishes, counters
<1>8. CASE WorkerAccounts(w)
  <2> DEFINE b == [DeadWorker EXCEPT !.at = "check"]
  <2>1. b \in WorkerType /\ BatchShape(b)
      BY CheckingWorker
  <2>2. worker' = [worker EXCEPT ![w] = b] /\ dispatched' \in Nat
      BY <1>1, <1>8 DEF WorkerAccounts, DispatchedBy
  <2> QED
      BY <1>1, <1>8, <2>1, <2>2 DEF WorkerAccounts, queueVars
<1> QED
    BY <1>3, <1>4, <1>5, <1>6, <1>7, <1>8 DEF Worker

LEMMA OwnerTypes ==
    ASSUME TypeInv, Owner
    PROVE  TypeInv'
<1> USE DEF TypeInv
<1>0. UNCHANGED <<queueVars, counters, dropOnFull, producer, offered, handled>>
    BY StepsOfOwner
<1>1. SUFFICES /\ stop' \in BOOLEAN /\ workers' \subseteq Slots
               /\ owner' \in {"idle", "join"}
               /\ worker' \in [Slots -> WorkerType] /\ \A w \in Slots : BatchShape(worker'[w])
    BY <1>0, <1>1 DEF BusTypes, queueVars, counters, HasEvent
<1>2. CASE Start
  <2>1. PICK new \in SUBSET Slots :
           /\ worker' = [w \in Slots |-> IF w \in new THEN [DeadWorker EXCEPT !.at = "check"]
                                                     ELSE worker[w]]
           /\ workers' = new
      BY <1>2 DEF Start
  <2>2. [DeadWorker EXCEPT !.at = "check"] \in WorkerType
        /\ BatchShape([DeadWorker EXCEPT !.at = "check"])
      BY CheckingWorker
  <2> QED
      BY <1>2, <2>1, <2>2 DEF Start, BusTypes
<1>3. CASE Stop \/ StopJoined
    BY <1>3 DEF Stop, StopJoined, OwnerGoes, BusTypes
<1> QED
    BY <1>2, <1>3 DEF Owner

LEMMA TypeStep == TypeInv /\ [Next]_vars => TypeInv'
<1> SUFFICES ASSUME TypeInv, [Next]_vars PROVE TypeInv'
    OBVIOUS
<1>1. CASE UNCHANGED vars
    BY <1>1 DEF vars, queueVars, counters, controlVars, TypeInv, BusTypes, HasEvent
<1> QED
    BY <1>1, ProducerTypes, WorkerTypes, OwnerTypes DEF Next

LEMMA TypeInit == Init => TypeInv
<1> SUFFICES ASSUME Init PROVE TypeInv
    OBVIOUS
<1> USE DEF Init
<1>1. DeadWorker \in WorkerType /\ BatchShape(DeadWorker)
    BY BusAssumption DEF DeadWorker, WorkerType, BatchShape
<1>2. IdleProducer \in ProducerType /\ IdleProducer.at = "idle"
    BY DEF IdleProducer, ProducerType
<1>3. /\ queue \in Seq(Events) /\ Len(queue) <= QueueSize /\ offered \in 0..MaxEvents
      /\ handled \in [Events -> Nat]
    BY BusAssumption
<1> QED
    BY <1>1, <1>2, <1>3 DEF TypeInv, BusTypes, HasEvent

-----------------------------------------------------------------------------
(* Where the events are *)

\* The events some worker holds, and those not finished yet.
Held == UNION {Range(worker[w].batch) : w \in Slots}
Outstanding == Range(queue) \cup Held

\* No event is in two places, or twice in one.
Places ==
    /\ Distinct(queue)
    /\ \A w \in Slots : /\ Distinct(worker[w].batch)
                        /\ Range(worker[w].batch) \cap Range(queue) = {}
    /\ \A v, w \in Slots : v # w => Range(worker[v].batch) \cap Range(worker[w].batch) = {}

\* Where an event is tells how often it was handled.
HandledOnce ==
    /\ Outstanding \subseteq accepted
    /\ \A e \in Events \ accepted : handled[e] = 0
    /\ \A e \in Range(queue) : handled[e] = 0
    /\ \A w \in Slots : \A e \in Range(worker[w].batch) :
          handled[e] = IF worker[w].at = "finish" /\ e = Head(worker[w].batch) THEN 1 ELSE 0
    /\ \A e \in accepted \ Outstanding : handled[e] = 1

\* unfinished_tasks counts the events that are queued or held.
Counted == unfinished = Cardinality(Outstanding)

\* An event still to be put is new, and its publisher is the only one to have it.
NewEvents ==
    /\ accepted \subseteq 1..offered
    /\ \A p \in Producers : producer[p].at = "put" => producer[p].event \notin accepted
    /\ \A p, q \in Producers : p # q /\ producer[p].at = "put" /\ producer[q].at = "put"
                                => producer[p].event # producer[q].event

\* A flush remembers accepted events, and returns once all of them are handled.
Flushes ==
    \A p \in Producers :
        /\ producer[p].at \in {"flush", "flushed"} => producer[p].before \subseteq accepted
        /\ producer[p].at = "flushed" => \A e \in producer[p].before : handled[e] = 1

DeliveryInv == Places /\ HandledOnce /\ Counted /\ NewEvents /\ Flushes

\* The four things a worker does to the events: nothing, take one from the queue,
\* hand the first of its batch to the handlers, finish with it.
Others(w) == \A v \in Slots \ {w} : worker'[v] = worker[v]

Keeps(w) ==
    /\ UNCHANGED <<queue, unfinished, handled>>
    /\ worker[w].at # "finish" /\ worker'[w].at # "finish"
    /\ worker'[w].batch = worker[w].batch

Takes(w) ==
    /\ UNCHANGED <<unfinished, handled>>
    /\ worker[w].at # "finish" /\ worker'[w].at # "finish"
    /\ queue # <<>> /\ queue' = Tail(queue)
    /\ worker'[w].batch = Append(worker[w].batch, Head(queue))

Handles(w) ==
    /\ UNCHANGED <<queue, unfinished>>
    /\ worker[w].at # "finish" /\ worker'[w].at = "finish"
    /\ worker[w].batch # <<>> /\ worker'[w].batch = worker[w].batch
    /\ handled' = [handled EXCEPT ![Head(worker[w].batch)] = @ + 1]

Finishes(w) ==
    /\ UNCHANGED <<queue, handled>>
    /\ worker[w].at = "finish" /\ worker'[w].at # "finish"
    /\ worker[w].batch # <<>> /\ worker'[w].batch = Tail(worker[w].batch)
    /\ unfinished' = unfinished - 1

LEMMA WorkerCases ==
    ASSUME TypeInv, NEW w \in Slots, Worker(w)
    PROVE  Others(w) /\ (Keeps(w) \/ Takes(w) \/ Handles(w) \/ Finishes(w))
<1>1. /\ worker \in [Slots -> WorkerType] /\ worker[w] \in WorkerType
      /\ BatchShape(worker[w]) /\ queue \in Seq(Events)
    BY DEF TypeInv, BusTypes
<1> USE DEF Others
<1>2. CASE WorkerChecks(w)
    BY <1>1, <1>2 DEF WorkerChecks, AfterCheck, Keeps, queueVars
<1>9. CASE WorkerLooks(w)
    BY <1>1, <1>9 DEF WorkerLooks, Keeps, queueVars
<1>3. CASE WorkerGets(w)
  <2>1. CASE queue = <<>>
    <3>1. worker' = [worker EXCEPT ![w].at = "check"] /\ worker[w].at = "get"
          /\ UNCHANGED <<queue, unfinished, handled>>
        BY <1>3, <2>1 DEF WorkerGets
    <3> QED
        BY <1>1, <3>1 DEF Keeps, WorkerType
  <2>2. CASE queue # <<>>
    <3>1. worker' = [worker EXCEPT ![w] = [at |-> "fill", batch |-> <<Head(queue)>>, done |-> 0]]
        BY <1>3, <2>2 DEF WorkerGets
    <3>2. worker'[w].at = "fill" /\ worker'[w].batch = <<Head(queue)>>
        BY <1>1, <3>1
    <3>3. worker[w].batch = <<>> /\ worker[w].at = "get"
        BY <1>1, <1>3 DEF WorkerGets, BatchShape
    <3>4. worker'[w].batch = Append(worker[w].batch, Head(queue))
        BY <3>2, <3>3
    <3> QED
        BY <1>1, <1>3, <2>2, <3>1, <3>2, <3>3, <3>4 DEF WorkerGets, Takes
  <2> QED
      BY <2>1, <2>2
<1>4. CASE WorkerFills(w)
  <2>1. CASE queue = <<>> \/ Len(worker[w].batch) = BatchSize
    <3>1. worker' = [worker EXCEPT ![w].at = "dispatch"] /\ worker[w].at = "fill"
          /\ UNCHANGED <<queue, unfinished, handled>>
        BY <1>4, <2>1 DEF WorkerFills
    <3> QED
        BY <1>1, <3>1 DEF Keeps, WorkerType
  <2>2. CASE queue # <<>> /\ Len(worker[w].batch) # BatchSize
    <3>1. worker' = [worker EXCEPT ![w].batch = Append(@, Head(queue))]
          /\ queue' = Tail(queue) /\ UNCHANGED <<unfinished, handled>> /\ worker[w].at = "fill"
        BY <1>4, <2>2 DEF WorkerFills, AfterFill
    <3>2. worker'[w].at = "fill" /\ worker'[w].batch = Append(worker[w].batch, Head(queue))
        BY <1>1, <3>1 DEF WorkerType
    <3> QED
        BY <1>1, <2>2, <3>1, <3>2 DEF Takes
  <2> QED
      BY <2>1, <2>2
<1>5. CASE WorkerDispatches(w)
    BY <1>1, <1>5 DEF WorkerDispatches, Handles, queueVars, BatchShape, WorkerType
<1>6. CASE WorkerFinishes(w)
  <2>1. worker' = [worker EXCEPT ![w] = [at    |-> IF Rest(w) = <<>> THEN "account" ELSE "dispatch",
                                        batch |-> Rest(w),
                                        done  |-> worker[w].done + 1]]
      BY <1>1, <1>6 DEF WorkerFinishes
  <2>2. worker'[w].at # "finish" /\ worker'[w].batch = Tail(worker[w].batch)
      BY <1>1, <2>1 DEF Rest
  <2> QED
      BY <1>1, <1>6, <2>1, <2>2 DEF WorkerFinishes, Finishes, BatchShape
<1>7. CASE WorkerAccounts(w)
  <2>1. worker' = [worker EXCEPT ![w] = [at |-> "check", batch |-> <<>>, done |-> 0]]
      BY <1>7, CheckingWorker DEF WorkerAccounts
  <2>2. worker[w].batch = <<>> /\ worker[w].at = "account"
      BY <1>1, <1>7 DEF WorkerAccounts, BatchShape
  <2> QED
      BY <1>1, <1>7, <2>1, <2>2 DEF WorkerAccounts, Keeps, queueVars
<1> QED
    BY <1>2, <1>3, <1>4, <1>5, <1>6, <1>7, <1>9 DEF Worker

\* Held, event by event.
LEMMA HeldBy == ASSUME NEW e PROVE e \in Held <=> \E w \in Slots : e \in Range(worker[w].batch)
BY DEF Held

\* There are finitely many events, hence finitely many outstanding ones.
LEMMA OutstandingFinite ==
    ASSUME TypeInv
    PROVE  Outstanding \subseteq Events /\ IsFiniteSet(Outstanding)
<1>1. Range(queue) \subseteq Events /\ \A w \in Slots : Range(worker[w].batch) \subseteq Events
    BY RangeType DEF TypeInv, BusTypes, WorkerType
<1>2. Outstanding \subseteq Events
    BY <1>1 DEF Outstanding, Held
<1>3. IsFiniteSet(Events)
    BY BusAssumption, FS_Interval DEF Events
<1> QED
    BY <1>2, <1>3, FS_Subset

-----------------------------------------------------------------------------
(* The steps of a worker *)

\* A step that leaves every event where it is, and its count alone.
LEMMA PlacesKept ==
    ASSUME TypeInv, Places, HandledOnce, Counted,
           UNCHANGED <<queue, accepted, unfinished, handled>>,
           \A w \in Slots : /\ worker'[w].batch = worker[w].batch
                            /\ (worker'[w].at = "finish") = (worker[w].at = "finish")
    PROVE  Places' /\ HandledOnce' /\ Counted' /\ Outstanding' = Outstanding
<1>1. Held' = Held /\ Outstanding' = Outstanding
    BY DEF Held, Outstanding
<1>2. Places'
    BY DEF Places
<1>3. HandledOnce'
    BY <1>1 DEF HandledOnce
<1> QED
    BY <1>1, <1>2, <1>3 DEF Counted

\* The facts about the batches and the queue that the cases below start from.
LEMMA PlaceTypes ==
    ASSUME TypeInv, NEW w \in Slots
    PROVE  /\ queue \in Seq(Events) /\ worker[w].batch \in Seq(Events)
           /\ Range(queue) \subseteq Events /\ Range(worker[w].batch) \subseteq Events
           /\ accepted \subseteq Events /\ handled \in [Events -> Nat]
<1>1. queue \in Seq(Events) /\ worker[w] \in WorkerType /\ accepted \subseteq Events
      /\ handled \in [Events -> Nat]
    BY DEF TypeInv, BusTypes
<1>2. worker[w].batch \in Seq(Events)
    BY <1>1 DEF WorkerType
<1> QED
    BY <1>1, <1>2, RangeType

LEMMA TakesKeeps ==
    ASSUME TypeInv, Places, HandledOnce, Counted, NEW w \in Slots,
           Others(w), Takes(w), UNCHANGED accepted
    PROVE  Places' /\ HandledOnce' /\ Counted' /\ Outstanding' = Outstanding
<1> DEFINE e == Head(queue)
           b == worker[w].batch
<1>1. /\ e \in Range(queue) /\ e \in Events /\ Distinct(queue')
      /\ Range(queue') = Range(queue) \ {e}
    BY PlaceTypes, TailRange DEF Takes, Places
<1>2. b \in Seq(Events) /\ Distinct(b) /\ e \notin Range(b)
    BY <1>1, PlaceTypes DEF Places
<1>3. /\ Range(worker'[w].batch) = Range(b) \cup {e} /\ Distinct(worker'[w].batch)
    BY <1>1, <1>2, AppendRange DEF Takes
<1>4. /\ UNCHANGED <<unfinished, handled>>
      /\ worker[w].at # "finish" /\ worker'[w].at # "finish"
      /\ \A v \in Slots \ {w} : worker'[v] = worker[v] /\ e \notin Range(worker[v].batch)
    BY <1>1 DEF Takes, Others, Places
<1> HIDE DEF e, b
<1>5. Range(worker[w].batch) = Range(b)
    BY DEF b
<1>6. Outstanding' = Outstanding
  <2>1. ASSUME NEW x PROVE x \in Outstanding' <=> x \in Outstanding
    <3>1. x \in Held' <=> x \in Held \/ x = e
        BY <1>3, <1>4, <1>5 DEF Held
    <3> QED
        BY <1>1, <3>1 DEF Outstanding
  <2> QED
      BY <2>1
<1>7. Places'
  <2>1. ASSUME NEW v \in Slots PROVE /\ Distinct(worker'[v].batch)
                                     /\ Range(worker'[v].batch) \cap Range(queue') = {}
      BY <1>1, <1>3, <1>4, <1>5 DEF Places
  <2>2. ASSUME NEW v \in Slots, NEW u \in Slots, v # u
        PROVE  Range(worker'[v].batch) \cap Range(worker'[u].batch) = {}
      BY <1>3, <1>4, <1>5, <2>2 DEF Places
  <2> QED
      BY <1>1, <2>1, <2>2 DEF Places
<1>8. HandledOnce'
  <2>1. \A x \in Range(queue') : handled'[x] = 0
      BY <1>1, <1>4 DEF HandledOnce
  <2>2. ASSUME NEW v \in Slots, NEW x \in Range(worker'[v].batch)
        PROVE  handled'[x] = IF worker'[v].at = "finish" /\ x = Head(worker'[v].batch) THEN 1 ELSE 0
    <3>1. CASE v = w
      <4>1. x \in Range(b) \/ x = e
          BY <1>3, <2>2, <3>1
      <4> QED
          BY <1>1, <1>4, <1>5, <3>1, <4>1 DEF HandledOnce
    <3>2. CASE v # w
        BY <1>4, <2>2, <3>2 DEF HandledOnce
    <3> QED
        BY <3>1, <3>2
  <2> QED
      BY <1>4, <1>6, <2>1, <2>2 DEF HandledOnce
<1> QED
    BY <1>4, <1>6, <1>7, <1>8 DEF Counted

LEMMA HandlesKeeps ==
    ASSUME TypeInv, Places, HandledOnce, Counted, NEW w \in Slots,
           Others(w), Handles(w), UNCHANGED accepted
    PROVE  /\ Places' /\ HandledOnce' /\ Counted' /\ Outstanding' = Outstanding
           /\ \E e \in accepted : handled[e] = 0 /\ handled' = [handled EXCEPT ![e] = 1]
<1> DEFINE b == worker[w].batch
           e == Head(b)
<1>1. /\ e \in Range(b) /\ e \in Events
    BY PlaceTypes, TailRange DEF Handles, Places
<1>2. /\ UNCHANGED <<queue, unfinished>>
      /\ worker[w].at # "finish" /\ worker'[w].at = "finish"
      /\ worker'[w].batch = b
      /\ \A v \in Slots \ {w} : worker'[v] = worker[v] /\ e \notin Range(worker[v].batch)
      /\ e \notin Range(queue)
    BY <1>1 DEF Handles, Others, Places
<1>3. handled[e] = 0
    BY <1>1, <1>2 DEF HandledOnce
<1>4. e \in Outstanding /\ e \in accepted
    BY <1>1 DEF Outstanding, Held, HandledOnce
<1>5. handled' = [handled EXCEPT ![e] = 1]
    BY <1>1, <1>3, PlaceTypes DEF Handles
<1>6. handled'[e] = 1 /\ \A x \in Events \ {e} : handled'[x] = handled[x]
    BY <1>1, <1>5, PlaceTypes
<1>7. Held' = Held /\ Outstanding' = Outstanding
  <2>1. \A v \in Slots : worker'[v].batch = worker[v].batch
      BY <1>2
  <2> QED
      BY <1>2, <2>1 DEF Held, Outstanding
<1>8. Places'
  <2>1. \A v \in Slots : worker'[v].batch = worker[v].batch
      BY <1>2
  <2> QED
      BY <1>2, <2>1 DEF Places
<1> HIDE DEF e
<1>9. HandledOnce'
  <2>1. ASSUME NEW v \in Slots, NEW x \in Range(worker'[v].batch)
        PROVE  handled'[x] = IF worker'[v].at = "finish" /\ x = Head(worker'[v].batch) THEN 1 ELSE 0
    <3>0. worker'[v].batch = worker[v].batch /\ x \in Events
        BY <1>2, <2>1, PlaceTypes
    <3>1. CASE v = w
      <4>1. handled[x] = 0
          BY <1>2, <2>1, <3>0, <3>1 DEF HandledOnce
      <4>2. Head(worker'[v].batch) = e
          BY <1>2, <3>1 DEF e
      <4> QED
          BY <1>2, <1>6, <3>0, <3>1, <4>1, <4>2
    <3>2. CASE v # w
      <4>1. x # e /\ worker'[v] = worker[v]
          BY <1>2, <2>1, <3>0, <3>2
      <4>2. handled'[x] = handled[x]
          BY <1>6, <3>0, <4>1
      <4> QED
          BY <2>1, <3>0, <4>1, <4>2 DEF HandledOnce
    <3> QED
        BY <3>1, <3>2
  <2>2. \A x \in Range(queue') : handled'[x] = 0
      BY <1>2, <1>6, PlaceTypes DEF HandledOnce
  <2>3. \A x \in Events \ accepted' : handled'[x] = 0
      BY <1>4, <1>6 DEF HandledOnce
  <2>4. \A x \in accepted' \ Outstanding' : handled'[x] = 1
      BY <1>4, <1>6, <1>7, PlaceTypes DEF HandledOnce
  <2> QED
      BY <1>7, <2>1, <2>2, <2>3, <2>4 DEF HandledOnce
<1> QED
    BY <1>2, <1>3, <1>4, <1>5, <1>7, <1>8, <1>9 DEF Counted

LEMMA FinishesKeeps ==
    ASSUME TypeInv, Places, HandledOnce, Counted, NEW w \in Slots,
           Others(w), Finishes(w), UNCHANGED accepted
    PROVE  Places' /\ HandledOnce' /\ Counted'
<1> DEFINE b == worker[w].batch
           e == Head(b)
<1>1. /\ e \in Range(b) /\ e \in Events
      /\ Range(worker'[w].batch) = Range(b) \ {e} /\ Distinct(worker'[w].batch)
    BY PlaceTypes, TailRange DEF Finishes, Places
<1>2. /\ UNCHANGED <<queue, handled>> /\ unfinished' = unfinished - 1
      /\ worker[w].at = "finish" /\ worker'[w].at # "finish"
      /\ \A v \in Slots \ {w} : worker'[v] = worker[v] /\ e \notin Range(worker[v].batch)
      /\ e \notin Range(queue)
    BY <1>1 DEF Finishes, Others, Places
<1>3. handled[e] = 1 /\ \A x \in Range(b) \ {e} : handled[x] = 0
    BY <1>1, <1>2 DEF HandledOnce
<1>4. e \in Outstanding /\ e \in accepted
    BY <1>1 DEF Outstanding, Held, HandledOnce
<1> HIDE DEF e
<1>5. Outstanding' = Outstanding \ {e}
  <2>1. ASSUME NEW x PROVE x \in Outstanding' <=> x \in Outstanding /\ x # e
    <3>1. x \in Held' <=> x \in Held /\ x # e
        BY <1>1, <1>2 DEF Held
    <3> QED
        BY <1>2, <3>1 DEF Outstanding
  <2> QED
      BY <2>1
<1>6. Places'
  <2>1. ASSUME NEW v \in Slots PROVE /\ Distinct(worker'[v].batch)
                                     /\ Range(worker'[v].batch) \cap Range(queue') = {}
      BY <1>1, <1>2 DEF Places
  <2>2. ASSUME NEW v \in Slots, NEW u \in Slots, v # u
        PROVE  Range(worker'[v].batch) \cap Range(worker'[u].batch) = {}
      BY <1>1, <1>2, <2>2 DEF Places
  <2> QED
      BY <1>2, <2>1, <2>2 DEF Places
<1>7. HandledOnce'
  <2>1. ASSUME NEW v \in Slots, NEW x \in Range(worker'[v].batch)
        PROVE  handled'[x] = IF worker'[v].at = "finish" /\ x = Head(worker'[v].batch) THEN 1 ELSE 0
    <3>1. CASE v = w
        BY <1>1, <1>2, <1>3, <2>1, <3>1
    <3>2. CASE v # w
        BY <1>2, <2>1, <3>2 DEF HandledOnce
    <3> QED
        BY <3>1, <3>2
  <2>2. \A x \in accepted' \ Outstanding' : handled'[x] = 1
      BY <1>2, <1>3, <1>5 DEF HandledOnce
  <2> QED
      BY <1>2, <1>5, <2>1, <2>2 DEF HandledOnce
<1>8. Counted'
  <2>1. IsFiniteSet(Outstanding)
      BY OutstandingFinite
  <2>2. Cardinality(Outstanding') = Cardinality(Outstanding) - 1
      BY <1>4, <1>5, <2>1, FS_RemoveElement
  <2> QED
      BY <1>2, <2>2 DEF Counted
<1> QED
    BY <1>6, <1>7, <1>8

\* A worker handles at most one event, one that was accepted and never handled.
HandlesOne == \/ UNCHANGED handled
              \/ \E e \in accepted : handled[e] = 0 /\ handled' = [handled EXCEPT ![e] = 1]

LEMMA WorkerDelivers ==
    ASSUME TypeInv, DeliveryInv, NEW w \in Slots, Worker(w)
    PROVE  DeliveryInv' /\ HandlesOne /\ UNCHANGED accepted
<1> USE DEF DeliveryInv
<1>1. UNCHANGED <<accepted, producer, offered>>
    BY StepsOfWorker
<1>2. Places' /\ HandledOnce' /\ Counted' /\ HandlesOne
  <2>1. CASE Keeps(w)
    <3>1. \A v \in Slots : /\ worker'[v].batch = worker[v].batch
                           /\ (worker'[v].at = "finish") = (worker[v].at = "finish")
        BY <2>1, WorkerCases DEF Keeps, Others
    <3> QED
        BY <1>1, <2>1, <3>1, PlacesKept DEF Keeps, HandlesOne
  <2>2. CASE Takes(w)
      BY <1>1, <2>2, WorkerCases, TakesKeeps DEF Takes, HandlesOne
  <2>3. CASE Handles(w)
      BY <1>1, <2>3, WorkerCases, HandlesKeeps DEF HandlesOne
  <2>4. CASE Finishes(w)
      BY <1>1, <2>4, WorkerCases, FinishesKeeps DEF Finishes, HandlesOne
  <2> QED
      BY <2>1, <2>2, <2>3, <2>4, WorkerCases
<1>3. NewEvents'
    BY <1>1 DEF NewEvents
<1>4. \A e \in accepted : handled[e] = 1 => handled'[e] = 1
    BY <1>2 DEF HandlesOne, TypeInv, BusTypes
<1>5. Flushes'
    BY <1>1, <1>4 DEF Flushes
<1> QED
    BY <1>1, <1>2, <1>3, <1>5

-----------------------------------------------------------------------------
(* The steps of a publisher *)

LEMMA PutDelivers ==
    ASSUME TypeInv, DeliveryInv, NEW p \in Producers, Put(p)
    PROVE  /\ DeliveryInv'
           /\ \E e \in Events \ accepted : accepted' = accepted \cup {e} /\ UNCHANGED handled
<1> USE DEF DeliveryInv
<1> DEFINE e == producer[p].event
<1>1. /\ e \in 1..offered /\ e \in Events /\ e \notin accepted
      /\ producer[p].at = "put"
  <2>1. producer[p].at = "put"
      BY DEF Put
  <2>2. e \in 1..offered
      BY <2>1 DEF TypeInv, HasEvent
  <2>3. e \in Events
      BY <2>2, BusAssumption DEF TypeInv, BusTypes, Events
  <2> QED
      BY <2>1, <2>2, <2>3 DEF NewEvents
<1>2. /\ queue' = Append(queue, e) /\ unfinished' = unfinished + 1
      /\ accepted' = accepted \cup {e}
      /\ producer' = [producer EXCEPT ![p].at = "count"]
      /\ UNCHANGED <<worker, offered, handled>>
    BY DEF Put
<1>3. e \notin Outstanding
    BY <1>1 DEF HandledOnce
<1>4. /\ Range(queue') = Range(queue) \cup {e} /\ Distinct(queue')
    BY <1>1, <1>2, <1>3, AppendRange DEF TypeInv, BusTypes, Places, Outstanding
<1>5. producer \in [Producers -> ProducerType]
    BY DEF TypeInv, BusTypes
<1>6. /\ producer'[p].at = "count"
      /\ \A r \in Producers \ {p} : producer'[r] = producer[r]
    BY <1>2, <1>5 DEF ProducerType
<1>7. handled \in [Events -> Nat]
    BY DEF TypeInv, BusTypes
<1> HIDE DEF e
<1>8. Outstanding' = Outstanding \cup {e} /\ Held' = Held
  <2>1. Held' = Held
      BY <1>2 DEF Held
  <2>2. Outstanding' = Range(queue') \cup Held'
      BY DEF Outstanding
  <2> QED
      BY <1>4, <2>1, <2>2 DEF Outstanding
<1>9. Places'
  <2>1. \A w \in Slots : e \notin Range(worker[w].batch)
      BY <1>3 DEF Outstanding, Held
  <2>2. \A w \in Slots : worker'[w] = worker[w]
      BY <1>2
  <2> QED
      BY <1>4, <2>1, <2>2 DEF Places
<1>10. HandledOnce'
    BY <1>1, <1>2, <1>3, <1>4, <1>8 DEF HandledOnce
<1>11. Counted'
  <2>1. IsFiniteSet(Outstanding)
      BY OutstandingFinite
  <2>2. Cardinality(Outstanding') = Cardinality(Outstanding) + 1
      BY <1>3, <1>8, <2>1, FS_AddElement
  <2> QED
      BY <1>2, <2>2 DEF Counted
<1>12. NewEvents'
  <2>1. accepted' \subseteq 1..offered'
      BY <1>1, <1>2 DEF NewEvents
  <2>2. ASSUME NEW r \in Producers, producer'[r].at = "put"
        PROVE  r # p /\ producer'[r] = producer[r] /\ producer'[r].event \notin accepted'
    <3>1. r # p /\ producer'[r] = producer[r]
        BY <1>6, <2>2
    <3>2. producer[r].event # e
        BY <1>1, <2>2, <3>1 DEF NewEvents, e
    <3> QED
        BY <1>2, <2>2, <3>1, <3>2 DEF NewEvents
  <2> QED
      BY <2>1, <2>2 DEF NewEvents
<1>13. Flushes'
    BY <1>2, <1>6 DEF Flushes
<1> QED
    BY <1>1, <1>2, <1>9, <1>10, <1>11, <1>12, <1>13

\* Publishing, dropping and flushing leave the events where they are.
LEMMA ProducerDelivers ==
    ASSUME TypeInv, DeliveryInv, NEW p \in Producers, Producer(p), ~Put(p)
    PROVE  DeliveryInv' /\ UNCHANGED <<accepted, handled>>
<1> USE DEF DeliveryInv
<1>1. UNCHANGED <<queue, unfinished, accepted, worker, handled>>
    BY DEF Producer, Publish, Drop, CountPublished, Flush, FlushReturnsTrue, FlushOver, queueVars
<1>2. Places' /\ HandledOnce' /\ Counted'
    BY <1>1, PlacesKept
<1>3. producer \in [Producers -> ProducerType] /\ accepted \subseteq 1..offered
      /\ offered \in Nat
    BY DEF TypeInv, BusTypes, NewEvents
<1>4. NewEvents' /\ Flushes'
  <2>1. CASE Publish(p)
    <3>1. /\ offered' = offered + 1
          /\ producer' = [producer EXCEPT ![p] = [IdleProducer EXCEPT !.at = "put",
                                                                     !.event = offered + 1]]
        BY <2>1 DEF Publish
    <3>2. /\ producer'[p].at = "put" /\ producer'[p].event = offered + 1
          /\ \A r \in Producers \ {p} : producer'[r] = producer[r]
        BY <1>3, <3>1 DEF IdleProducer
    <3>3. offered + 1 \notin accepted
        BY <1>3
    <3>4. \A r \in Producers \ {p} : producer[r].at = "put" => producer[r].event # offered + 1
        BY <1>3 DEF TypeInv, HasEvent
    <3>5. accepted' \subseteq 1..offered'
        BY <1>1, <1>3, <3>1
    <3>6. NewEvents'
        BY <1>1, <3>2, <3>3, <3>4, <3>5 DEF NewEvents
    <3>7. Flushes'
        BY <1>1, <3>2 DEF Flushes
    <3> QED
        BY <3>6, <3>7
  <2>2. CASE Drop(p) \/ CountPublished(p) \/ FlushOver(p)
    <3>1. producer' = [producer EXCEPT ![p] = IdleProducer] /\ UNCHANGED offered
        BY <2>2 DEF Drop, CountPublished, FlushOver
    <3>2. /\ producer'[p].at = "idle"
          /\ \A r \in Producers \ {p} : producer'[r] = producer[r]
        BY <1>3, <3>1 DEF IdleProducer
    <3> QED
        BY <1>1, <3>1, <3>2 DEF NewEvents, Flushes
  <2>3. CASE Flush(p)
    <3>1. producer' = [producer EXCEPT ![p] = [IdleProducer EXCEPT !.at = "flush",
                                                                  !.before = accepted]]
          /\ UNCHANGED offered
        BY <2>3 DEF Flush
    <3>2. /\ producer'[p].at = "flush" /\ producer'[p].before = accepted
          /\ \A r \in Producers \ {p} : producer'[r] = producer[r]
        BY <1>3, <3>1 DEF IdleProducer
    <3> QED
        BY <1>1, <3>1, <3>2 DEF NewEvents, Flushes
  <2>4. CASE FlushReturnsTrue(p)
    <3>1. /\ producer' = [producer EXCEPT ![p].at = "flushed"] /\ UNCHANGED offered
          /\ producer[p].at = "flush" /\ unfinished = 0
        BY <2>4 DEF FlushReturnsTrue, Drained
    <3>2. /\ producer'[p].at = "flushed" /\ producer'[p].before = producer[p].before
          /\ \A r \in Producers \ {p} : producer'[r] = producer[r]
        BY <1>3, <3>1 DEF ProducerType
    <3>3. Outstanding = {}
        BY <3>1, OutstandingFinite, FS_EmptySet DEF Counted
    <3>4. \A e \in accepted : handled[e] = 1
        BY <3>3 DEF HandledOnce
    <3>5. Flushes'
        BY <1>1, <3>1, <3>2, <3>4 DEF Flushes
    <3> QED
        BY <1>1, <3>1, <3>2, <3>5 DEF NewEvents
  <2> QED
      BY <2>1, <2>2, <2>3, <2>4 DEF Producer
<1> QED
    BY <1>1, <1>2, <1>4

-----------------------------------------------------------------------------
(* The steps of the owner: a worker it starts was dead and holds nothing.  *)

LEMMA OwnerDelivers ==
    ASSUME TypeInv, DeliveryInv, Owner
    PROVE  DeliveryInv' /\ UNCHANGED <<accepted, handled>>
<1> USE DEF DeliveryInv
<1>1. UNCHANGED <<queue, unfinished, accepted, producer, offered, handled>>
    BY StepsOfOwner DEF queueVars
<1>2. \A w \in Slots : /\ worker'[w].batch = worker[w].batch
                       /\ (worker'[w].at = "finish") = (worker[w].at = "finish")
  <2>1. CASE Start
    <3>1. PICK new \in SUBSET Slots :
             /\ \A w \in new : worker[w].at = "dead"
             /\ worker' = [w \in Slots |-> IF w \in new THEN [DeadWorker EXCEPT !.at = "check"]
                                                       ELSE worker[w]]
        BY <2>1 DEF Start
    <3>2. ASSUME NEW w \in new
          PROVE  /\ worker'[w].batch = worker[w].batch
                 /\ worker'[w].at # "finish" /\ worker[w].at # "finish"
      <4>1. worker'[w] = [at |-> "check", batch |-> <<>>, done |-> 0]
          BY <3>1, <3>2, CheckingWorker
      <4>2. worker[w].at = "dead" /\ worker[w].batch = <<>>
          BY <3>1, <3>2 DEF TypeInv, BatchShape
      <4> QED
          BY <4>1, <4>2
    <3> QED
        BY <3>1, <3>2
  <2>2. CASE Stop \/ StopJoined
      BY <2>2 DEF Stop, StopJoined
  <2> QED
      BY <2>1, <2>2 DEF Owner
<1>3. Places' /\ HandledOnce' /\ Counted'
    BY <1>1, <1>2, PlacesKept
<1> QED
    BY <1>1, <1>3 DEF NewEvents, Flushes

-----------------------------------------------------------------------------
(* The inductive invariant *)

BusInv == TypeInv /\ DeliveryInv

LEMMA BusInit == Init => BusInv
<1> SUFFICES ASSUME Init PROVE BusInv
    OBVIOUS
<1> USE DEF Init
<1>1. \A w \in Slots : worker[w].batch = <<>>
    BY DEF DeadWorker
<1>2. Held = {} /\ Range(queue) = {} /\ Outstanding = {}
    BY <1>1, EmptyRange DEF Held, Outstanding
<1>3. Places
    BY <1>1, EmptyRange DEF Places
<1>4. HandledOnce
    BY <1>1, <1>2, EmptyRange DEF HandledOnce
<1>5. Counted
    BY <1>2, FS_EmptySet DEF Counted
<1>6. NewEvents /\ Flushes
    BY DEF NewEvents, Flushes, IdleProducer
<1> QED
    BY <1>3, <1>4, <1>5, <1>6, TypeInit DEF BusInv, DeliveryInv

\* A step of the bus keeps the invariant, and is to its accepted and handled
\* events a step of EventDelivery or none.
LEMMA BusStep == BusInv /\ [Next]_vars => BusInv' /\ [Delivery!Next]_Delivery!vars
<1> SUFFICES ASSUME BusInv, [Next]_vars PROVE BusInv' /\ [Delivery!Next]_Delivery!vars
    OBVIOUS
<1> USE DEF BusInv
<1>0. TypeInv' /\ accepted \subseteq Events
    BY TypeStep DEF TypeInv, BusTypes
<1>1. ASSUME NEW p \in Producers, Put(p) PROVE BusInv' /\ Delivery!Next
  <2>1. PICK e \in Events \ accepted : accepted' = accepted \cup {e} /\ UNCHANGED handled
      BY <1>1, PutDelivers
  <2>2. Delivery!Accept(e)
      BY <2>1 DEF Delivery!Accept
  <2> QED
      BY <1>0, <1>1, <2>2, PutDelivers DEF Delivery!Next
<1>2. ASSUME NEW p \in Producers, Producer(p), ~Put(p) PROVE BusInv' /\ UNCHANGED Delivery!vars
    BY <1>0, <1>2, ProducerDelivers DEF Delivery!vars
<1>3. ASSUME NEW w \in Slots, Worker(w) PROVE BusInv' /\ [Delivery!Next]_Delivery!vars
  <2>1. DeliveryInv' /\ HandlesOne /\ UNCHANGED accepted
      BY <1>3, WorkerDelivers
  <2>2. ASSUME NEW e \in accepted, handled[e] = 0, handled' = [handled EXCEPT ![e] = 1]
        PROVE  Delivery!Next
    <3>1. Delivery!Handle(e) /\ e \in Events
        BY <1>0, <2>1, <2>2 DEF Delivery!Handle
    <3> QED
        BY <3>1 DEF Delivery!Next
  <2> QED
      BY <1>0, <2>1, <2>2 DEF HandlesOne, Delivery!vars
<1>4. CASE Owner
    BY <1>0, <1>4, OwnerDelivers DEF Delivery!vars
<1>5. CASE UNCHANGED vars
  <2>1. UNCHANGED <<queue, unfinished, accepted, worker, producer, offered, handled>>
      BY <1>5 DEF vars, queueVars
  <2>2. Places' /\ HandledOnce' /\ Counted'
      BY <2>1, PlacesKept DEF DeliveryInv
  <2>3. NewEvents' /\ Flushes'
      BY <2>1 DEF DeliveryInv, NewEvents, Flushes
  <2> QED
      BY <1>0, <2>1, <2>2, <2>3 DEF DeliveryInv, Delivery!vars
<1> QED
    BY <1>1, <1>2, <1>3, <1>4, <1>5 DEF Next

LEMMA BusInvariance == Spec => []BusInv
<1>1. BusInv /\ [Next]_vars => BusInv'
    BY BusStep
<1> QED
    BY <1>1, BusInit, PTL DEF Spec

\* The queue stays within its bound, the batches within theirs, and the count of
\* unfinished tasks never goes below 0 (ValueError of task_done), with any number
\* of workers of earlier starts still running.
THEOREM TypeCorrect == Spec => []TypeOK
<1>1. BusInv => TypeOK
  <2> SUFFICES ASSUME BusInv PROVE TypeOK
      OBVIOUS
  <2>1. unfinished \in Nat
      BY OutstandingFinite, FS_CardinalityType DEF BusInv, DeliveryInv, Counted
  <2> QED
      BY <2>1 DEF BusInv, TypeInv, BusTypes, TypeOK, WorkerType, ProducerType
<1> QED
    BY <1>1, BusInvariance, PTL

\* flush returns True only when every event accepted before it has been handled,
\* exactly once.
THEOREM FlushMeansHandled == Spec => []FlushedMeansHandled
<1>1. BusInv => FlushedMeansHandled
    BY DEF BusInv, DeliveryInv, Flushes, FlushedMeansHandled
<1> QED
    BY <1>1, BusInvariance, PTL

\* The bus implements EventDelivery: each event is accepted at most once, and
\* handled at most once and only after it was accepted.
THEOREM ImplementsDelivery == Spec => DeliverySpec
<1>1. Init => Delivery!Init
    BY DEF Init, Delivery!Init
<1>2. BusInv /\ [Next]_vars => [Delivery!Next]_Delivery!vars
    BY BusStep
<1> QED
    BY <1>1, <1>2, BusInvariance, PTL DEF Spec, DeliverySpec, Delivery!Spec

\* Where an accepted event may be.
NothingIsLost ==
    \A e \in accepted :
        \/ handled[e] = 1
        \/ e \in Range(queue)
        \/ \E w \in Slots : Alive(w) /\ e \in Range(worker[w].batch)

\* An event the queue has taken is not lost: until it is handled it is queued or
\* in the hands of a worker that lives, whatever start and stop do meanwhile.
THEOREM AcceptedIsKept == Spec => []NothingIsLost
<1>1. ASSUME BusInv, NEW e \in accepted, handled[e] # 1, e \notin Range(queue)
      PROVE  \E w \in Slots : Alive(w) /\ e \in Range(worker[w].batch)
  <2>1. e \in Held
      BY <1>1 DEF BusInv, DeliveryInv, HandledOnce, Outstanding
  <2>2. PICK w \in Slots : e \in Range(worker[w].batch)
      BY <2>1 DEF Held
  <2>3. worker[w].batch # <<>>
      BY <2>2, EmptyRange
  <2>4. worker[w].at # "dead"
      BY <1>1, <2>3 DEF BusInv, TypeInv, BatchShape
  <2> QED
      BY <2>2, <2>4 DEF Alive
<1>2. BusInv => NothingIsLost
    BY <1>1 DEF NothingIsLost
<1> QED
    BY <1>2, BusInvariance, PTL

\* What flush waits for is exact: unfinished_tasks is the number of events that
\* are queued or in a batch and not yet marked done, so that flush neither returns
\* early nor waits for an event that is gone (EventBus.flush).
THEOREM UnfinishedIsExact == Spec => []Counted
<1>1. BusInv => Counted
    BY DEF BusInv, DeliveryInv
<1> QED
    BY <1>1, BusInvariance, PTL

=============================================================================
