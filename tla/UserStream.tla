----------------------------- MODULE UserStream -----------------------------
(***************************************************************************)
(* The user-data stream service: the client thread that owns the socket    *)
(* (BinanceUserStreamClient.run_forever), the keepalive thread that owns   *)
(* the renewal of the listen key (KeepaliveRunner.run_forever), the        *)
(* provider whose cached key both read and write without a lock, and       *)
(* BinanceUserStreamService, which starts and stops the two.               *)
(*                                                                         *)
(* A step of a thread is what it does between two accesses to shared state *)
(* or between a request to Binance and its answer.  Requests may fail.     *)
(***************************************************************************)
EXTENDS Naturals

CONSTANTS
    Keys,         \* listen keys Binance hands out; a key nobody holds is reused
    NoKey,        \* _listen_key is None
    MaxFailures   \* max_consecutive_failures_before_rebuild

ASSUME StreamAssumption ==
    /\ NoKey \notin Keys
    /\ MaxFailures \in Nat \ {0}

VARIABLES
    key,          \* provider._listen_key
    client,       \* where run_forever is, the key it has read, whether it has a ws
    reconnect,    \* client._reconnect_requested
    stopped,      \* client._stopped
    keepalive,    \* where the keepalive loop is, and the key it is renewing
    failures,     \* _consecutive_failures
    stopEvent,    \* service._stop_event
    sockets,      \* sockets open at Binance
    missed        \* history: the last reconnect request made since the client read
                  \* its key, where the client was and the key rebuilt

serviceVars == <<key, client, reconnect, stopped, keepalive, failures, stopEvent,
          sockets, missed>>

ClientAt == {"start", "found", "create", "connect", "opened", "head", "receiving", "failed",
             "clearing", "backoff", "closing", "quitting", "finished", "done"}

KeepaliveAt == {"start", "found", "create", "put", "resting", "failed", "rebuild",
                "rebuildFound", "rebuildCreate", "notify", "backoff", "done", "dead"}

NoRequest == [at |-> "none", key |-> NoKey]

ServiceTypeOK ==
    /\ key \in Keys \cup {NoKey}
    /\ client \in [at : ClientAt, key : Keys \cup {NoKey}, ws : BOOLEAN]
    /\ keepalive \in [at : KeepaliveAt, key : Keys \cup {NoKey}]
    /\ reconnect \in BOOLEAN
    /\ stopped \in BOOLEAN
    /\ stopEvent \in BOOLEAN
    /\ failures \in Nat
    /\ sockets \in Nat
    /\ missed \in [at : {"none"} \cup ClientAt, key : Keys \cup {NoKey}]

ServiceInit ==
    /\ key = NoKey
    /\ client = [at |-> "start", key |-> NoKey, ws |-> FALSE]
    /\ keepalive = [at |-> "start", key |-> NoKey]
    /\ reconnect = FALSE
    /\ stopped = FALSE
    /\ stopEvent = FALSE
    /\ failures = 0
    /\ sockets = 0
    /\ missed = NoRequest

\* A key that Binance may hand out now: nobody holds it.
Fresh(k) == k \in Keys \ {key, client.key, keepalive.key}

-----------------------------------------------------------------------------
(* BinanceUserStreamClient.run_forever *)

ClientGoes(from, to) ==
    /\ client.at = from
    /\ client' = [client EXCEPT !.at = to]

\* What a client step leaves to the other threads.
OthersKeep == UNCHANGED <<stopped, keepalive, failures, stopEvent>>

ClientLoopEnds ==
    /\ stopped
    /\ ClientGoes("start", "finished")
    /\ OthersKeep /\ UNCHANGED <<key, reconnect, sockets, missed>>

\* get_listen_key looks whether a key is cached ...
ClientLooksForKey ==
    /\ ~stopped
    /\ ClientGoes("start", IF key = NoKey THEN "create" ELSE "found")
    /\ OthersKeep /\ UNCHANGED <<key, reconnect, sockets, missed>>

\* ... and reads it a second time to return it: None, if the keepalive thread
\* has discarded it in between.
ClientReadsKey ==
    /\ client.at = "found"
    /\ client' = [client EXCEPT !.at = "connect", !.key = key]
    /\ missed' = NoRequest
    /\ OthersKeep /\ UNCHANGED <<key, reconnect, sockets>>

ClientCreatesKey(k) ==
    /\ client.at = "create"
    /\ Fresh(k)
    /\ key' = k
    /\ client' = [client EXCEPT !.at = "connect", !.key = k]
    /\ missed' = NoRequest
    /\ OthersKeep /\ UNCHANGED <<reconnect, sockets>>

ClientConnects ==
    /\ client.at = "connect"
    /\ client' = [client EXCEPT !.at = "opened", !.ws = TRUE]
    /\ sockets' = sockets + 1
    /\ OthersKeep /\ UNCHANGED <<key, reconnect, missed>>

\* The key request, the connection, recv (a timeout of 30 s at the latest), the
\* parser or the execution report handler raises.
ClientRaises ==
    /\ \E at \in {"create", "connect", "receiving"} : ClientGoes(at, "failed")
    /\ OthersKeep /\ UNCHANGED <<key, reconnect, sockets, missed>>

\* The socket is up: a pending reconnect request is taken as served.
ClientClearsRequest ==
    /\ ClientGoes("opened", "head")
    /\ reconnect' = FALSE
    /\ OthersKeep /\ UNCHANGED <<key, sockets, missed>>

MutIgnoresStop == IF reconnect THEN "failed" ELSE "receiving"

HeadGoes == CASE stopped                 -> "closing"
              [] ~stopped /\ reconnect   -> "failed"
              [] ~stopped /\ ~reconnect  -> "receiving"

\* The head of the receive loop: leave when stopped, raise on a request.
ClientChecksFlags ==
    /\ ClientGoes("head", HeadGoes)
    /\ OthersKeep /\ UNCHANGED <<key, reconnect, sockets, missed>>

MutAfterReport == FALSE
AfterReport == reconnect

\* A message is received and its report, if any, processed.
ClientReceives ==
    /\ ClientGoes("receiving", "head")
    /\ reconnect' = AfterReport
    /\ OthersKeep /\ UNCHANGED <<key, sockets, missed>>

\* The exception handler: break, retry at once on a request, or back off.
ClientHandles ==
    /\ ClientGoes("failed", CASE stopped                -> "quitting"
                              [] ~stopped /\ reconnect  -> "closing"
                              [] ~stopped /\ ~reconnect -> "clearing")
    /\ reconnect' = (reconnect /\ stopped)
    /\ OthersKeep /\ UNCHANGED <<key, sockets, missed>>

\* clear_cached_listen_key, whatever key is cached by now.
ClientClearsKey ==
    /\ ClientGoes("clearing", "backoff")
    /\ key' = NoKey
    /\ OthersKeep /\ UNCHANGED <<reconnect, sockets, missed>>

\* The sleep; the failed socket is still open meanwhile.
ClientWakes ==
    /\ ClientGoes("backoff", "closing")
    /\ OthersKeep /\ UNCHANGED <<key, reconnect, sockets, missed>>

\* KeyboardInterrupt is raised again.
ClientInterrupted ==
    /\ \E at \in {"create", "connect", "receiving", "backoff"} : ClientGoes(at, "quitting")
    /\ OthersKeep /\ UNCHANGED <<key, reconnect, sockets, missed>>

MutNeverCloses == sockets
Closed == IF client.ws THEN sockets - 1 ELSE sockets

\* The finally clause closes the socket of this round, if it has one.
ClientCloses ==
    /\ client.at \in {"closing", "quitting"}
    /\ client' = [client EXCEPT !.at = IF @ = "closing" THEN "start" ELSE "finished",
                                !.ws = FALSE]
    /\ sockets' = Closed
    /\ OthersKeep /\ UNCHANGED <<key, reconnect, missed>>

MutStopEventAtEnd == stopEvent
StopEventAtEnd == TRUE

\* The finally clause of BinanceUserStreamService.run_forever.
ServiceEnds ==
    /\ ClientGoes("finished", "done")
    /\ stopEvent' = StopEventAtEnd
    /\ UNCHANGED <<key, reconnect, stopped, keepalive, failures, sockets, missed>>

-----------------------------------------------------------------------------
(* KeepaliveRunner.run_forever *)

KeepaliveGoes(from, to) ==
    /\ keepalive.at = from
    /\ keepalive' = [keepalive EXCEPT !.at = to]

ClientKeeps == UNCHANGED <<client, stopped, stopEvent, sockets>>

KeepaliveEnds ==
    /\ stopEvent
    /\ KeepaliveGoes("start", "done")
    /\ ClientKeeps /\ UNCHANGED <<key, reconnect, failures, missed>>

\* provider.keepalive(): look for a cached key, POST for one if there is none.
KeepaliveLooksForKey ==
    /\ ~stopEvent
    /\ KeepaliveGoes("start", IF key = NoKey THEN "create" ELSE "found")
    /\ ClientKeeps /\ UNCHANGED <<key, reconnect, failures, missed>>

\* The second read, of keepalive() or of the rebuild: None, if the client has
\* discarded the key in between.
KeepaliveReadsKey ==
    /\ keepalive.at \in {"found", "rebuildFound"}
    /\ keepalive' = [at |-> IF keepalive.at = "found" THEN "put" ELSE "notify", key |-> key]
    /\ ClientKeeps /\ UNCHANGED <<key, reconnect, failures, missed>>

KeepaliveCreatesKey(k) ==
    /\ keepalive.at = "create"
    /\ Fresh(k)
    /\ key' = k
    /\ keepalive' = [at |-> "put", key |-> k]
    /\ ClientKeeps /\ UNCHANGED <<reconnect, failures, missed>>

\* The PUT is answered: its key is cached, whatever the cache holds by now.  A
\* PUT for None leaves the text "None" or the key that the answer names.
KeepaliveRenews ==
    /\ KeepaliveGoes("put", "resting")
    /\ key' \in IF keepalive.key = NoKey THEN Keys ELSE {keepalive.key}
    /\ failures' = 0
    /\ ClientKeeps /\ UNCHANGED <<reconnect, missed>>

KeepaliveRaises ==
    /\ \E at \in {"create", "put"} : KeepaliveGoes(at, "failed")
    /\ ClientKeeps /\ UNCHANGED <<key, reconnect, failures, missed>>

\* After the handler: end at a stop, else sleep and try again.
AfterFailure == IF stopEvent THEN "done" ELSE "backoff"

MutThresholdReached == failures + 1 > MaxFailures
ThresholdReached == failures + 1 >= MaxFailures

\* The handler counts the failure; at the threshold it discards the cached key.
KeepaliveHandles ==
    /\ KeepaliveGoes("failed", IF ThresholdReached THEN "rebuild" ELSE AfterFailure)
    /\ failures' = failures + 1
    /\ key' = IF ThresholdReached THEN NoKey ELSE key
    /\ ClientKeeps /\ UNCHANGED <<reconnect, missed>>

\* get_listen_key of the rebuild: the client may have cached a new key already.
KeepaliveRebuilds ==
    /\ KeepaliveGoes("rebuild", IF key = NoKey THEN "rebuildCreate" ELSE "rebuildFound")
    /\ ClientKeeps /\ UNCHANGED <<key, reconnect, failures, missed>>

KeepaliveRecreatesKey(k) ==
    /\ keepalive.at = "rebuildCreate"
    /\ Fresh(k)
    /\ key' = k
    /\ keepalive' = [at |-> "notify", key |-> k]
    /\ ClientKeeps /\ UNCHANGED <<reconnect, failures, missed>>

\* The rebuild's own POST raises inside the handler: the thread ends.
KeepaliveDies ==
    /\ KeepaliveGoes("rebuildCreate", "dead")
    /\ ClientKeeps /\ UNCHANGED <<key, reconnect, failures, missed>>

\* on_rebuild: the service asks the client to reconnect.
KeepaliveNotifies ==
    /\ KeepaliveGoes("notify", AfterFailure)
    /\ failures' = 0
    /\ reconnect' = TRUE
    /\ missed' = [at |-> client.at, key |-> keepalive.key]
    /\ ClientKeeps /\ UNCHANGED key

KeepaliveWakes ==
    /\ \E at \in {"resting", "backoff"} : KeepaliveGoes(at, "start")
    /\ ClientKeeps /\ UNCHANGED <<key, reconnect, failures, missed>>

-----------------------------------------------------------------------------
(* BinanceUserStreamService.stop: the event first, then the client's flag *)

SetStopEvent ==
    /\ ~stopEvent
    /\ stopEvent' = TRUE
    /\ UNCHANGED <<key, client, reconnect, stopped, keepalive, failures, sockets, missed>>

StopClient ==
    /\ stopEvent
    /\ ~stopped
    /\ stopped' = TRUE
    /\ UNCHANGED <<key, client, reconnect, keepalive, failures, stopEvent, sockets, missed>>

-----------------------------------------------------------------------------
Client ==
    \/ ClientLoopEnds \/ ClientLooksForKey \/ ClientReadsKey \/ ClientConnects \/ ClientRaises
    \/ ClientClearsRequest \/ ClientChecksFlags \/ ClientReceives \/ ClientHandles
    \/ ClientClearsKey \/ ClientWakes \/ ClientInterrupted \/ ClientCloses \/ ServiceEnds
    \/ \E k \in Keys : ClientCreatesKey(k)

Keepalive ==
    \/ KeepaliveEnds \/ KeepaliveLooksForKey \/ KeepaliveReadsKey \/ KeepaliveRenews
    \/ KeepaliveRaises
    \/ KeepaliveHandles \/ KeepaliveRebuilds \/ KeepaliveDies \/ KeepaliveNotifies
    \/ KeepaliveWakes
    \/ \E k \in Keys : KeepaliveCreatesKey(k) \/ KeepaliveRecreatesKey(k)

ServiceNext == Client \/ Keepalive \/ SetStopEvent \/ StopClient

ServiceSpec == ServiceInit /\ [][ServiceNext]_serviceVars

\* Both threads run, their sleeps end and their requests are answered or time
\* out; a stop that has been begun is completed.
FairServiceSpec == ServiceSpec /\ WF_serviceVars(Client) /\ WF_serviceVars(Keepalive) /\ WF_serviceVars(StopClient)

-----------------------------------------------------------------------------
(* Properties *)

Listening == client.at \in {"head", "receiving"}

\* However its rounds end, the client has at most one socket open, and none
\* once the service is over.
OneSocket == /\ sockets <= 1
             /\ client.at \in {"start", "finished", "done"} => sockets = 0

\* The keepalive loop never goes to sleep with the threshold reached: a run of
\* failures has been met by a rebuild before the next attempt.
RebuiltAtThreshold ==
    keepalive.at \in {"start", "found", "create", "put", "resting", "backoff"}
        => failures < MaxFailures

\* A reconnect requested while the client listens stays pending for as long as
\* it goes on listening on the same socket.
RequestWhileListeningKept == Listening /\ missed.at \in {"head", "receiving"} => reconnect

\* A stop ends the service although both loops sleep and wait for the network.
StopEndsService == stopped ~> client.at = "done"

\* However the client's loop ended, interrupts included, the keepalive thread
\* does not outlive the service.
ServiceEndEndsKeepalive == client.at = "done" ~> keepalive.at \in {"done", "dead"}

=============================================================================
