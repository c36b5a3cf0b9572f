---------------------------- MODULE LiveTrading ----------------------------
(***************************************************************************)
(* The live order path of one account: LiveExecutor (execution/live.py) on *)
(* the caller's thread, the OMS, the Binance order gateway, the exchange,  *)
(* and UserStreamProcessor (execution/user_stream.py) on the thread that   *)
(* runs the user stream.  An operator, or the degradation controller,      *)
(* engages and releases the global kill switch at any moment.              *)
(*                                                                         *)
(* The caller thread is interrupted between the kill-switch check, the     *)
(* submission and the POST; the POST itself may fail before the exchange   *)
(* sees it, or succeed and lose its answer.  Reports travel in order on    *)
(* one web socket and are lost while it is down.                           *)
(***************************************************************************)
EXTENDS Oms, Naturals, Sequences, FiniteSets

CONSTANTS
    Cids,        \* client order ids
    PostIds,     \* orders the exchange can create: one for every POST it accepts
    NoPost,      \* "no exchange order": a key missing from _acks
    NoCid,       \* "no client order": the caller is idle
    MaxStream,   \* bound on the reports in flight
    UniqueOpenIds \* the exchange refuses the client id of one of its open orders

ASSUME LiveAssumption ==
    /\ NoPost \notin PostIds
    /\ NoCid \notin Cids
    /\ MaxStream \in Nat
    /\ UniqueOpenIds \in BOOLEAN

VARIABLES
    oms,         \* OMS._orders: the status of each client order id
    acks,        \* LiveExecutor._acks: the exchange order acknowledged for each id
    caller,      \* the execute_market call in progress: where it is, its id and POST
    halted,      \* KillSwitch._global_reason is not None
    exch,        \* the exchange's orders: the client id and the state of each
    stream,      \* reports on the socket, oldest first
    connected,   \* the user stream's socket is up
    monitor,     \* Monitoring._orders and Monitoring._rejects
    lost,        \* history: ids with a final report that was never processed
    faults,      \* history: reports whose processing raised
    afterHalt    \* history: POSTs accepted since the kill switch was engaged

callerVars   == <<acks, caller>>
exchangeVars == <<exch, stream, lost>>
vars == <<oms, acks, caller, halted, exch, stream, connected, monitor,
          lost, faults, afterHalt>>

-----------------------------------------------------------------------------
(* Execution reports.  The exchange's final states are the report's raw    *)
(* statuses; EXPIRED is filed as CANCELED, and EXPIRED_IN_MATCH stands for *)
(* those that no branch of the processor knows.                            *)

Filed        == {"FILLED", "CANCELED", "EXPIRED", "REJECTED"}
ExchFinal    == Filed \cup {"EXPIRED_IN_MATCH"}
Interim      == {"NEW", "PARTIALLY_FILLED"}
ExchState    == {"unused", "open"} \cup ExchFinal
Report       == [cid : Cids, status : Interim \cup ExchFinal]

\* The OMS status a raw report status stands for.
TargetOf(raw) == IF raw = "EXPIRED" THEN "CANCELED" ELSE raw

IdleCaller == [at |-> "idle", cid |-> NoCid, post |-> NoPost]

\* The ids whose final report is among the reports of s.
FinalIn(s) == {s[i].cid : i \in {j \in 1..Len(s) : s[j].status \in ExchFinal}}

TypeOK ==
    /\ oms \in [Cids -> Status]
    /\ acks \in [Cids -> PostIds \cup {NoPost}]
    /\ caller \in [at : {"idle", "checked", "submitted", "awaiting"},
                   cid : Cids \cup {NoCid}, post : PostIds \cup {NoPost}]
    /\ halted \in BOOLEAN
    /\ exch \in [PostIds -> [cid : Cids \cup {NoCid}, state : ExchState]]
    /\ stream \in Seq(Report)
    /\ connected \in BOOLEAN
    /\ monitor \in [orders : Nat, rejects : Nat]
    /\ lost \subseteq Cids
    /\ faults \in BOOLEAN
    /\ afterHalt \in Nat

Init ==
    /\ oms = [c \in Cids |-> "absent"]
    /\ acks = [c \in Cids |-> NoPost]
    /\ caller = IdleCaller
    /\ halted = FALSE
    /\ exch = [p \in PostIds |-> [cid |-> NoCid, state |-> "unused"]]
    /\ stream = <<>>
    /\ connected = TRUE
    /\ monitor = [orders |-> 0, rejects |-> 0]
    /\ lost = {}
    /\ faults = FALSE
    /\ afterHalt = 0

-----------------------------------------------------------------------------
(* LiveExecutor.execute_market *)

\* The guard of the call; assert_allows_execution raises while halted.
MutAllowsExecution == TRUE
AllowsExecution == ~halted

CheckKillSwitch(c) ==
    /\ caller.at = "idle"
    /\ AllowsExecution
    /\ caller' = [IdleCaller EXCEPT !.at = "checked", !.cid = c]
    /\ UNCHANGED <<oms, acks, halted, exchangeVars, connected, monitor,
                   faults, afterHalt>>

IsCached(c) == acks[c] # NoPost

\* The order of an earlier call is returned, or a settled one refused (raise).
ReturnEarly ==
    /\ caller.at = "checked"
    /\ IsCached(caller.cid) \/ oms[caller.cid] \in Terminal
    /\ caller' = IdleCaller
    /\ UNCHANGED <<oms, acks, halted, exchangeVars, connected, monitor,
                   faults, afterHalt>>

MutSubmitted(c) == oms
Submitted(c) == Submit(oms, c)

SubmitOrder ==
    LET c == caller.cid IN
    /\ caller.at = "checked"
    /\ ~IsCached(c)
    /\ oms[c] \notin Terminal
    /\ oms' = Submitted(c)
    /\ caller' = [caller EXCEPT !.at = "submitted"]
    /\ UNCHANGED <<acks, halted, exchangeVars, connected, monitor,
                   faults, afterHalt>>

\* place_market_order: the exchange accepts the POST and creates order p.
PostAccepted(p) ==
    /\ caller.at = "submitted"
    /\ exch[p].state = "unused"
    /\ UniqueOpenIds => \A q \in PostIds : exch[q] # [cid |-> caller.cid, state |-> "open"]
    /\ exch' = [exch EXCEPT ![p] = [cid |-> caller.cid, state |-> "open"]]
    /\ caller' = [caller EXCEPT !.at = "awaiting", !.post = p]
    /\ afterHalt' = IF halted THEN afterHalt + 1 ELSE afterHalt
    /\ UNCHANGED <<oms, acks, halted, stream, lost, connected, monitor, faults>>

\* The POST never reached the exchange, or was refused: the call raises.
PostFailed ==
    /\ caller.at = "submitted"
    /\ caller' = IdleCaller
    /\ UNCHANGED <<oms, acks, halted, exchangeVars, connected, monitor,
                   faults, afterHalt>>

PostAnswered ==
    /\ caller.at = "awaiting"
    /\ acks' = [acks EXCEPT ![caller.cid] = caller.post]
    /\ caller' = IdleCaller
    /\ UNCHANGED <<oms, halted, exchangeVars, connected, monitor,
                   faults, afterHalt>>

\* A timeout, or an answer without orderId: the call raises, the order lives.
AnswerLost ==
    /\ caller.at = "awaiting"
    /\ caller' = IdleCaller
    /\ UNCHANGED <<oms, acks, halted, exchangeVars, connected, monitor,
                   faults, afterHalt>>

-----------------------------------------------------------------------------
(* KillSwitch.engage and release, global scope *)

Engage ==
    /\ ~halted
    /\ halted' = TRUE
    /\ afterHalt' = 0
    /\ UNCHANGED <<oms, callerVars, exchangeVars, connected, monitor, faults>>

Release ==
    /\ halted
    /\ halted' = FALSE
    /\ UNCHANGED <<oms, callerVars, exchangeVars, connected, monitor, faults,
                   afterHalt>>

-----------------------------------------------------------------------------
(* The exchange and the socket (external) *)

\* A report enters the socket, or is lost for good when there is none.
Emit(r) ==
    IF connected
    THEN /\ Len(stream) < MaxStream
         /\ stream' = Append(stream, r)
         /\ UNCHANGED lost
    ELSE /\ lost' = lost \cup FinalIn(<<r>>)
         /\ UNCHANGED stream

ReportProgress(p, s) ==
    /\ exch[p].state = "open"
    /\ Emit([cid |-> exch[p].cid, status |-> s])
    /\ UNCHANGED <<oms, callerVars, halted, exch, connected, monitor, faults,
                   afterHalt>>

Finish(p, s) ==
    /\ exch[p].state = "open"
    /\ exch' = [exch EXCEPT ![p].state = s]
    /\ Emit([cid |-> exch[p].cid, status |-> s])
    /\ UNCHANGED <<oms, callerVars, halted, connected, monitor, faults, afterHalt>>

\* A final report is delivered once more.
Repeat(p) ==
    /\ exch[p].state \in ExchFinal
    /\ connected
    /\ Emit([cid |-> exch[p].cid, status |-> exch[p].state])
    /\ UNCHANGED <<oms, callerVars, halted, exch, connected, monitor, faults,
                   afterHalt>>

Disconnect ==
    /\ connected
    /\ connected' = FALSE
    /\ lost' = lost \cup FinalIn(stream)
    /\ stream' = <<>>
    /\ UNCHANGED <<oms, callerVars, halted, exch, monitor, faults, afterHalt>>

Reconnect ==
    /\ ~connected
    /\ connected' = TRUE
    /\ UNCHANGED <<oms, callerVars, halted, exchangeVars, monitor, faults,
                   afterHalt>>

-----------------------------------------------------------------------------
(* UserStreamProcessor.on_execution_report *)

MutForwardsPartial(r) ==
    oms[r.cid] = "absent" \/ r.status = "NEW" \/ oms[r.cid] = TargetOf(r.status)
MutForgetsExpired(r) ==
    \/ oms[r.cid] = "absent"
    \/ r.status \notin Filed \ {"EXPIRED"}
    \/ oms[r.cid] = TargetOf(r.status)

\* Unknown orders, NEW-like statuses and a status already reached are ignored;
\* one in no branch falls through to the end.
IsNoOp(r) ==
    \/ oms[r.cid] = "absent"
    \/ r.status \notin Filed
    \/ oms[r.cid] = TargetOf(r.status)

IgnoreReport ==
    /\ stream # <<>>
    /\ IsNoOp(Head(stream))
    /\ stream' = Tail(stream)
    /\ UNCHANGED <<oms, callerVars, halted, exch, lost, connected, monitor,
                   faults, afterHalt>>

MutMaySettle(r) == TRUE
MaySettle(r) == MayTransition(oms, r.cid)

\* The order settles, and monitoring counts a fill or a rejection.
ApplyReport ==
    LET r == Head(stream) IN
    /\ stream # <<>>
    /\ ~IsNoOp(r)
    /\ MaySettle(r)
    /\ oms' = Transition(oms, r.cid, TargetOf(r.status))
    /\ monitor' = [orders  |-> monitor.orders + (IF r.status = "FILLED" THEN 1 ELSE 0),
                   rejects |-> monitor.rejects + (IF r.status = "REJECTED" THEN 1 ELSE 0)]
    /\ stream' = Tail(stream)
    /\ UNCHANGED <<callerVars, halted, exch, lost, connected, faults, afterHalt>>

\* The OMS raises: the exception leaves the processor and the stream client
\* tears its socket down, losing this report and all that followed it.
RaiseOnReport ==
    LET r == Head(stream) IN
    /\ stream # <<>>
    /\ ~IsNoOp(r)
    /\ ~MaySettle(r)
    /\ faults' = TRUE
    /\ connected' = FALSE
    /\ lost' = lost \cup FinalIn(stream)
    /\ stream' = <<>>
    /\ UNCHANGED <<oms, callerVars, halted, exch, monitor, afterHalt>>

-----------------------------------------------------------------------------
Caller == \/ \E c \in Cids : CheckKillSwitch(c)
          \/ ReturnEarly \/ SubmitOrder \/ PostFailed \/ PostAnswered \/ AnswerLost
          \/ \E p \in PostIds : PostAccepted(p)

Operator == Engage \/ Release

Exchange == \/ \E p \in PostIds : \/ \E s \in Interim : ReportProgress(p, s)
                                  \/ \E s \in ExchFinal : Finish(p, s)
                                  \/ Repeat(p)
            \/ Disconnect \/ Reconnect

Processor == IgnoreReport \/ ApplyReport \/ RaiseOnReport

Next == Caller \/ Operator \/ Exchange \/ Processor

Spec == Init /\ [][Next]_vars

\* The stream thread keeps receiving and its client keeps reconnecting; the
\* exchange settles what it accepted (strongly fair, since MaxStream, a bound
\* of the model, may hold its report back for a while).  Nothing is assumed of
\* callers, of the operator, of answers to POSTs or of the socket staying up.
FairSpec ==
    /\ Spec
    /\ WF_vars(Processor)
    /\ WF_vars(Reconnect)
    /\ \A p \in PostIds : SF_vars(\E s \in ExchFinal : Finish(p, s))

-----------------------------------------------------------------------------
(* Properties *)

\* A settled order is settled the same way at the exchange: on_execution_report
\* never files a status that no exchange order with that id has.
OmsAgreesWithExchange ==
    \A c \in Cids : oms[c] \in Terminal =>
        \E p \in PostIds : /\ exch[p].cid = c
                           /\ exch[p].state \in ExchFinal
                           /\ TargetOf(exch[p].state) = oms[c]

\* execute_market registers the order before the POST, so a report can never
\* overtake its registration and be dropped as unknown.
NoReportOfUnknownOrder ==
    \A i \in 1..Len(stream) : oms[stream[i].cid] # "absent"

\* An acknowledgement in the cache names an exchange order of that very id.
AcksAreGenuine ==
    \A c \in Cids : acks[c] # NoPost => /\ exch[acks[c]].cid = c
                                        /\ oms[c] # "absent"

\* Once an id is acknowledged, no retry creates another order for it.
AckedIsNeverResent ==
    [][\A c \in Cids : acks[c] # NoPost =>
          \A p \in PostIds : exch'[p].cid = c => exch[p].cid = c]_vars

\* Engaging the kill switch stops the flow: of the calls in progress only the
\* one already past its check can still create an order.
HaltBoundsExposure == halted => afterHalt <= 1

\* The processor raises, and takes the stream down with it, only if some id
\* was POSTed more than once.
FaultsComeFromResends ==
    faults => \E p, q \in PostIds : /\ p # q
                                    /\ exch[p].cid = exch[q].cid
                                    /\ exch[p].cid # NoCid

\* The exchange ended an order of this id with a status in no branch.
Unfiled(c) == \E p \in PostIds : exch[p].cid = c /\ exch[p].state \in ExchFinal \ Filed

\* An acknowledged order eventually settles in the OMS, whatever is repeated or
\* comes late, unless a final report of it was lost with the socket or has a
\* status that on_execution_report files nowhere: such an order stays NEW for good
\* (user_stream.py:30-57).
AckedOrdersSettle ==
    \A c \in Cids : acks[c] # NoPost ~> (oms[c] \in Terminal \/ c \in lost \/ Unfiled(c))

\* The OMS the stream and the executor share behaves as OrderLifecycle says.
Lifecycle == INSTANCE OrderLifecycle WITH status <- oms
LifecycleSpec == Lifecycle!Spec

\* The claim that idempotency by client order id rests on the OMS: at most one
\* exchange order for each id.
AtMostOneOrderPerId ==
    \A p, q \in PostIds : exch[p].cid = exch[q].cid /\ exch[p].cid # NoCid => p = q

=============================================================================
