--------------------------- MODULE Execution_proofs ---------------------------
(***************************************************************************)
(* Proofs about LiveTrading, for any sets of client ids and exchange       *)
(* orders and any bound on the reports in flight, and about UserStream, for *)
(* any set of listen keys and any threshold of consecutive failures.  The  *)
(* first half is about an order and its reports, the second about the      *)
(* service whose sockets the reports come through.                         *)
(***************************************************************************)
EXTENDS LiveTrading, UserStream, TLAPS

-----------------------------------------------------------------------------
(* Type correctness *)

\* A call in progress has an id, and an exchange order while it awaits the
\* answer of its POST; an order of the exchange has the id of a call.
WellFormed ==
    /\ caller.at # "idle" => caller.cid \in Cids
    /\ caller.at = "awaiting" => caller.post \in PostIds
    /\ \A p \in PostIds : exch[p].state # "unused" <=> exch[p].cid \in Cids

TypeInv == TypeOK /\ WellFormed

\* What Emit does to the stream and to the lost reports.
LEMMA EmitCases ==
    ASSUME NEW r, Emit(r)
    PROVE  \/ stream' = Append(stream, r) /\ lost' = lost
           \/ stream' = stream /\ lost' = lost \cup FinalIn(<<r>>)
BY Zenon DEF Emit

\* The ids with a final report on the socket are client ids.
LEMMA FinalInType == ASSUME NEW s \in Seq(Report) PROVE FinalIn(s) \subseteq Cids
<1> SUFFICES ASSUME NEW i \in 1..Len(s) PROVE s[i].cid \in Cids
    BY DEF FinalIn
<1>1. s[i] \in Report
    OBVIOUS
<1> QED
    BY <1>1 DEF Report

\* Putting a report on the socket, or losing it, keeps the types.
LEMMA EmitType ==
    ASSUME stream \in Seq(Report), lost \subseteq Cids, NEW r \in Report, Emit(r)
    PROVE  stream' \in Seq(Report) /\ lost' \subseteq Cids
<1>1. <<r>> \in Seq(Report)
    OBVIOUS
<1>2. FinalIn(<<r>>) \subseteq Cids
    BY <1>1, FinalInType
<1> QED
    BY <1>2, EmitCases

\* Every step of the live order path keeps the types.
LEMMA TypeStep == TypeInv /\ [Next]_vars => TypeInv'
<1> SUFFICES ASSUME TypeInv, [Next]_vars PROVE TypeInv'
    OBVIOUS
<1> USE DEF TypeInv, TypeOK, WellFormed
<1>1. ASSUME NEW c \in Cids, CheckKillSwitch(c) PROVE TypeInv'
    BY <1>1 DEF CheckKillSwitch, IdleCaller, exchangeVars
<1>2. CASE ReturnEarly
    BY <1>2 DEF ReturnEarly, IdleCaller, exchangeVars
<1>3. CASE SubmitOrder
  <2>1. Submit(oms, caller.cid) \in [Cids -> Status]
      BY DEF Submit, Status
  <2>2. oms' \in [Cids -> Status]
      BY <1>3, <2>1 DEF SubmitOrder, Submitted
  <2> QED
      BY <1>3, <2>2 DEF SubmitOrder, exchangeVars
<1>4. CASE PostFailed \/ AnswerLost
    BY <1>4 DEF PostFailed, AnswerLost, IdleCaller, exchangeVars
<1>14. CASE PostAnswered
    BY <1>14 DEF PostAnswered, IdleCaller, exchangeVars
<1>5. ASSUME NEW p \in PostIds, PostAccepted(p) PROVE TypeInv'
  <2>1. exch' \in [PostIds -> [cid : Cids \cup {NoCid}, state : ExchState]]
      BY <1>5 DEF PostAccepted, ExchState
  <2>2. afterHalt' \in Nat
      BY <1>5 DEF PostAccepted
  <2>3. WellFormed'
      BY <1>5 DEF PostAccepted
  <2> QED
      BY <1>5, <2>1, <2>2, <2>3 DEF PostAccepted
<1>6. CASE Engage
    BY <1>6 DEF Engage, callerVars, exchangeVars
<1>16. CASE Release
    BY <1>16 DEF Release, callerVars, exchangeVars
<1>7. ASSUME NEW p \in PostIds, NEW s \in Interim, ReportProgress(p, s) PROVE TypeInv'
  <2>1. [cid |-> exch[p].cid, status |-> s] \in Report
      BY <1>7 DEF ReportProgress, Report
  <2>2. stream' \in Seq(Report) /\ lost' \subseteq Cids
      BY <1>7, <2>1, EmitType DEF ReportProgress
  <2> QED
      BY <1>7, <2>2 DEF ReportProgress, callerVars
<1>8. ASSUME NEW p \in PostIds, NEW s \in ExchFinal, Finish(p, s) PROVE TypeInv'
  <2>1. [cid |-> exch[p].cid, status |-> s] \in Report
      BY <1>8 DEF Finish, Report
  <2>2. stream' \in Seq(Report) /\ lost' \subseteq Cids
      BY <1>8, <2>1, EmitType DEF Finish
  <2>3. exch' \in [PostIds -> [cid : Cids \cup {NoCid}, state : ExchState]]
      BY <1>8 DEF Finish, ExchState
  <2>4. WellFormed'
      BY <1>8 DEF Finish, callerVars, ExchFinal, Filed
  <2> QED
      BY <1>8, <2>2, <2>3, <2>4 DEF Finish, callerVars
<1>17. ASSUME NEW p \in PostIds, Repeat(p) PROVE TypeInv'
  <2>1. [cid |-> exch[p].cid, status |-> exch[p].state] \in Report
      BY <1>17 DEF Repeat, Report, ExchFinal, Filed
  <2>2. stream' \in Seq(Report) /\ lost' \subseteq Cids
      BY <1>17, <2>1, EmitType DEF Repeat
  <2> QED
      BY <1>17, <2>2 DEF Repeat, callerVars
<1>9. CASE Disconnect
  <2>0. FinalIn(stream) \subseteq Cids
      BY FinalInType
  <2>1. stream' \in Seq(Report)
      BY <1>9 DEF Disconnect
  <2>2. lost' \subseteq Cids
      BY <1>9, <2>0 DEF Disconnect
  <2> QED
      BY <1>9, <2>1, <2>2 DEF Disconnect, callerVars
<1>15. CASE RaiseOnReport
  <2>0. FinalIn(stream) \subseteq Cids
      BY FinalInType
  <2>1. stream' \in Seq(Report)
      BY <1>15 DEF RaiseOnReport
  <2>2. lost' \subseteq Cids
      BY <1>15, <2>0 DEF RaiseOnReport
  <2> QED
      BY <1>15, <2>1, <2>2 DEF RaiseOnReport, callerVars
<1>10. CASE Reconnect
    BY <1>10 DEF Reconnect, callerVars, exchangeVars
<1>11. CASE IgnoreReport
    BY <1>11 DEF IgnoreReport, callerVars
<1>12. CASE ApplyReport
  <2>1. Head(stream) \in Report
      BY <1>12 DEF ApplyReport
  <2>2. TargetOf(Head(stream).status) \in Status
      BY <1>12, <2>1 DEF ApplyReport, IsNoOp, TargetOf, Report, ExchFinal, Filed, Status, Terminal
  <2>3. oms' \in [Cids -> Status]
      BY <1>12, <2>1, <2>2 DEF ApplyReport, Transition, Report
  <2>4. monitor' \in [orders : Nat, rejects : Nat]
      BY <1>12 DEF ApplyReport
  <2>5. stream' \in Seq(Report)
      BY <1>12 DEF ApplyReport
  <2> QED
      BY <1>12, <2>3, <2>4, <2>5 DEF ApplyReport, callerVars
<1>13. CASE UNCHANGED vars
    BY <1>13 DEF vars
<1> QED
    BY <1>1, <1>2, <1>3, <1>4, <1>5, <1>6, <1>7, <1>8, <1>9, <1>10, <1>11, <1>12, <1>13,
       <1>14, <1>15, <1>16, <1>17
    DEF Next, Caller, Operator, Exchange, Processor

LEMMA TypeInit == Init => TypeInv
<1> SUFFICES ASSUME Init PROVE TypeInv
    OBVIOUS
<1> USE DEF Init
<1>1. WellFormed
    BY LiveAssumption DEF WellFormed, IdleCaller
<1>2. oms \in [Cids -> Status] /\ acks \in [Cids -> PostIds \cup {NoPost}]
    BY DEF Status
<1>3. exch \in [PostIds -> [cid : Cids \cup {NoCid}, state : ExchState]]
    BY DEF ExchState
<1>4. stream \in Seq(Report) /\ monitor \in [orders : Nat, rejects : Nat]
    OBVIOUS
<1> QED
    BY <1>1, <1>2, <1>3, <1>4 DEF TypeInv, TypeOK, IdleCaller

\* The whole state keeps its types: no status, acknowledgement or report ever
\* leaves the domain the code gives it.
THEOREM TypeCorrect == Spec => []TypeOK
<1>1. TypeInv => TypeOK
    BY DEF TypeInv
<1> QED
    BY <1>1, TypeInit, TypeStep, PTL DEF Spec

-----------------------------------------------------------------------------
(* What a step may do to the OMS, to the exchange's orders and to the      *)
(* socket: the facts the invariants below are preserved by.                *)

NewOrder(c) == /\ oms[c] = "absent"
               /\ oms' = [oms EXCEPT ![c] = "NEW"]

Settles(r) == /\ stream # <<>>
              /\ r = Head(stream)
              /\ r.status \in Filed
              /\ oms[r.cid] = "NEW"
              /\ oms' = [oms EXCEPT ![r.cid] = TargetOf(r.status)]

\* The OMS changes by the registration of an id or by a final report.
LEMMA OmsStep ==
    ASSUME TypeInv, [Next]_vars
    PROVE  \/ oms' = oms
           \/ \E c \in Cids : NewOrder(c)
           \/ \E r \in Report : Settles(r)
<1>1. CASE SubmitOrder
  <2>1. caller.cid \in Cids
      BY <1>1 DEF SubmitOrder, TypeInv, WellFormed
  <2>2. oms' = oms \/ NewOrder(caller.cid)
      BY <1>1, <2>1 DEF SubmitOrder, Submitted, Submit, NewOrder, TypeInv, TypeOK
  <2> QED
      BY <2>1, <2>2
<1>2. CASE ApplyReport
  <2>1. Head(stream) \in Report
      BY <1>2 DEF ApplyReport, TypeInv, TypeOK
  <2>2. Settles(Head(stream))
      BY <1>2, <2>1
      DEF ApplyReport, Settles, IsNoOp, MaySettle, MayTransition, Transition, Report
  <2> QED
      BY <2>1, <2>2
<1>3. CASE oms' = oms
    BY <1>3
<1> QED
    BY <1>1, <1>2, <1>3
    DEF Next, Caller, Operator, Exchange, Processor, CheckKillSwitch, ReturnEarly, PostAccepted,
        PostFailed, PostAnswered, AnswerLost, Engage, Release, ReportProgress, Finish,
        Repeat, Disconnect, Reconnect, IgnoreReport, RaiseOnReport, vars

\* The exchange's orders change by an accepted POST or by reaching a final state.
LEMMA ExchStep ==
    ASSUME TypeInv, [Next]_vars
    PROVE  \/ exch' = exch
           \/ \E p \in PostIds : PostAccepted(p)
           \/ \E p \in PostIds, s \in ExchFinal : Finish(p, s)
BY DEF Next, Caller, Operator, Exchange, Processor, CheckKillSwitch, ReturnEarly, SubmitOrder,
       PostFailed, PostAnswered, AnswerLost, Engage, Release, ReportProgress, Repeat, Disconnect,
       Reconnect, IgnoreReport, ApplyReport, RaiseOnReport, vars, exchangeVars

\* An order of the exchange keeps its client id, and its final state.
LEMMA ExchKeeps ==
    ASSUME TypeInv, [Next]_vars, NEW p \in PostIds, exch[p].state # "unused"
    PROVE  /\ exch'[p].cid = exch[p].cid
           /\ exch'[p].state # "unused"
           /\ exch[p].state \in ExchFinal => exch'[p] = exch[p]
<1>1. CASE exch' = exch
    BY <1>1
<1>2. ASSUME NEW q \in PostIds, PostAccepted(q)
      PROVE  exch'[p] = exch[p]
    BY <1>2 DEF PostAccepted, TypeInv, TypeOK
<1>3. ASSUME NEW q \in PostIds, NEW s \in ExchFinal, Finish(q, s)
      PROVE  /\ exch'[p].cid = exch[p].cid
             /\ exch'[p].state # "unused"
             /\ exch[p].state \in ExchFinal => exch'[p] = exch[p]
    BY <1>3 DEF Finish, TypeInv, TypeOK, ExchFinal, Filed
<1> QED
    BY <1>1, <1>2, <1>3, ExchStep

\* A report that enters the socket speaks of an order the exchange has, and a
\* final one of its state.
Reports(r, p) == /\ stream' = Append(stream, r)
                 /\ exch[p].state # "unused"
                 /\ r.cid = exch[p].cid
                 /\ r.status \in ExchFinal => exch'[p].state = r.status

\* The socket gains a report, loses its oldest one, or loses everything.
LEMMA StreamStep ==
    ASSUME TypeInv, [Next]_vars
    PROVE  \/ stream' = stream
           \/ stream' = <<>>
           \/ stream # <<>> /\ stream' = Tail(stream)
           \/ \E r \in Report, p \in PostIds : Reports(r, p)
<1>1. ASSUME NEW p \in PostIds, NEW s \in Interim, ReportProgress(p, s)
      PROVE  stream' = stream \/ \E r \in Report : Reports(r, p)
  <2> DEFINE r == [cid |-> exch[p].cid, status |-> s]
  <2>1. r \in Report /\ r.cid = exch[p].cid /\ r.status \notin ExchFinal
      BY <1>1 DEF ReportProgress, Report, TypeInv, WellFormed, Interim, ExchFinal, Filed
  <2>2. stream' = stream \/ stream' = Append(stream, r)
      BY <1>1, EmitCases DEF ReportProgress
  <2> QED
      BY <1>1, <2>1, <2>2 DEF ReportProgress, Reports
<1>2. ASSUME NEW p \in PostIds, NEW s \in ExchFinal, Finish(p, s)
      PROVE  stream' = stream \/ \E r \in Report : Reports(r, p)
  <2> DEFINE r == [cid |-> exch[p].cid, status |-> s]
  <2>1. r \in Report /\ r.cid = exch[p].cid
      BY <1>2 DEF Finish, Report, TypeInv, WellFormed, ExchFinal, Filed
  <2>2. exch'[p].state = r.status
      BY <1>2 DEF Finish, TypeInv, TypeOK
  <2>3. stream' = stream \/ stream' = Append(stream, r)
      BY <1>2, EmitCases DEF Finish
  <2> QED
      BY <1>2, <2>1, <2>2, <2>3 DEF Finish, Reports
<1>3. ASSUME NEW p \in PostIds, Repeat(p)
      PROVE  stream' = stream \/ \E r \in Report : Reports(r, p)
  <2> DEFINE r == [cid |-> exch[p].cid, status |-> exch[p].state]
  <2>1. r \in Report /\ r.cid = exch[p].cid /\ exch'[p].state = r.status
      BY <1>3 DEF Repeat, Report, TypeInv, WellFormed, ExchFinal, Filed
  <2>2. stream' = stream \/ stream' = Append(stream, r)
      BY <1>3, EmitCases DEF Repeat
  <2>3. exch[p].state # "unused"
      BY <1>3 DEF Repeat, ExchFinal, Filed
  <2> QED
      BY <2>1, <2>2, <2>3 DEF Reports
<1> QED
    BY <1>1, <1>2, <1>3
    DEF Next, Caller, Operator, Exchange, Processor, CheckKillSwitch, ReturnEarly, SubmitOrder,
        PostAccepted, PostFailed, PostAnswered, AnswerLost, Engage, Release, Disconnect,
        Reconnect, IgnoreReport, ApplyReport, RaiseOnReport, vars, exchangeVars

-----------------------------------------------------------------------------
(* The invariant that carries every safety theorem: registration precedes  *)
(* the POST, which precedes the reports; and what the socket says is what  *)
(* some order of the exchange did.                                         *)

CallInv ==
    /\ caller.at \in {"submitted", "awaiting"} => /\ oms[caller.cid] # "absent"
                                                 /\ acks[caller.cid] = NoPost
    /\ caller.at = "awaiting" => exch[caller.post].cid = caller.cid

ExchInv == \A p \in PostIds : exch[p].state # "unused" => oms[exch[p].cid] # "absent"

Happened(c, s) == \E p \in PostIds : exch[p].cid = c /\ exch[p].state = s

StreamInv ==
    \A i \in 1..Len(stream) : /\ oms[stream[i].cid] # "absent"
                              /\ stream[i].status \in ExchFinal =>
                                    Happened(stream[i].cid, stream[i].status)

OmsInv == \A c \in Cids : oms[c] \in Terminal =>
             \E s \in ExchFinal : TargetOf(s) = oms[c] /\ Happened(c, s)

HaltInv == halted => afterHalt <= (IF caller.at \in {"checked", "submitted"} THEN 0 ELSE 1)

OrderInv == TypeInv /\ CallInv /\ ExchInv /\ StreamInv /\ OmsInv /\ AcksAreGenuine

\* A registered id stays registered.
LEMMA OmsKeeps ==
    ASSUME TypeInv, [Next]_vars, NEW c \in Cids, oms[c] # "absent"
    PROVE  oms'[c] # "absent"
<1>1. ASSUME NEW d \in Cids, NewOrder(d) PROVE oms'[c] # "absent"
    BY <1>1 DEF NewOrder, TypeInv, TypeOK
<1>2. ASSUME NEW r \in Report, Settles(r) PROVE oms'[c] # "absent"
    BY <1>2 DEF Settles, TypeInv, TypeOK, TargetOf, ExchFinal, Filed, Report
<1> QED
    BY <1>1, <1>2, OmsStep

\* What happened at the exchange stays so.
LEMMA HappenedKeeps ==
    ASSUME TypeInv, [Next]_vars, NEW c \in Cids, NEW s \in ExchFinal, Happened(c, s)
    PROVE  Happened(c, s)'
<1>1. PICK p \in PostIds : exch[p].cid = c /\ exch[p].state = s
    BY DEF Happened
<1>2. exch'[p] = exch[p]
    BY <1>1, ExchKeeps DEF ExchFinal, Filed
<1> QED
    BY <1>1, <1>2 DEF Happened

LEMMA ExchInvStep ==
    ASSUME OrderInv, [Next]_vars PROVE ExchInv'
<1> SUFFICES ASSUME NEW p \in PostIds, exch'[p].state # "unused"
             PROVE  oms'[exch'[p].cid] # "absent"
    BY DEF ExchInv
<1>1. CASE exch[p].state # "unused"
  <2>1. exch[p].cid \in Cids /\ oms[exch[p].cid] # "absent" /\ exch'[p].cid = exch[p].cid
      BY <1>1, ExchKeeps DEF OrderInv, ExchInv, TypeInv, WellFormed
  <2> QED
      BY <2>1, OmsKeeps DEF OrderInv
<1>2. CASE exch[p].state = "unused"
  <2>1. PostAccepted(p)
    <3>1. ASSUME NEW q \in PostIds, PostAccepted(q) PROVE p = q
        BY <3>1, <1>2 DEF PostAccepted, OrderInv, TypeInv, TypeOK
    <3>2. ASSUME NEW q \in PostIds, NEW s \in ExchFinal, Finish(q, s) PROVE FALSE
        BY <3>2, <1>2 DEF Finish, OrderInv, TypeInv, TypeOK
    <3> QED
        BY <1>2, <3>1, <3>2, ExchStep DEF OrderInv
  <2>2. exch'[p].cid = caller.cid /\ oms' = oms /\ oms[caller.cid] # "absent"
      BY <2>1 DEF PostAccepted, OrderInv, CallInv, TypeInv, TypeOK
  <2> QED
      BY <2>2
<1> QED
    BY <1>1, <1>2

LEMMA StreamInvStep ==
    ASSUME OrderInv, [Next]_vars PROVE StreamInv'
<1> DEFINE Known(r) == /\ oms[r.cid] # "absent"
                       /\ r.status \in ExchFinal => Happened(r.cid, r.status)
           KnownNext(r) == /\ oms'[r.cid] # "absent"
                           /\ r.status \in ExchFinal =>
                                \E p \in PostIds : exch'[p].cid = r.cid /\ exch'[p].state = r.status
<1>1. ASSUME NEW r \in Report, Known(r) PROVE KnownNext(r)
  <2>1. r.cid \in Cids /\ oms'[r.cid] # "absent"
      BY <1>1, OmsKeeps DEF OrderInv, Report
  <2>2. ASSUME r.status \in ExchFinal
        PROVE  \E p \in PostIds : exch'[p].cid = r.cid /\ exch'[p].state = r.status
      BY <1>1, <2>1, <2>2, HappenedKeeps DEF OrderInv, Happened
  <2> QED
      BY <2>1, <2>2
<1>2. \A i \in 1..Len(stream) : stream[i] \in Report /\ Known(stream[i])
    BY DEF OrderInv, StreamInv, TypeInv, TypeOK
<1>3. ASSUME NEW r \in Report, NEW p \in PostIds, Reports(r, p)
      PROVE  KnownNext(r)
  <2>1. r.cid \in Cids /\ oms'[r.cid] # "absent" /\ exch'[p].cid = r.cid
      BY <1>3, OmsKeeps, ExchKeeps DEF Reports, OrderInv, ExchInv, Report
  <2> QED
      BY <1>3, <2>1 DEF Reports
<1>4. \A i \in 1..Len(stream') : KnownNext(stream'[i])
  <2>1. CASE stream' = stream
      BY <1>1, <1>2, <2>1
  <2>2. CASE stream' = <<>>
      BY <2>2
  <2>3. CASE stream # <<>> /\ stream' = Tail(stream)
    <3> SUFFICES ASSUME NEW i \in 1..Len(stream') PROVE KnownNext(stream'[i])
        OBVIOUS
    <3>1. i + 1 \in 1..Len(stream) /\ stream'[i] = stream[i + 1]
        BY <2>3 DEF OrderInv, TypeInv, TypeOK
    <3> QED
        BY <1>1, <1>2, <3>1
  <2>4. ASSUME NEW r \in Report, NEW p \in PostIds, Reports(r, p)
        PROVE  \A i \in 1..Len(stream') : KnownNext(stream'[i])
    <3> SUFFICES ASSUME NEW i \in 1..Len(stream') PROVE KnownNext(stream'[i])
        OBVIOUS
    <3>1. stream'[i] = r \/ (i \in 1..Len(stream) /\ stream'[i] = stream[i])
        BY <2>4 DEF Reports, OrderInv, TypeInv, TypeOK
    <3> QED
        BY <1>1, <1>2, <1>3, <2>4, <3>1
  <2> QED
      BY <2>1, <2>2, <2>3, <2>4, StreamStep DEF OrderInv
<1> QED
    BY <1>4 DEF StreamInv, Happened

LEMMA OmsInvStep ==
    ASSUME OrderInv, [Next]_vars PROVE OmsInv'
<1> SUFFICES ASSUME NEW c \in Cids, oms'[c] \in Terminal
             PROVE  \E s \in ExchFinal : TargetOf(s) = oms'[c] /\ Happened(c, s)'
    BY DEF OmsInv, TargetOf
<1>1. CASE oms'[c] = oms[c]
  <2>1. PICK s \in ExchFinal : TargetOf(s) = oms[c] /\ Happened(c, s)
      BY <1>1 DEF OrderInv, OmsInv
  <2> QED
      BY <1>1, <2>1, HappenedKeeps DEF OrderInv
<1>2. ASSUME NEW d \in Cids, NewOrder(d) PROVE oms'[c] = oms[c]
    BY <1>2 DEF NewOrder, OrderInv, TypeInv, TypeOK, Terminal
<1>3. ASSUME NEW r \in Report, Settles(r), oms'[c] # oms[c]
      PROVE  \E s \in ExchFinal : TargetOf(s) = oms'[c] /\ Happened(c, s)'
  <2>1. c = r.cid /\ oms'[c] = TargetOf(r.status) /\ r.status \in ExchFinal
      BY <1>3 DEF Settles, OrderInv, TypeInv, TypeOK, ExchFinal
  <2>2. Happened(c, r.status)
      BY <1>3, <2>1 DEF Settles, OrderInv, StreamInv, TypeInv, TypeOK
  <2> QED
      BY <2>1, <2>2, HappenedKeeps DEF OrderInv
<1> QED
    BY <1>1, <1>2, <1>3, OmsStep DEF OrderInv

\* The steps of the caller's thread; every other step leaves its state alone.
LEMMA CallerStep ==
    ASSUME [Next]_vars
    PROVE  Caller \/ (caller' = caller /\ acks' = acks)
BY DEF Next, Operator, Exchange, Processor, Engage, Release, ReportProgress, Finish,
       Repeat, Disconnect, Reconnect, IgnoreReport, ApplyReport, RaiseOnReport, vars, callerVars

LEMMA CallInvStep ==
    ASSUME OrderInv, [Next]_vars PROVE CallInv' /\ AcksAreGenuine'
<1> USE DEF OrderInv
<1>1. ASSUME NEW c \in Cids, NEW p \in PostIds, exch[p].cid = c
      PROVE  exch'[p].cid = c /\ exch'[p].state # "unused"
    BY <1>1, ExchKeeps DEF TypeInv, WellFormed
<1>2. ASSUME NEW c \in Cids, acks[c] # NoPost
      PROVE  exch'[acks[c]].cid = c /\ oms'[c] # "absent"
    BY <1>1, <1>2, OmsKeeps DEF AcksAreGenuine, TypeInv, TypeOK
<1>3. CASE caller' = caller /\ acks' = acks
  <2>1. AcksAreGenuine'
      BY <1>2, <1>3 DEF AcksAreGenuine
  <2>2. CallInv'
      BY <1>1, <1>3, OmsKeeps DEF CallInv, TypeInv, WellFormed
  <2> QED
      BY <2>1, <2>2
<1>4. ASSUME NEW c \in Cids, CheckKillSwitch(c) PROVE CallInv' /\ AcksAreGenuine'
    BY <1>2, <1>4 DEF CheckKillSwitch, IdleCaller, CallInv, AcksAreGenuine
<1>5. CASE ReturnEarly \/ PostFailed \/ AnswerLost
    BY <1>2, <1>5 DEF ReturnEarly, PostFailed, AnswerLost, IdleCaller, CallInv, AcksAreGenuine
<1>6. CASE SubmitOrder
  <2>1. caller.cid \in Cids /\ oms'[caller.cid] # "absent"
      BY <1>6 DEF SubmitOrder, Submitted, Submit, TypeInv, TypeOK, WellFormed
  <2>2. caller'.at = "submitted" /\ caller'.cid = caller.cid /\ acks' = acks
      BY <1>6 DEF SubmitOrder, TypeInv, TypeOK
  <2>3. acks[caller.cid] = NoPost
      BY <1>6 DEF SubmitOrder, IsCached
  <2> QED
      BY <1>2, <2>1, <2>2, <2>3 DEF CallInv, AcksAreGenuine
<1>7. ASSUME NEW p \in PostIds, PostAccepted(p) PROVE CallInv' /\ AcksAreGenuine'
  <2>1. /\ caller'.at = "awaiting" /\ caller'.cid = caller.cid /\ caller'.post = p
        /\ acks' = acks /\ oms' = oms /\ exch'[p].cid = caller.cid
      BY <1>7 DEF PostAccepted, TypeInv, TypeOK
  <2> QED
      BY <1>2, <1>7, <2>1 DEF CallInv, AcksAreGenuine, PostAccepted
<1>8. CASE PostAnswered
  <2>1. caller.cid \in Cids /\ caller.post \in PostIds /\ oms[caller.cid] # "absent"
        /\ exch[caller.post].cid = caller.cid
      BY <1>8 DEF PostAnswered, CallInv, TypeInv, WellFormed
  <2>2. caller'.at = "idle" /\ acks' = [acks EXCEPT ![caller.cid] = caller.post]
        /\ oms' = oms /\ exch' = exch
      BY <1>8 DEF PostAnswered, IdleCaller, exchangeVars
  <2>3. AcksAreGenuine'
      BY <2>1, <2>2 DEF AcksAreGenuine, TypeInv, TypeOK
  <2> QED
      BY <2>2, <2>3 DEF CallInv
<1> QED
    BY <1>3, <1>4, <1>5, <1>6, <1>7, <1>8, CallerStep DEF Caller

-----------------------------------------------------------------------------
(* The theorems *)

LEMMA OrderInvInit == Init => OrderInv
<1> SUFFICES ASSUME Init PROVE OrderInv
    OBVIOUS
<1>1. CallInv /\ ExchInv /\ AcksAreGenuine
    BY DEF Init, CallInv, ExchInv, AcksAreGenuine, IdleCaller
<1>2. StreamInv
    BY DEF Init, StreamInv
<1>3. OmsInv
    BY DEF Init, OmsInv, Terminal
<1> QED
    BY <1>1, <1>2, <1>3, TypeInit DEF OrderInv

LEMMA OrderInvStep == OrderInv /\ [Next]_vars => OrderInv'
<1> SUFFICES ASSUME OrderInv, [Next]_vars PROVE OrderInv'
    OBVIOUS
<1>1. TypeInv'
    BY TypeStep DEF OrderInv
<1> QED
    BY <1>1, ExchInvStep, StreamInvStep, OmsInvStep, CallInvStep DEF OrderInv

LEMMA OrderInvCorrect == Spec => []OrderInv
BY OrderInvInit, OrderInvStep, PTL DEF Spec

\* However the callers, the exchange, the socket and the processor interleave, a
\* status the OMS has filed is the one some exchange order of that id ended in.
THEOREM OmsAgrees == Spec => []OmsAgreesWithExchange
<1>1. OrderInv => OmsAgreesWithExchange
    BY DEF OrderInv, OmsInv, Happened, OmsAgreesWithExchange
<1> QED
    BY <1>1, OrderInvCorrect, PTL

\* execute_market registers an id before any report about it can arrive.
THEOREM ReportsAreKnown == Spec => []NoReportOfUnknownOrder
<1>1. OrderInv => NoReportOfUnknownOrder
    BY DEF OrderInv, StreamInv, NoReportOfUnknownOrder
<1> QED
    BY <1>1, OrderInvCorrect, PTL

\* The cache of execute_market never answers with another id's order.
THEOREM AcksCorrect == Spec => []AcksAreGenuine
<1>1. OrderInv => AcksAreGenuine
    BY DEF OrderInv
<1> QED
    BY <1>1, OrderInvCorrect, PTL

\* Once execute_market has an acknowledgement of an id, no later call of it
\* creates a second order at the exchange.
THEOREM NeverResent == Spec => AckedIsNeverResent
<1>1. ASSUME OrderInv, [Next]_vars
      PROVE  \A c \in Cids : acks[c] # NoPost =>
                \A p \in PostIds : exch'[p].cid = c => exch[p].cid = c
  <2> SUFFICES ASSUME NEW c \in Cids, acks[c] # NoPost,
                      NEW p \in PostIds, exch'[p].cid = c
               PROVE  exch[p].cid = c
      OBVIOUS
  <2>1. ASSUME NEW q \in PostIds, PostAccepted(q) PROVE exch[p].cid = c
    <3>1. acks[caller.cid] = NoPost
        BY <1>1, <2>1 DEF PostAccepted, OrderInv, CallInv
    <3> QED
        BY <2>1, <3>1 DEF PostAccepted, OrderInv, TypeInv, TypeOK
  <2>2. ASSUME NEW q \in PostIds, NEW s \in ExchFinal, Finish(q, s)
        PROVE  exch[p].cid = c
      BY <2>2 DEF Finish, OrderInv, TypeInv, TypeOK
  <2> QED
      BY <1>1, <2>1, <2>2, ExchStep DEF OrderInv
<1> QED
    BY <1>1, OrderInvCorrect, PTL DEF Spec, AckedIsNeverResent

\* The processor raises, and the stream goes down with it, only after two POSTs
\* of one id: a single order never ends in two ways.
THEOREM FaultsExplained == Spec => []FaultsComeFromResends
<1>1. ASSUME OrderInv, FaultsComeFromResends, [Next]_vars PROVE FaultsComeFromResends'
  <2>1. CASE RaiseOnReport
    <3> DEFINE r == Head(stream)
    <3>1. r \in Report /\ r = stream[1] /\ 1 \in 1..Len(stream)
        BY <1>1, <2>1 DEF RaiseOnReport, OrderInv, TypeInv, TypeOK
    <3>2. r.cid \in Cids /\ r.status \in ExchFinal /\ oms[r.cid] # TargetOf(r.status)
        BY <1>1, <2>1, <3>1 DEF RaiseOnReport, IsNoOp, Report, ExchFinal
    <3>3. oms[r.cid] \in Terminal
        BY <1>1, <2>1, <3>1, <3>2
        DEF RaiseOnReport, IsNoOp, MaySettle, MayTransition, OrderInv, TypeInv, TypeOK, Status
    <3>4. PICK p \in PostIds : exch[p].cid = r.cid /\ exch[p].state = r.status
        BY <1>1, <3>1, <3>2 DEF OrderInv, StreamInv, Happened
    <3>5. PICK q \in PostIds : exch[q].cid = r.cid /\ TargetOf(exch[q].state) = oms[r.cid]
        BY <1>1, <3>2, <3>3 DEF OrderInv, OmsInv, Happened
    <3>6. exch' = exch /\ p # q /\ r.cid # NoCid
        BY <1>1, <2>1, <3>2, <3>4, <3>5, LiveAssumption DEF RaiseOnReport
    <3> QED
        BY <1>1, <3>4, <3>5, <3>6 DEF FaultsComeFromResends
  <2>2. CASE faults' = faults
    <3>1. ASSUME NEW p \in PostIds, exch[p].cid # NoCid PROVE exch'[p].cid = exch[p].cid
        BY <1>1, <3>1, ExchKeeps DEF OrderInv, TypeInv, TypeOK, WellFormed
    <3> QED
        BY <1>1, <2>2, <3>1 DEF FaultsComeFromResends
  <2> QED
      BY <1>1, <2>1, <2>2
      DEF Next, Caller, Operator, Exchange, Processor, CheckKillSwitch, ReturnEarly, SubmitOrder,
          PostAccepted, PostFailed, PostAnswered, AnswerLost, Engage, Release, ReportProgress,
          Finish, Repeat, Disconnect, Reconnect, IgnoreReport, ApplyReport, vars
<1>2. Init => FaultsComeFromResends
    BY DEF Init, FaultsComeFromResends
<1> QED
    BY <1>1, <1>2, OrderInvCorrect, PTL DEF Spec

\* After an engage at most one more order is created: that of the call that had
\* already passed its check.
THEOREM HaltBound == Spec => []HaltBoundsExposure
<1>1. Init => HaltInv
    BY DEF Init, HaltInv
<1>2. ASSUME TypeInv, HaltInv, [Next]_vars PROVE HaltInv'
  <2> USE DEF TypeInv, TypeOK, HaltInv
  <2>1. CASE Engage
      BY <1>2, <2>1 DEF Engage
  <2>2. CASE Release
      BY <1>2, <2>2 DEF Release
  <2>3. ASSUME NEW p \in PostIds, PostAccepted(p) PROVE HaltInv'
    <3>1. caller.at = "submitted" /\ caller'.at = "awaiting" /\ halted' = halted
        BY <1>2, <2>3 DEF PostAccepted
    <3>2. halted => afterHalt = 0 /\ afterHalt' = afterHalt + 1
        BY <1>2, <2>3, <3>1 DEF PostAccepted
    <3> QED
        BY <1>2, <3>1, <3>2
  <2>4. ASSUME NEW c \in Cids, CheckKillSwitch(c) PROVE HaltInv'
      BY <1>2, <2>4 DEF CheckKillSwitch, AllowsExecution
  <2>5. CASE SubmitOrder
    <3>1. /\ caller.at = "checked" /\ caller'.at = "submitted"
          /\ halted' = halted /\ afterHalt' = afterHalt
        BY <1>2, <2>5 DEF SubmitOrder
    <3> QED
        BY <1>2, <3>1
  <2>6. CASE ReturnEarly \/ PostFailed \/ PostAnswered \/ AnswerLost
    <3>1. caller'.at = "idle" /\ halted' = halted /\ afterHalt' = afterHalt
        BY <1>2, <2>6 DEF ReturnEarly, PostFailed, PostAnswered, AnswerLost, IdleCaller
    <3> QED
        BY <1>2, <3>1
  <2>7. CASE halted' = halted /\ afterHalt' = afterHalt /\ caller' = caller
      BY <1>2, <2>7
  <2> QED
      BY <1>2, <2>1, <2>2, <2>3, <2>4, <2>5, <2>6, <2>7
      DEF Next, Caller, Operator, Exchange, Processor, ReportProgress, Finish, Repeat, Disconnect,
          Reconnect, IgnoreReport, ApplyReport, RaiseOnReport, vars, callerVars
<1>3. TypeInv /\ HaltInv => HaltBoundsExposure
    BY DEF TypeInv, TypeOK, HaltInv, HaltBoundsExposure
<1> QED
    BY <1>1, <1>2, <1>3, TypeInit, TypeStep, PTL DEF Spec

\* The executor and the user stream, sharing one OMS, implement the life cycle:
\* an order is registered once and settles at most once.
THEOREM ImplementsLifecycle == Spec => LifecycleSpec
<1>1. Init => Lifecycle!Init
    BY DEF Init, Lifecycle!Init
<1>2. ASSUME TypeInv, [Next]_vars PROVE [Lifecycle!Next]_oms
  <2>1. ASSUME NEW c \in Cids, NewOrder(c) PROVE Lifecycle!Next
      BY <2>1 DEF NewOrder, Lifecycle!Next, Lifecycle!Register
  <2>2. ASSUME NEW r \in Report, Settles(r) PROVE Lifecycle!Next
    <3>1. r.cid \in Cids /\ TargetOf(r.status) \in Terminal
        BY <2>2 DEF Settles, Report, TargetOf, Filed, Terminal
    <3>2. Lifecycle!Settle(r.cid, TargetOf(r.status))
        BY <2>2 DEF Settles, Lifecycle!Settle
    <3> QED
        BY <3>1, <3>2 DEF Lifecycle!Next, Lifecycle!Terminal, Terminal
  <2> QED
      BY <1>2, <2>1, <2>2, OmsStep
<1> QED
    BY <1>1, <1>2, TypeInit, TypeStep, PTL DEF Spec, LifecycleSpec, Lifecycle!Spec

(***************************************************************************)
(* The user stream service.                                                *)
(***************************************************************************)
-----------------------------------------------------------------------------
(* Type correctness, thread by thread; sockets follows below *)

\* A step of the client thread leaves the stop flags and the keepalive loop alone.
LEMMA ClientType ==
    ASSUME ServiceTypeOK, Client
    PROVE  /\ UNCHANGED <<stopped, keepalive, failures>> /\ stopEvent' \in BOOLEAN
           /\ key' \in Keys \cup {NoKey} /\ reconnect' \in BOOLEAN
           /\ client' \in [at : ClientAt, key : Keys \cup {NoKey}, ws : BOOLEAN]
           /\ missed' \in {missed, NoRequest}
<1> USE DEF ServiceTypeOK, ClientAt, ClientGoes, OthersKeep
<1>1. CASE ClientLoopEnds \/ ClientLooksForKey \/ ClientConnects \/ ClientWakes
    BY <1>1 DEF ClientLoopEnds, ClientLooksForKey, ClientConnects, ClientWakes
<1>2. CASE ClientReadsKey
  <2>1. client' \in [at : ClientAt, key : Keys \cup {NoKey}, ws : BOOLEAN]
      BY <1>2 DEF ClientReadsKey
  <2> QED
      BY <1>2, <2>1 DEF ClientReadsKey
<1>3. CASE ClientRaises \/ ClientInterrupted
    BY <1>3 DEF ClientRaises, ClientInterrupted
<1>4. CASE ClientClearsRequest \/ ClientClearsKey
    BY <1>4 DEF ClientClearsRequest, ClientClearsKey
<1>5. CASE ClientChecksFlags
  <2>1. HeadGoes \in {"closing", "failed", "receiving"}
      BY DEF HeadGoes
  <2> QED
      BY <1>5, <2>1 DEF ClientChecksFlags
<1>6. CASE ClientReceives
    BY <1>6 DEF ClientReceives, AfterReport
<1>7. CASE ClientHandles
  <2> DEFINE to == CASE stopped                -> "quitting"
                     [] ~stopped /\ reconnect  -> "closing"
                     [] ~stopped /\ ~reconnect -> "clearing"
  <2>1. to \in {"quitting", "closing", "clearing"}
      OBVIOUS
  <2>2. client' = [client EXCEPT !.at = to]
      BY <1>7 DEF ClientHandles
  <2> HIDE DEF to
  <2> QED
      BY <1>7, <2>1, <2>2 DEF ClientHandles
<1>8. CASE ClientCloses
  <2>1. client' \in [at : ClientAt, key : Keys \cup {NoKey}, ws : BOOLEAN]
      BY <1>8 DEF ClientCloses
  <2> QED
      BY <1>8, <2>1 DEF ClientCloses
<1>9. CASE ServiceEnds
    BY <1>9 DEF ServiceEnds, StopEventAtEnd
<1>10. ASSUME NEW k \in Keys, ClientCreatesKey(k)
       PROVE  /\ key' \in Keys /\ missed' = NoRequest
              /\ client' \in [at : ClientAt, key : Keys \cup {NoKey}, ws : BOOLEAN]
              /\ OthersKeep /\ UNCHANGED reconnect
    BY <1>10 DEF ClientCreatesKey
<1> QED
    BY <1>1, <1>2, <1>3, <1>4, <1>5, <1>6, <1>7, <1>8, <1>9, <1>10 DEF Client

\* A step of the keepalive thread leaves the client, its socket and the stop flags
\* alone.
LEMMA KeepaliveType ==
    ASSUME ServiceTypeOK, Keepalive
    PROVE  /\ UNCHANGED <<client, stopped, stopEvent, sockets>>
           /\ key' \in Keys \cup {NoKey} /\ reconnect' \in BOOLEAN /\ failures' \in Nat
           /\ keepalive' \in [at : KeepaliveAt, key : Keys \cup {NoKey}]
           /\ missed' \in [at : {"none"} \cup ClientAt, key : Keys \cup {NoKey}]
<1> USE DEF ServiceTypeOK, KeepaliveAt, KeepaliveGoes, ClientKeeps
<1>0. AfterFailure \in {"done", "backoff"}
    BY DEF AfterFailure
<1>1. CASE KeepaliveEnds \/ KeepaliveRenews \/ KeepaliveDies
    BY <1>1 DEF KeepaliveEnds, KeepaliveRenews, KeepaliveDies
<1>2. CASE KeepaliveRaises \/ KeepaliveWakes
    BY <1>2 DEF KeepaliveRaises, KeepaliveWakes
<1>3. CASE KeepaliveLooksForKey \/ KeepaliveReadsKey
    BY <1>3 DEF KeepaliveLooksForKey, KeepaliveReadsKey
<1>4. CASE KeepaliveHandles
    BY <1>0, <1>4 DEF KeepaliveHandles
<1>5. CASE KeepaliveRebuilds
    BY <1>5 DEF KeepaliveRebuilds
<1>6. CASE KeepaliveNotifies
    BY <1>0, <1>6 DEF KeepaliveNotifies
<1>7. ASSUME NEW k \in Keys, KeepaliveCreatesKey(k) \/ KeepaliveRecreatesKey(k)
      PROVE  /\ key' \in Keys /\ ClientKeeps /\ UNCHANGED <<reconnect, failures, missed>>
             /\ keepalive' \in [at : KeepaliveAt, key : Keys \cup {NoKey}]
    BY <1>7 DEF KeepaliveCreatesKey, KeepaliveRecreatesKey
<1> QED
    BY <1>1, <1>2, <1>3, <1>4, <1>5, <1>6, <1>7 DEF Keepalive

-----------------------------------------------------------------------------
(* One socket *)

\* The client counts its own socket: ws says whether one is open, and nowhere
\* between two rounds, nor after the last one, is there a socket left.
SocketInv ==
    /\ sockets = IF client.ws THEN 1 ELSE 0
    /\ client.at \in {"start", "found", "create", "connect", "finished", "done"} => ~client.ws

LEMMA SocketStep ==
    ASSUME ServiceTypeOK, SocketInv, Client
    PROVE  SocketInv'
<1> USE DEF SocketInv, ClientGoes
<1>0. client \in [at : ClientAt, key : Keys \cup {NoKey}, ws : BOOLEAN]
    BY DEF ServiceTypeOK
<1>1. ASSUME UNCHANGED sockets, client'.ws = client.ws,
             client'.at \in {"start", "found", "create", "connect", "finished", "done"}
               => client.at \in {"start", "found", "create", "finished"}
      PROVE  SocketInv'
    BY <1>1
<1>2. CASE ClientLoopEnds \/ ClientLooksForKey \/ ClientClearsRequest \/ ClientReceives
           \/ ClientClearsKey \/ ClientWakes \/ ServiceEnds
    BY <1>0, <1>1, <1>2 DEF ClientLoopEnds, ClientLooksForKey, ClientClearsRequest,
       ClientReceives, ClientClearsKey, ClientWakes, ServiceEnds
<1>3. CASE ClientReadsKey
    BY <1>0, <1>1, <1>3 DEF ClientReadsKey
<1>4. CASE ClientConnects
    BY <1>0, <1>4 DEF ClientConnects
<1>5. CASE ClientRaises \/ ClientInterrupted
    BY <1>0, <1>1, <1>5 DEF ClientRaises, ClientInterrupted
<1>6. CASE ClientChecksFlags
  <2>1. HeadGoes \in {"closing", "failed", "receiving"}
      BY DEF HeadGoes, ServiceTypeOK
  <2> QED
      BY <1>0, <1>1, <1>6, <2>1 DEF ClientChecksFlags
<1>7. CASE ClientHandles
  <2> DEFINE to == CASE stopped                -> "quitting"
                     [] ~stopped /\ reconnect  -> "closing"
                     [] ~stopped /\ ~reconnect -> "clearing"
  <2>1. to \in {"quitting", "closing", "clearing"}
      BY DEF ServiceTypeOK
  <2>2. client' = [client EXCEPT !.at = to] /\ UNCHANGED sockets
      BY <1>7 DEF ClientHandles
  <2> HIDE DEF to
  <2> QED
      BY <1>0, <1>1, <2>1, <2>2
<1>8. CASE ClientCloses
    BY <1>0, <1>8 DEF ClientCloses, Closed
<1>9. ASSUME NEW k \in Keys, ClientCreatesKey(k) PROVE SocketInv'
    BY <1>0, <1>1, <1>9 DEF ClientCreatesKey
<1> QED
    BY <1>2, <1>3, <1>4, <1>5, <1>6, <1>7, <1>8, <1>9 DEF Client

-----------------------------------------------------------------------------
(* The keepalive loop *)

LEMMA RebuiltStep ==
    ASSUME ServiceTypeOK, RebuiltAtThreshold, Keepalive
    PROVE  RebuiltAtThreshold'
<1> USE DEF RebuiltAtThreshold, KeepaliveGoes
<1>0. /\ keepalive \in [at : KeepaliveAt, key : Keys \cup {NoKey}]
      /\ failures \in Nat /\ MaxFailures \in Nat /\ 0 < MaxFailures
    BY StreamAssumption DEF ServiceTypeOK
<1>1. CASE KeepaliveEnds \/ KeepaliveRaises \/ KeepaliveDies
    BY <1>0, <1>1 DEF KeepaliveEnds, KeepaliveRaises, KeepaliveDies
<1>2. CASE KeepaliveLooksForKey \/ KeepaliveReadsKey \/ KeepaliveWakes
    BY <1>0, <1>2 DEF KeepaliveLooksForKey, KeepaliveReadsKey, KeepaliveWakes
<1>3. CASE KeepaliveRenews \/ KeepaliveNotifies
    BY <1>0, <1>3 DEF KeepaliveRenews, KeepaliveNotifies
<1>4. CASE KeepaliveHandles
  <2>1. CASE ThresholdReached
      BY <1>0, <1>4, <2>1 DEF KeepaliveHandles
  <2>2. CASE ~ThresholdReached
      BY <1>0, <1>4, <2>2 DEF KeepaliveHandles, ThresholdReached
  <2> QED
      BY <2>1, <2>2
<1>5. CASE KeepaliveRebuilds
    BY <1>0, <1>5 DEF KeepaliveRebuilds
<1>6. ASSUME NEW k \in Keys, KeepaliveCreatesKey(k) \/ KeepaliveRecreatesKey(k)
      PROVE  RebuiltAtThreshold'
    BY <1>0, <1>6 DEF KeepaliveCreatesKey, KeepaliveRecreatesKey
<1> QED
    BY <1>1, <1>2, <1>3, <1>4, <1>5, <1>6 DEF Keepalive

-----------------------------------------------------------------------------
(* Reconnect requests *)

\* No request made of an earlier socket is remembered while a new one is opened:
\* returning the key serves them all, and meanwhile none counts as listened to.
RequestInv ==
    /\ RequestWhileListeningKept
    /\ client.at \in {"connect", "opened"} => missed.at \notin {"head", "receiving"}

LEMMA RequestClientStep ==
    ASSUME ServiceTypeOK, RequestInv, Client
    PROVE  RequestInv'
<1> USE DEF RequestInv, RequestWhileListeningKept, Listening, ClientGoes
<1>0. client \in [at : ClientAt, key : Keys \cup {NoKey}, ws : BOOLEAN]
    BY DEF ServiceTypeOK
<1>1. ASSUME client'.at \notin {"connect", "opened", "head", "receiving"}
      PROVE  RequestInv'
    BY <1>1
<1>2. CASE ClientLoopEnds \/ ClientLooksForKey \/ ClientClearsKey \/ ClientWakes \/ ServiceEnds
    BY <1>0, <1>1, <1>2
    DEF ClientLoopEnds, ClientLooksForKey, ClientClearsKey, ClientWakes, ServiceEnds
<1>3. CASE ClientReadsKey
    BY <1>0, <1>3 DEF ClientReadsKey, NoRequest
<1>4. CASE ClientConnects \/ ClientClearsRequest
    BY <1>0, <1>4 DEF ClientConnects, ClientClearsRequest
<1>5. CASE ClientRaises \/ ClientInterrupted
    BY <1>0, <1>1, <1>5 DEF ClientRaises, ClientInterrupted
<1>6. CASE ClientChecksFlags
  <2>1. HeadGoes \in {"closing", "failed", "receiving"}
      BY DEF HeadGoes, ServiceTypeOK
  <2> QED
      BY <1>0, <1>1, <1>6, <2>1 DEF ClientChecksFlags
<1>7. CASE ClientReceives
    BY <1>0, <1>7 DEF ClientReceives, AfterReport
<1>8. CASE ClientHandles
  <2> DEFINE to == CASE stopped                -> "quitting"
                     [] ~stopped /\ reconnect  -> "closing"
                     [] ~stopped /\ ~reconnect -> "clearing"
  <2>1. to \in {"quitting", "closing", "clearing"}
      BY DEF ServiceTypeOK
  <2>2. client' = [client EXCEPT !.at = to]
      BY <1>8 DEF ClientHandles
  <2> HIDE DEF to
  <2> QED
      BY <1>0, <1>1, <2>1, <2>2
<1>9. CASE ClientCloses
    BY <1>0, <1>1, <1>9 DEF ClientCloses
<1>10. ASSUME NEW k \in Keys, ClientCreatesKey(k) PROVE RequestInv'
    BY <1>0, <1>10 DEF ClientCreatesKey, NoRequest
<1> QED
    BY <1>2, <1>3, <1>4, <1>5, <1>6, <1>7, <1>8, <1>9, <1>10 DEF Client

\* Only the notification of a rebuild touches the request, and it raises it.
LEMMA RequestKeepaliveStep ==
    ASSUME ServiceTypeOK, RequestInv, Keepalive
    PROVE  RequestInv'
<1> USE DEF RequestInv, RequestWhileListeningKept, Listening
<1>0. UNCHANGED client
    BY KeepaliveType
<1>1. CASE KeepaliveNotifies
    BY <1>0, <1>1 DEF KeepaliveNotifies
<1>2. CASE UNCHANGED <<reconnect, missed>>
    BY <1>0, <1>2
<1> QED
    BY <1>1, <1>2 DEF Keepalive, KeepaliveEnds, KeepaliveLooksForKey, KeepaliveReadsKey,
       KeepaliveRenews, KeepaliveRaises, KeepaliveHandles, KeepaliveRebuilds, KeepaliveDies, KeepaliveWakes,
       KeepaliveCreatesKey, KeepaliveRecreatesKey

-----------------------------------------------------------------------------
(* The inductive invariant *)

ServiceInv == ServiceTypeOK /\ SocketInv /\ RebuiltAtThreshold /\ RequestInv

LEMMA StreamInit == ServiceInit => ServiceInv
<1> SUFFICES ASSUME ServiceInit PROVE ServiceInv
    OBVIOUS
<1> USE DEF ServiceInit
<1>1. ServiceTypeOK
    BY DEF ServiceTypeOK, ClientAt, KeepaliveAt, NoRequest
<1>2. SocketInv /\ RequestInv
    BY DEF SocketInv, RequestInv, RequestWhileListeningKept, Listening, NoRequest
<1>3. RebuiltAtThreshold
    BY StreamAssumption DEF RebuiltAtThreshold
<1> QED
    BY <1>1, <1>2, <1>3 DEF ServiceInv

LEMMA ServiceStep == ServiceInv /\ [ServiceNext]_serviceVars => ServiceInv'
<1> SUFFICES ASSUME ServiceInv, [ServiceNext]_serviceVars PROVE ServiceInv'
    OBVIOUS
<1> USE DEF ServiceInv
<1>1. CASE Client
  <2>1. SocketInv'
      BY <1>1, SocketStep
  <2>2. sockets' \in Nat
      BY <2>1 DEF SocketInv
  <2>3. missed' \in [at : {"none"} \cup ClientAt, key : Keys \cup {NoKey}]
      BY <1>1, ClientType DEF ServiceTypeOK, NoRequest
  <2>4. ServiceTypeOK'
      BY <1>1, <2>2, <2>3, ClientType DEF ServiceTypeOK
  <2>5. RebuiltAtThreshold'
      BY <1>1, ClientType DEF RebuiltAtThreshold
  <2> QED
      BY <1>1, <2>1, <2>4, <2>5, RequestClientStep
<1>2. CASE Keepalive
  <2>1. ServiceTypeOK' /\ SocketInv'
      BY <1>2, KeepaliveType DEF ServiceTypeOK, SocketInv
  <2> QED
      BY <1>2, <2>1, RebuiltStep, RequestKeepaliveStep
<1>3. CASE SetStopEvent \/ StopClient \/ UNCHANGED serviceVars
    BY <1>3 DEF SetStopEvent, StopClient, serviceVars, ServiceTypeOK, SocketInv, RebuiltAtThreshold,
                RequestInv, RequestWhileListeningKept, Listening
<1> QED
    BY <1>1, <1>2, <1>3 DEF ServiceNext

LEMMA StreamInvariance == ServiceSpec => []ServiceInv
<1> QED
    BY StreamInit, ServiceStep, PTL DEF ServiceSpec

\* The flags, keys and counters of the service keep their types, the number of
\* open sockets among them, in every interleaving of its threads.
THEOREM ServiceTypeCorrect == ServiceSpec => []ServiceTypeOK
<1>1. ServiceInv => ServiceTypeOK
    BY DEF ServiceInv
<1> QED
    BY <1>1, StreamInvariance, PTL

\* However its rounds end, the client has at most one socket open, and none
\* between two rounds or once the service is over.
THEOREM AtMostOneSocket == ServiceSpec => []OneSocket
<1>1. ServiceInv => OneSocket
    BY DEF ServiceInv, SocketInv, OneSocket
<1> QED
    BY <1>1, StreamInvariance, PTL

\* Whatever the threshold, a run of that many failures has been met by a rebuild
\* before the keepalive loop sleeps or tries again.
THEOREM RebuiltInTime == ServiceSpec => []RebuiltAtThreshold
<1>1. ServiceInv => RebuiltAtThreshold
    BY DEF ServiceInv
<1> QED
    BY <1>1, StreamInvariance, PTL

\* A reconnect requested while the client listens stays pending for as long as it
\* goes on listening on the same socket, whichever reports it handles meanwhile.
THEOREM RequestsAreKept == ServiceSpec => []RequestWhileListeningKept
<1>1. ServiceInv => RequestWhileListeningKept
    BY DEF ServiceInv, RequestInv
<1> QED
    BY <1>1, StreamInvariance, PTL

=============================================================================
