------------------------ MODULE MultiAccount_proofs ------------------------
(***************************************************************************)
(* Proofs about MultiAccount for every value of its constants: any sets of *)
(* accounts, client ids, symbols, sizes and exchange orders, any rule set, *)
(* any number of calls.                                                    *)
(***************************************************************************)
EXTENDS MultiAccount, FiniteSetTheorems, TLAPS

-----------------------------------------------------------------------------
(* Type correctness *)

InProgress == call.at # "idle"
\* The call has passed the cache and the rules.
Vetted == call.at \in {"submitted", "awaiting"}

\* A call in progress has a request, and an exchange order while it awaits the
\* answer of its POST.
WellFormed ==
    /\ InProgress => call.req \in Requests
    /\ call.at = "awaiting" => call.post \in PostIds /\ exch[call.post] = call.req

TypeInv == TypeOK /\ WellFormed

\* A request is a key and a payload, and never the idle caller's.
LEMMA RequestParts ==
    ASSUME NEW req \in Requests
    PROVE  /\ req.key \in Keys /\ req.key[1] \in Accounts
           /\ req.payload \in Payloads /\ req.payload[2] \in Int
           /\ req = [key |-> req.key, payload |-> req.payload]
           /\ req # Nothing
<1>1. req.key \in Accounts \X Cids /\ req.payload \in Symbols \X Quantities
    BY DEF Requests, Keys, Payloads
<1>2. req.key[1] \in Accounts /\ req.payload[2] \in Quantities
    BY <1>1
<1>3. req.key # NoKey
    BY <1>2, MultiAccountAssumption DEF NoKey
<1>4. req # Nothing
    BY <1>3 DEF Nothing
<1>5. req.payload[2] \in Int
    BY <1>2, MultiAccountAssumption
<1>6. req = [key |-> req.key, payload |-> req.payload]
    BY DEF Requests
<1> QED
    BY <1>1, <1>2, <1>4, <1>5, <1>6 DEF Keys, Payloads

\* Appending an event counts it and nothing else.
LEMMA AuditedCounts ==
    ASSUME TypeOK, NEW type \in AuditType, NEW req \in Requests, Audited(type, req)
    PROVE  /\ audit' \in [AuditType \X Requests -> Nat]
           /\ audit'[<<type, req>>] = audit[<<type, req>>] + 1
           /\ \A t \in AuditType, r \in Requests :
                 t # type \/ r # req => audit'[<<t, r>>] = audit[<<t, r>>]
<1>1. audit \in [AuditType \X Requests -> Nat] /\ <<type, req>> \in AuditType \X Requests
    BY DEF TypeOK
<1>2. ASSUME NEW t \in AuditType, NEW r \in Requests, t # type \/ r # req
      PROVE  audit'[<<t, r>>] = audit[<<t, r>>]
  <2>1. <<t, r>> # <<type, req>> /\ <<t, r>> \in AuditType \X Requests
      BY <1>2
  <2> QED
      BY <1>1, <2>1 DEF Audited
<1> QED
    BY <1>1, <1>2 DEF Audited

LEMMA TypeInit == Init => TypeInv
<1> SUFFICES ASSUME Init PROVE TypeInv
    OBVIOUS
<1> USE DEF Init
<1>1. call \in [at : {"idle", "checked", "submitted", "awaiting"},
                req : Requests \cup {Nothing}, post : PostIds \cup {None}]
    BY DEF IdleCall
<1>2. calls \in 0..MaxCalls
    BY MultiAccountAssumption
<1>3. WellFormed
    BY DEF WellFormed, InProgress, IdleCall
<1>4. oms \in [Keys -> Status]
    BY DEF Status
<1> QED
    BY <1>1, <1>2, <1>3, <1>4 DEF TypeInv, TypeOK

\* The call in progress after any step: the same, idle, or one step on.
LEMMA TypeStep == TypeInv /\ [Next]_vars => TypeInv'
<1> SUFFICES ASSUME TypeInv, [Next]_vars PROVE TypeInv'
    OBVIOUS
<1> USE DEF TypeInv
<1> USE DEF WellFormed, InProgress, executorVars, killSwitch
<1>idle. IdleCall \in [at : {"idle", "checked", "submitted", "awaiting"},
                   req : Requests \cup {Nothing}, post : PostIds \cup {None}]
         /\ IdleCall.at = "idle"
    BY DEF IdleCall
<1>1. ASSUME NEW req \in Requests, Call(req) PROVE TypeInv'
  <2>0. calls' \in 0..MaxCalls
      BY <1>1, MultiAccountAssumption DEF Call, TypeOK
  <2>1. call' = [at |-> "checked", req |-> req, post |-> None]
      BY <1>1 DEF Call, IdleCall
  <2> QED
      BY <1>1, <2>0, <2>1 DEF Call, TypeOK
<1>2. CASE ReturnCached
  <2>1. audit' \in [AuditType \X Requests -> Nat]
      BY <1>2, AuditedCounts DEF ReturnCached, AuditType, TypeOK
  <2> QED
      BY <1>2, <1>idle, <2>1 DEF ReturnCached, TypeOK
<1>3. CASE BlockOrder
  <2>1. audit' \in [AuditType \X Requests -> Nat]
      BY <1>3, AuditedCounts DEF BlockOrder, AuditType
  <2> QED
      BY <1>3, <1>idle, <2>1 DEF BlockOrder, TypeOK
<1>4. CASE SubmitOrder
  <2>1. call.req \in Requests /\ call.req.key \in Keys /\ call.req.payload \in Payloads
      BY <1>4, RequestParts DEF SubmitOrder
  <2>2. audit' \in [AuditType \X Requests -> Nat]
      BY <1>4, <2>1, AuditedCounts DEF SubmitOrder, AuditType
  <2>3. oms' \in [Keys -> Status]
      BY <1>4, <2>1 DEF SubmitOrder, TypeOK, Submit, Status
  <2>4. registered' \in [Keys -> Payloads \cup {NoKey}]
      BY <1>4, <2>1 DEF SubmitOrder, TypeOK
  <2>5. call' \in [at : {"idle", "checked", "submitted", "awaiting"},
                   req : Requests \cup {Nothing}, post : PostIds \cup {None}]
        /\ call'.at = "submitted" /\ call'.req = call.req
      BY <1>4 DEF SubmitOrder, TypeOK
  <2> QED
      BY <1>4, <2>1, <2>2, <2>3, <2>4, <2>5 DEF SubmitOrder, TypeOK
<1>5. CASE RefuseSettled \/ PostFails
    BY <1>5, <1>idle DEF RefuseSettled, PostFails, TypeOK
<1>6. CASE PostAnswered
  <2>1. call.req \in Requests /\ call.req.key \in Keys /\ call.req.payload \in Payloads
        /\ call.post \in PostIds
      BY <1>6, RequestParts DEF PostAnswered
  <2>2. audit' \in [AuditType \X Requests -> Nat]
      BY <1>6, <2>1, AuditedCounts DEF PostAnswered, AuditType
  <2>3. acks' \in [Keys -> PostIds \cup {None}]
      BY <1>6, <2>1 DEF PostAnswered, TypeOK
  <2>4. fingerprint' \in [Keys -> Payloads \cup {NoKey}]
      BY <1>6, <2>1 DEF PostAnswered, TypeOK, Fingerprint
  <2> QED
      BY <1>6, <1>idle, <2>2, <2>3, <2>4 DEF PostAnswered, TypeOK
<1>7. ASSUME NEW p \in PostIds, PostAccepted(p) PROVE TypeInv'
  <2>1. call.req \in Requests /\ call.req.key[1] \in Accounts
      BY <1>7, RequestParts DEF PostAccepted
  <2>2. exch' \in [PostIds -> Requests \cup {Nothing}] /\ exch'[p] = call.req
      BY <1>7, <2>1 DEF PostAccepted, TypeOK
  <2>3. afterHalt' \in [Accounts -> Nat]
      BY <1>7, <2>1 DEF PostAccepted, TypeOK
  <2>4. call' \in [at : {"idle", "checked", "submitted", "awaiting"},
                   req : Requests \cup {Nothing}, post : PostIds \cup {None}]
        /\ call'.at = "awaiting" /\ call'.req = call.req /\ call'.post = p
      BY <1>7 DEF PostAccepted, TypeOK
  <2> QED
      BY <1>7, <2>1, <2>2, <2>3, <2>4 DEF PostAccepted, TypeOK
<1>8. CASE EngageGlobal
  <2>1. afterHalt' \in [Accounts -> Nat]
      BY <1>8 DEF EngageGlobal, TypeOK
  <2> QED
      BY <1>8, <2>1 DEF EngageGlobal, TypeOK
<1>9. ASSUME NEW a \in Accounts, EngageAccount(a) PROVE TypeInv'
  <2>1. afterHalt' \in [Accounts -> Nat]
      BY <1>9 DEF EngageAccount, TypeOK
  <2> QED
      BY <1>9, <2>1 DEF EngageAccount, TypeOK
<1>10. CASE Release
    BY <1>10 DEF Release, TypeOK
<1>11. ASSUME NEW k \in Keys, NEW t \in Terminal, Settle(k, t) PROVE TypeInv'
  <2>1. oms' \in [Keys -> Status]
      BY <1>11 DEF Settle, TypeOK, Transition, Status
  <2> QED
      BY <1>11, <2>1 DEF Settle, TypeOK
<1>12. CASE UNCHANGED vars
    BY <1>12 DEF vars, TypeOK
<1> QED
    BY <1>1, <1>2, <1>3, <1>4, <1>5, <1>6, <1>7, <1>8, <1>9, <1>10, <1>11, <1>12
    DEF Next, Executor, Operator

LEMMA TypeInvariance == Spec => []TypeInv
<1> QED
    BY TypeInit, TypeStep, PTL DEF Spec

\* The books of the executor and the kill switch keep their types in every
\* behaviour of the callers, the operator and the exchanges.
THEOREM TypeCorrect == Spec => []TypeOK
<1>1. TypeInv => TypeOK
    BY DEF TypeInv
<1> QED
    BY <1>1, TypeInvariance, PTL

-----------------------------------------------------------------------------
(* Halting bounds exposure *)

\* While an account is halted, the call in progress accounts for the one order
\* it may still get: before its POST it has got none.
ExposureInv ==
    \A a \in Accounts : Halted(a) =>
        /\ afterHalt[a] <= 1
        /\ call.at \in {"checked", "submitted"} /\ call.req.key[1] = a => afterHalt[a] = 0

LEMMA ExposureStep ==
    ASSUME TypeInv, ExposureInv, [Next]_vars
    PROVE  ExposureInv'
<1> USE DEF ExposureInv, Halted
<1>0. \A a \in Accounts : afterHalt[a] \in Nat
    BY DEF TypeInv, TypeOK
<1>idle. IdleCall.at = "idle"
    BY DEF IdleCall
<1>1. ASSUME NEW req \in Requests, Call(req) PROVE ExposureInv'
  <2>1. call'.req = req /\ ~Halted(req.key[1])
      BY <1>1 DEF Call, IdleCall, AllowsExecution
  <2>2. UNCHANGED <<globalHalt, accountHalts, afterHalt>>
      BY <1>1 DEF Call, killSwitch
  <2> QED
      BY <2>1, <2>2
<1>2. CASE ReturnCached \/ BlockOrder \/ RefuseSettled \/ PostFails \/ PostAnswered
  <2>1. call'.at = "idle" /\ UNCHANGED <<globalHalt, accountHalts, afterHalt>>
      BY <1>2, <1>idle DEF ReturnCached, BlockOrder, RefuseSettled, PostFails, PostAnswered,
                           killSwitch
  <2> QED
      BY <2>1
<1>3. CASE SubmitOrder
  <2>1. /\ call.at = "checked" /\ call'.req = call.req
        /\ UNCHANGED <<globalHalt, accountHalts, afterHalt>>
      BY <1>3 DEF SubmitOrder, killSwitch, TypeInv, TypeOK
  <2> QED
      BY <2>1
<1>4. ASSUME NEW p \in PostIds, PostAccepted(p) PROVE ExposureInv'
  <2> DEFINE b == call.req.key[1]
  <2>1. /\ call.at = "submitted" /\ call'.at = "awaiting"
        /\ UNCHANGED <<globalHalt, accountHalts>>
        /\ afterHalt' = IF Halted(b) THEN [afterHalt EXCEPT ![b] = @ + 1] ELSE afterHalt
      BY <1>4 DEF PostAccepted, killSwitch, TypeInv, TypeOK
  <2>2. b \in Accounts
      BY <2>1, RequestParts DEF TypeInv, WellFormed, InProgress
  <2>3. ASSUME NEW a \in Accounts, Halted(a) PROVE afterHalt'[a] <= 1
    <3>1. CASE a = b
        BY <1>0, <2>1, <2>2, <2>3, <3>1 DEF TypeInv, TypeOK
    <3>2. CASE a # b
        BY <2>1, <2>2, <2>3, <3>2 DEF TypeInv, TypeOK
    <3> QED
        BY <3>1, <3>2
  <2> QED
      BY <2>1, <2>3
<1>5. CASE EngageGlobal
  <2>1. /\ UNCHANGED <<call, accountHalts>> /\ globalHalt'
        /\ \A a \in Accounts : afterHalt'[a] = IF Halted(a) THEN afterHalt[a] ELSE 0
      BY <1>5 DEF EngageGlobal
  <2> QED
      BY <2>1
<1>6. ASSUME NEW b \in Accounts, EngageAccount(b) PROVE ExposureInv'
  <2>1. /\ UNCHANGED <<call, globalHalt>> /\ accountHalts' = accountHalts \cup {b}
        /\ afterHalt' = IF Halted(b) THEN afterHalt ELSE [afterHalt EXCEPT ![b] = 0]
      BY <1>6 DEF EngageAccount
  <2>2. \A a \in Accounts \ {b} : afterHalt'[a] = afterHalt[a]
      BY <2>1 DEF TypeInv, TypeOK
  <2>3. afterHalt'[b] = IF Halted(b) THEN afterHalt[b] ELSE 0
      BY <2>1 DEF TypeInv, TypeOK
  <2> QED
      BY <2>1, <2>2, <2>3
<1>7. CASE Release
  <2>1. /\ UNCHANGED <<call, afterHalt>>
        /\ accountHalts' \subseteq accountHalts /\ (globalHalt' => globalHalt)
      BY <1>7 DEF Release
  <2> QED
      BY <2>1
<1>8. ASSUME NEW k \in Keys, NEW t \in Terminal, Settle(k, t) PROVE ExposureInv'
    BY <1>8 DEF Settle, killSwitch
<1>9. CASE UNCHANGED vars
    BY <1>9 DEF vars, killSwitch
<1> QED
    BY <1>1, <1>2, <1>3, <1>4, <1>5, <1>6, <1>7, <1>8, <1>9 DEF Next, Executor, Operator

\* After an account, or every account, is halted the exchange takes at most one
\* more order from it, whenever the halt comes between the steps of a call.
THEOREM HaltBounds == Spec => []HaltBoundsExposure
<1>1. Init => ExposureInv
    BY DEF Init, ExposureInv, Halted
<1>2. TypeInv /\ ExposureInv /\ [Next]_vars => ExposureInv'
    BY ExposureStep
<1>3. ExposureInv => HaltBoundsExposure
    BY DEF ExposureInv, HaltBoundsExposure
<1> QED
    BY <1>1, <1>2, <1>3, TypeInvariance, PTL DEF Spec

-----------------------------------------------------------------------------
(* Cached answers are faithful *)

\* An order, once created at an exchange, is never created anew.
LEMMA OrdersStay ==
    ASSUME TypeInv, [Next]_vars, NEW p \in PostIds, exch[p] # Nothing
    PROVE  exch'[p] = exch[p]
<1>1. ASSUME NEW r \in PostIds, PostAccepted(r) PROVE exch'[p] = exch[p]
    BY <1>1 DEF PostAccepted, TypeInv, TypeOK
<1>2. CASE UNCHANGED exch
    BY <1>2
<1> QED
    BY <1>1, <1>2 DEF Next, Executor, Operator, Call, ReturnCached, BlockOrder, SubmitOrder,
        RefuseSettled, PostFails, PostAnswered, EngageGlobal, EngageAccount, Release, Settle,
        vars

\* What the cache knows of a key is the order that answered it; a call past the
\* cache has found nothing there; a request was answered from the cache only
\* once the order it was executed with is there, with its payload.
CacheInv ==
    /\ \A k \in Keys : acks[k] # None => exch[acks[k]] = [key |-> k, payload |-> fingerprint[k]]
    /\ Vetted => acks[call.req.key] = None
    /\ \A req \in Requests : audit[<<"idempotent_return", req>>] > 0
          => acks[req.key] # None /\ exch[acks[req.key]] = req

\* An acknowledged order exists.
LEMMA AckedExists ==
    ASSUME TypeInv, CacheInv, NEW k \in Keys, acks[k] # None
    PROVE  acks[k] \in PostIds /\ exch[acks[k]] # Nothing
<1>1. acks[k] \in PostIds
    BY DEF TypeInv, TypeOK
<1>2. exch[acks[k]] = [key |-> k, payload |-> fingerprint[k]]
    BY DEF CacheInv
<1>3. k # NoKey
    BY MultiAccountAssumption DEF Keys, NoKey
<1> QED
    BY <1>1, <1>2, <1>3 DEF Nothing

\* A step that leaves the cache, the answers from it and the vetted call alone
\* keeps them true of the exchange.
LEMMA CacheKept ==
    ASSUME TypeInv, CacheInv, [Next]_vars, UNCHANGED <<acks, fingerprint>>,
           Vetted' => (Vetted /\ call'.req = call.req) \/ acks[call'.req.key] = None,
           \A req \in Requests : audit'[<<"idempotent_return", req>>]
                                  = audit[<<"idempotent_return", req>>]
    PROVE  CacheInv'
<1>1. ASSUME NEW k \in Keys, acks'[k] # None
      PROVE  exch'[acks'[k]] = exch[acks[k]]
    BY <1>1, AckedExists, OrdersStay
<1>2. \A k \in Keys : acks'[k] # None
                      => exch'[acks'[k]] = [key |-> k, payload |-> fingerprint'[k]]
    BY <1>1 DEF CacheInv
<1>3. Vetted' => acks'[call'.req.key] = None
    BY DEF CacheInv
<1>4. ASSUME NEW req \in Requests, audit'[<<"idempotent_return", req>>] > 0
      PROVE  acks'[req.key] # None /\ exch'[acks'[req.key]] = req
    BY <1>1, <1>4, RequestParts DEF CacheInv
<1> QED
    BY <1>2, <1>3, <1>4 DEF CacheInv

LEMMA CacheStep ==
    ASSUME TypeInv, CacheInv, [Next]_vars
    PROVE  CacheInv'
<1>idle. IdleCall.at = "idle"
    BY DEF IdleCall
<1>0. ASSUME NEW type \in AuditType \ {"idempotent_return"}, call.req \in Requests,
             Audited(type, call.req)
      PROVE  \A r \in Requests : audit'[<<"idempotent_return", r>>]
                                  = audit[<<"idempotent_return", r>>]
  <2>1. TypeOK /\ type \in AuditType /\ "idempotent_return" \in AuditType
      BY DEF TypeInv, AuditType
  <2> QED
      BY <1>0, <2>1, AuditedCounts, Zenon
<1>1. ASSUME NEW req \in Requests, Call(req) PROVE CacheInv'
    BY <1>1, CacheKept DEF Call, IdleCall, Vetted, executorVars
<1>2. CASE ReturnCached
  <2> DEFINE req == call.req
             k == req.key
  <2>1. /\ req \in Requests /\ k \in Keys /\ acks[k] # None
        /\ UNCHANGED <<acks, fingerprint, exch>> /\ ~Vetted'
      BY <1>2, <1>idle, RequestParts
      DEF ReturnCached, Cached, TypeInv, WellFormed, InProgress, Vetted
  <2>2. CASE Conflicts(req)
      BY <1>2, <2>1, <2>2, CacheKept DEF ReturnCached
  <2>3. CASE ~Conflicts(req)
    <3>1. Audited("idempotent_return", req)
        BY <1>2, <2>3 DEF ReturnCached
    <3>2. \A r \in Requests : r # req => audit'[<<"idempotent_return", r>>]
                                         = audit[<<"idempotent_return", r>>]
      <4>1. TypeOK /\ req \in Requests /\ "idempotent_return" \in AuditType
          BY <2>1 DEF TypeInv, AuditType
      <4> HIDE DEF req
      <4> QED
          BY <3>1, <4>1, AuditedCounts, Zenon
    <3>3. exch[acks[k]] = [key |-> k, payload |-> req.payload]
        BY <2>1, <2>3 DEF Conflicts, CacheInv
    <3>4. exch[acks[k]] = req
        BY <2>1, <3>3, RequestParts
    <3>5. ASSUME NEW r \in Requests, audit'[<<"idempotent_return", r>>] > 0
          PROVE  acks'[r.key] # None /\ exch'[acks'[r.key]] = r
      <4>1. CASE r = req
          BY <2>1, <3>4, <4>1
      <4>2. CASE r # req
          BY <2>1, <3>2, <3>5, <4>2 DEF CacheInv
      <4> QED
          BY <4>1, <4>2
    <3> QED
        BY <2>1, <3>5 DEF CacheInv
  <2> QED
      BY <2>2, <2>3
<1>3. CASE BlockOrder
  <2>1. call.req \in Requests /\ ~Vetted' /\ UNCHANGED <<acks, fingerprint>>
      BY <1>3, <1>idle DEF BlockOrder, TypeInv, WellFormed, InProgress, Vetted
  <2>2. \A r \in Requests : audit'[<<"idempotent_return", r>>]
                            = audit[<<"idempotent_return", r>>]
      BY <1>0, <1>3, <2>1 DEF BlockOrder, AuditType
  <2> QED
      BY <2>1, <2>2, CacheKept
<1>4. CASE SubmitOrder
  <2>1. /\ call.req \in Requests /\ call'.req = call.req /\ UNCHANGED <<acks, fingerprint>>
        /\ acks[call.req.key] = None
      BY <1>4 DEF SubmitOrder, Cached, TypeInv, TypeOK, WellFormed, InProgress
  <2>2. \A r \in Requests : audit'[<<"idempotent_return", r>>]
                            = audit[<<"idempotent_return", r>>]
      BY <1>0, <1>4, <2>1 DEF SubmitOrder, AuditType
  <2> QED
      BY <2>1, <2>2, CacheKept
<1>5. CASE RefuseSettled \/ PostFails
    BY <1>5, <1>idle, CacheKept DEF RefuseSettled, PostFails, executorVars, Vetted
<1>6. CASE PostAnswered
  <2> DEFINE req == call.req
             k == req.key
  <2>1. /\ req \in Requests /\ k \in Keys /\ call.post \in PostIds
        /\ exch[call.post] = req /\ acks[k] = None
        /\ UNCHANGED exch /\ ~Vetted'
      BY <1>6, <1>idle, RequestParts
      DEF PostAnswered, TypeInv, WellFormed, InProgress, Vetted, CacheInv
  <2>2. /\ acks' = [acks EXCEPT ![k] = call.post]
        /\ fingerprint' = [fingerprint EXCEPT ![k] = req.payload]
      BY <1>6 DEF PostAnswered, Fingerprint
  <2>3. \A r \in Requests : audit'[<<"idempotent_return", r>>]
                            = audit[<<"idempotent_return", r>>]
      BY <1>0, <1>6, <2>1 DEF PostAnswered, AuditType
  <2>4. acks'[k] = call.post /\ fingerprint'[k] = req.payload
      BY <2>1, <2>2 DEF TypeInv, TypeOK
  <2>5. \A j \in Keys \ {k} : acks'[j] = acks[j] /\ fingerprint'[j] = fingerprint[j]
      BY <2>2 DEF TypeInv, TypeOK
  <2>6. \A j \in Keys : acks'[j] # None
                        => exch'[acks'[j]] = [key |-> j, payload |-> fingerprint'[j]]
      BY <2>1, <2>4, <2>5, RequestParts DEF CacheInv
  <2>7. ASSUME NEW r \in Requests, audit'[<<"idempotent_return", r>>] > 0
        PROVE  acks'[r.key] # None /\ exch'[acks'[r.key]] = r
    <3>1. acks[r.key] # None /\ exch[acks[r.key]] = r
        BY <2>3, <2>7 DEF CacheInv
    <3>2. r.key \in Keys \ {k}
        BY <2>1, <3>1, RequestParts
    <3> QED
        BY <2>1, <2>5, <3>1, <3>2
  <2> QED
      BY <2>1, <2>6, <2>7 DEF CacheInv
<1>7. ASSUME NEW p \in PostIds, PostAccepted(p) PROVE CacheInv'
    BY <1>7, CacheKept DEF PostAccepted, executorVars, Vetted, TypeInv, TypeOK
<1>8. CASE Operator \/ \E k \in Keys, t \in Terminal : Settle(k, t)
    BY <1>8, CacheKept DEF Operator, EngageGlobal, EngageAccount, Release, Settle, executorVars,
                           Vetted
<1>9. CASE UNCHANGED vars
    BY <1>9, CacheKept DEF vars, executorVars, Vetted
<1> QED
    BY <1>1, <1>2, <1>3, <1>4, <1>5, <1>6, <1>7, <1>8, <1>9 DEF Next, Executor

LEMMA CacheInvariance == Spec => []CacheInv
<1>1. Init => CacheInv
  <2> SUFFICES ASSUME Init PROVE CacheInv
      OBVIOUS
  <2> USE DEF Init
  <2>1. ~Vetted
      BY DEF Vetted, IdleCall
  <2>2. \A req \in Requests : audit[<<"idempotent_return", req>>] = 0
      BY DEF AuditType
  <2> QED
      BY <2>1, <2>2 DEF CacheInv
<1>2. TypeInv /\ CacheInv /\ [Next]_vars => CacheInv'
    BY CacheStep
<1> QED
    BY <1>1, <1>2, TypeInvariance, PTL DEF Spec

\* A request answered from the cache was executed with that very payload on that
\* very account, whichever calls reuse its id in between.
THEOREM ReturnsAreFaithful == Spec => []IdempotentReturnsAreFaithful
<1>1. CacheInv => IdempotentReturnsAreFaithful
    BY DEF CacheInv, IdempotentReturnsAreFaithful
<1> QED
    BY <1>1, CacheInvariance, PTL

\* An exchange takes an order only under a key without an acknowledgement.
AckedIsNeverResent ==
    [][\A p \in PostIds : exch[p] = Nothing /\ exch'[p] # Nothing
                           => acks[exch'[p].key] = None]_vars

\* Once an (account, id) is acknowledged, no gateway POSTs an order for it again,
\* whichever payload it is asked for and whatever becomes of the order.
THEOREM NeverResent == Spec => AckedIsNeverResent
<1>1. ASSUME TypeInv, CacheInv, [Next]_vars,
             NEW p \in PostIds, exch[p] = Nothing, exch'[p] # Nothing
      PROVE  acks[exch'[p].key] = None
  <2>1. PICK r \in PostIds : PostAccepted(r)
      BY <1>1 DEF Next, Executor, Operator, Call, ReturnCached, BlockOrder, SubmitOrder,
          RefuseSettled, PostFails, PostAnswered, EngageGlobal, EngageAccount, Release, Settle,
          vars
  <2>2. exch'[p] = call.req /\ Vetted
      BY <1>1, <2>1 DEF PostAccepted, TypeInv, TypeOK, Vetted
  <2> QED
      BY <1>1, <2>2 DEF CacheInv
<1>2. TypeInv /\ CacheInv /\ [Next]_vars
        => [\A p \in PostIds : exch[p] = Nothing /\ exch'[p] # Nothing
                               => acks[exch'[p].key] = None]_vars
    BY <1>1
<1> QED
    BY <1>2, TypeInvariance, CacheInvariance, PTL DEF Spec, AckedIsNeverResent

-----------------------------------------------------------------------------
(* The order books *)

\* The order books of all accounts as one, its ids being (account, id) pairs.
Lifecycle == INSTANCE OrderLifecycle WITH Cids <- Keys, status <- oms

\* Executor and owner together drive every account's OMS as OrderLifecycle allows:
\* an order appears once, settles at most once and keeps its status.
THEOREM ImplementsLifecycle == Spec => Lifecycle!Spec
<1>1. Init => Lifecycle!Init
    BY DEF Init, Lifecycle!Init
<1>2. ASSUME TypeInv, [Next]_vars PROVE [Lifecycle!Next]_oms
  <2>1. CASE SubmitOrder
    <3> DEFINE k == call.req.key
    <3>1. k \in Keys /\ oms' = Submit(oms, k) /\ oms \in [Keys -> Status]
        BY <1>2, <2>1, RequestParts DEF SubmitOrder, TypeInv, TypeOK, WellFormed, InProgress
    <3>2. CASE oms[k] = "absent"
      <4>1. Lifecycle!Register(k)
          BY <3>1, <3>2 DEF Submit, Lifecycle!Register
      <4> QED
          BY <3>1, <4>1 DEF Lifecycle!Next
    <3>3. CASE oms[k] # "absent"
        BY <3>1, <3>3 DEF Submit
    <3> QED
        BY <3>2, <3>3
  <2>2. ASSUME NEW k \in Keys, NEW t \in Terminal, Settle(k, t) PROVE Lifecycle!Next
    <3>1. Lifecycle!Settle(k, t)
        BY <2>2 DEF Settle, MayTransition, Transition, Lifecycle!Settle
    <3> QED
        BY <2>2, <3>1 DEF Lifecycle!Next, Lifecycle!Terminal, Terminal
  <2>3. CASE \/ \E req \in Requests : Call(req)
             \/ ReturnCached \/ BlockOrder \/ RefuseSettled \/ PostFails \/ PostAnswered
             \/ \E p \in PostIds : PostAccepted(p)
             \/ Operator \/ UNCHANGED vars
      BY <2>3 DEF Call, ReturnCached, BlockOrder, RefuseSettled, PostFails, PostAnswered,
          PostAccepted, Operator, EngageGlobal, EngageAccount, Release, vars, executorVars
  <2> QED
      BY <1>2, <2>1, <2>2, <2>3 DEF Next, Executor
<1> QED
    BY <1>1, <1>2, TypeInvariance, PTL DEF Spec, Lifecycle!Spec

\* The OMS of its account knows each order at an exchange.
OrdersAreRegistered == \A p \in PostIds : exch[p] # Nothing => oms[exch[p].key] # "absent"

\* It also knows the order that is about to be sent.
BookInv ==
    /\ OrdersAreRegistered
    /\ call.at = "submitted" => oms[call.req.key] # "absent"

\* The book forgets no order.
LEMMA BookStays ==
    ASSUME TypeInv, [Next]_vars, NEW k \in Keys, oms[k] # "absent"
    PROVE  oms'[k] # "absent"
<1>1. CASE SubmitOrder
    BY <1>1 DEF SubmitOrder, Submit, TypeInv, TypeOK
<1>2. ASSUME NEW j \in Keys, NEW t \in Terminal, Settle(j, t) PROVE oms'[k] # "absent"
    BY <1>2 DEF Settle, Transition, Terminal, TypeInv, TypeOK
<1>3. CASE UNCHANGED oms
    BY <1>3
<1> QED
    BY <1>1, <1>2, <1>3 DEF Next, Executor, Operator, Call, ReturnCached, BlockOrder,
        RefuseSettled, PostFails, PostAnswered, PostAccepted, EngageGlobal, EngageAccount,
        Release, vars, executorVars

LEMMA BookStep == ASSUME TypeInv, BookInv, [Next]_vars PROVE BookInv'
<1>0. IdleCall.at = "idle"
    BY DEF IdleCall
<1>1. ASSUME NEW p \in PostIds, exch'[p] # Nothing PROVE oms'[exch'[p].key] # "absent"
  <2>1. CASE exch'[p] = exch[p]
    <3>1. exch[p].key \in Keys /\ oms[exch[p].key] # "absent"
        BY <1>1, <2>1, RequestParts DEF TypeInv, TypeOK, BookInv, OrdersAreRegistered
    <3> QED
        BY <2>1, <3>1, BookStays
  <2>2. CASE exch'[p] # exch[p]
    <3>1. PICK r \in PostIds : PostAccepted(r)
        BY <2>2 DEF Next, Executor, Operator, Call, ReturnCached, BlockOrder, SubmitOrder,
            RefuseSettled, PostFails, PostAnswered, EngageGlobal, EngageAccount, Release,
            Settle, vars
    <3>2. exch'[p] = call.req /\ call.at = "submitted" /\ call.req.key \in Keys
        BY <2>2, <3>1, RequestParts DEF PostAccepted, TypeInv, TypeOK, WellFormed, InProgress
    <3> QED
        BY <3>2, BookStays DEF BookInv
  <2> QED
      BY <2>1, <2>2
<1>2. ASSUME call'.at = "submitted" PROVE oms'[call'.req.key] # "absent"
  <2>1. CASE SubmitOrder
    <3>1. call'.req.key = call.req.key /\ call.req.key \in Keys /\ oms' = Submit(oms, call.req.key)
        BY <2>1, RequestParts DEF SubmitOrder, TypeInv, TypeOK, WellFormed, InProgress
    <3> QED
        BY <3>1 DEF Submit, TypeInv, TypeOK
  <2>2. CASE ~SubmitOrder
    <3>1. call' = call
        BY <1>0, <1>2, <2>2 DEF Next, Executor, Operator, Call, ReturnCached, BlockOrder,
            RefuseSettled, PostFails, PostAnswered, PostAccepted, EngageGlobal, EngageAccount,
            Release, Settle, vars, TypeInv, TypeOK, IdleCall
    <3>2. call.req.key \in Keys
        BY <1>2, <3>1, RequestParts DEF TypeInv, WellFormed, InProgress
    <3> QED
        BY <1>2, <3>1, <3>2, BookStays DEF BookInv
  <2> QED
      BY <2>1, <2>2
<1> QED
    BY <1>1, <1>2 DEF BookInv, OrdersAreRegistered

\* No exchange has an order that its account's OMS does not know, so that a report
\* on it always finds one.
THEOREM AlwaysRegistered == Spec => []OrdersAreRegistered
<1>1. Init => BookInv
    BY DEF Init, BookInv, OrdersAreRegistered, IdleCall
<1>2. TypeInv /\ BookInv /\ [Next]_vars => BookInv'
    BY BookStep
<1>3. BookInv => OrdersAreRegistered
    BY DEF BookInv
<1> QED
    BY <1>1, <1>2, <1>3, TypeInvariance, PTL DEF Spec

-----------------------------------------------------------------------------
(* Orders are vetted and audited *)

PostsOf(req) == {p \in PostIds : exch[p] = req}

\* The order that the call in progress has announced and not yet sent.
Announced(req) == IF call.at = "submitted" /\ call.req = req THEN 1 ELSE 0

\* A call past the rules keeps to them, so does every order; each order, and the
\* one about to be sent, has an event of its own in the audit trail.
AuditInv ==
    /\ Vetted => Compliant(call.req)
    /\ \A p \in PostIds : exch[p] # Nothing => Compliant(exch[p])
    /\ \A req \in Requests :
          /\ IsFiniteSet(PostsOf(req))
          /\ Cardinality(PostsOf(req)) + Announced(req) <= audit[<<"order_submitted", req>>]

\* A step that creates no order and announces none keeps the books balanced.
LEMMA AuditKept ==
    ASSUME TypeInv, TypeInv', AuditInv, UNCHANGED exch,
           Vetted' => Vetted /\ call'.req = call.req,
           call'.at = "submitted" => call.at = "submitted" /\ call'.req = call.req,
           \A req \in Requests : audit'[<<"order_submitted", req>>]
                                  = audit[<<"order_submitted", req>>]
    PROVE  AuditInv'
<1>1. ASSUME NEW req \in Requests
      PROVE  /\ IsFiniteSet(PostsOf(req)')
             /\ Cardinality(PostsOf(req)') + Announced(req)'
                  <= audit'[<<"order_submitted", req>>]
  <2>1. PostsOf(req)' = PostsOf(req) /\ IsFiniteSet(PostsOf(req))
      BY DEF PostsOf, AuditInv
  <2>2. Announced(req)' <= Announced(req) /\ Announced(req)' \in Nat /\ Announced(req) \in Nat
      BY DEF Announced
  <2>3. Cardinality(PostsOf(req)) \in Nat
      BY <2>1, FS_CardinalityType
  <2>4. Cardinality(PostsOf(req)) + Announced(req) <= audit[<<"order_submitted", req>>]
      BY DEF AuditInv
  <2>5. audit[<<"order_submitted", req>>] \in Nat
      BY DEF TypeInv, TypeOK, AuditType
  <2> QED
      BY <2>1, <2>2, <2>3, <2>4, <2>5
<1>2. Vetted' => Compliant(call'.req)
    BY DEF AuditInv
<1>3. \A p \in PostIds : exch'[p] # Nothing => Compliant(exch'[p])
    BY DEF AuditInv
<1> QED
    BY <1>1, <1>2, <1>3 DEF AuditInv, Compliant

LEMMA AuditStep ==
    ASSUME TypeInv, TypeInv', AuditInv, [Next]_vars
    PROVE  AuditInv'
<1>idle. IdleCall.at = "idle"
    BY DEF IdleCall
<1>0. ASSUME NEW type \in AuditType \ {"order_submitted"}, InProgress, Audited(type, call.req)
      PROVE  \A req \in Requests : audit'[<<"order_submitted", req>>]
                                    = audit[<<"order_submitted", req>>]
  <2>1. call.req \in Requests
      BY <1>0 DEF TypeInv, WellFormed
  <2> QED
      BY <1>0, <2>1, AuditedCounts DEF AuditType, TypeInv
<1>1. ASSUME NEW req \in Requests, Call(req) PROVE AuditInv'
    BY <1>1, AuditKept DEF Call, IdleCall, Vetted, executorVars
<1>2. CASE ReturnCached
  <2>1. call'.at = "idle" /\ UNCHANGED exch /\ InProgress
      BY <1>2, <1>idle DEF ReturnCached, InProgress
  <2>2. UNCHANGED audit \/ Audited("idempotent_return", call.req)
      BY <1>2 DEF ReturnCached
  <2> QED
      BY <1>0, <2>1, <2>2, AuditKept DEF Vetted, AuditType
<1>3. CASE BlockOrder \/ PostAnswered
  <2>1. call'.at = "idle" /\ UNCHANGED exch /\ InProgress
      BY <1>3, <1>idle DEF BlockOrder, PostAnswered, InProgress
  <2>2. Audited("order_blocked", call.req) \/ Audited("order_acknowledged", call.req)
      BY <1>3 DEF BlockOrder, PostAnswered
  <2> QED
      BY <1>0, <2>1, <2>2, AuditKept DEF Vetted, AuditType
<1>4. CASE SubmitOrder
  <2> DEFINE req == call.req
  <2>1. /\ req \in Requests /\ Compliant(req) /\ UNCHANGED exch
        /\ call.at = "checked" /\ call'.at = "submitted" /\ call'.req = req
        /\ Audited("order_submitted", req)
      BY <1>4 DEF SubmitOrder, TypeInv, TypeOK, WellFormed, InProgress
  <2>2. /\ audit'[<<"order_submitted", req>>] = audit[<<"order_submitted", req>>] + 1
        /\ \A r \in Requests \ {req} : audit'[<<"order_submitted", r>>]
                                        = audit[<<"order_submitted", r>>]
    <3>1. TypeOK /\ "order_submitted" \in AuditType
        BY DEF TypeInv, AuditType
    <3> HIDE DEF req
    <3>2. audit'[<<"order_submitted", req>>] = audit[<<"order_submitted", req>>] + 1
        BY <2>1, <3>1, AuditedCounts, ZenonT(30)
    <3>3. ASSUME NEW r \in Requests, r # req
          PROVE  audit'[<<"order_submitted", r>>] = audit[<<"order_submitted", r>>]
        BY <2>1, <3>1, <3>3, AuditedCounts, ZenonT(30)
    <3> QED
        BY <3>2, <3>3
  <2>3. ASSUME NEW r \in Requests
        PROVE  /\ IsFiniteSet(PostsOf(r)')
               /\ Cardinality(PostsOf(r)') + Announced(r)' <= audit'[<<"order_submitted", r>>]
    <3>1. PostsOf(r)' = PostsOf(r) /\ IsFiniteSet(PostsOf(r))
        BY <2>1 DEF PostsOf, AuditInv
    <3>2. Announced(r) = 0 /\ Announced(r)' = IF r = req THEN 1 ELSE 0
        BY <2>1 DEF Announced
    <3>3. Cardinality(PostsOf(r)) \in Nat
        BY <3>1, FS_CardinalityType
    <3>4. Cardinality(PostsOf(r)) <= audit[<<"order_submitted", r>>]
        BY <3>2, <3>3 DEF AuditInv
    <3>5. audit[<<"order_submitted", r>>] \in Nat
        BY DEF TypeInv, TypeOK, AuditType
    <3> QED
        BY <2>2, <3>1, <3>2, <3>3, <3>4, <3>5
  <2> QED
      BY <2>1, <2>3 DEF AuditInv, Compliant
<1>5. CASE RefuseSettled \/ PostFails
    BY <1>5, <1>idle, AuditKept DEF RefuseSettled, PostFails, executorVars, Vetted
<1>6. ASSUME NEW p \in PostIds, PostAccepted(p) PROVE AuditInv'
  <2> DEFINE req == call.req
  <2>1. /\ req \in Requests /\ Compliant(req)
        /\ exch[p] = Nothing /\ exch' = [exch EXCEPT ![p] = req]
        /\ call.at = "submitted" /\ call'.at = "awaiting" /\ call'.req = req
        /\ UNCHANGED audit
      BY <1>6 DEF PostAccepted, TypeInv, TypeOK, WellFormed, InProgress, AuditInv, Vetted,
                  executorVars
  <2>2. exch'[p] = req /\ \A r \in PostIds \ {p} : exch'[r] = exch[r]
      BY <2>1 DEF TypeInv, TypeOK
  <2>3. ASSUME NEW r \in Requests
        PROVE  /\ IsFiniteSet(PostsOf(r)')
               /\ Cardinality(PostsOf(r)') + Announced(r)' <= audit'[<<"order_submitted", r>>]
    <3>0. r # Nothing /\ req # Nothing
        BY <2>1, RequestParts
    <3>1. IsFiniteSet(PostsOf(r)) /\ p \notin PostsOf(r)
        BY <2>1, <3>0 DEF AuditInv, PostsOf
    <3>2. PostsOf(r)' = IF r = req THEN PostsOf(r) \cup {p} ELSE PostsOf(r)
        BY <2>2, <3>0, <3>1 DEF PostsOf
    <3>3. /\ IsFiniteSet(PostsOf(r)')
          /\ Cardinality(PostsOf(r)') = Cardinality(PostsOf(r)) + Announced(r)
      <4>1. CASE r = req
        <5>1. PostsOf(r)' = PostsOf(r) \cup {p} /\ Announced(r) = 1
            BY <2>1, <3>2, <4>1 DEF Announced
        <5>2. /\ IsFiniteSet(PostsOf(r) \cup {p})
              /\ Cardinality(PostsOf(r) \cup {p}) = Cardinality(PostsOf(r)) + 1
            BY <3>1, FS_AddElement
        <5> QED
            BY <5>1, <5>2
      <4>2. CASE r # req
          BY <2>1, <3>1, <3>2, <4>2, FS_CardinalityType DEF Announced
      <4> QED
          BY <4>1, <4>2
    <3>4. Announced(r)' = 0
        BY <2>1 DEF Announced
    <3>5. Cardinality(PostsOf(r)) + Announced(r) <= audit[<<"order_submitted", r>>]
        BY DEF AuditInv
    <3>6. Cardinality(PostsOf(r)) \in Nat /\ Announced(r) \in Nat
        BY <3>1, FS_CardinalityType DEF Announced
    <3> QED
        BY <2>1, <3>3, <3>4, <3>5, <3>6
  <2>4. \A r \in PostIds : exch'[r] # Nothing => Compliant(exch'[r])
      BY <2>1, <2>2 DEF AuditInv
  <2> QED
      BY <2>1, <2>3, <2>4 DEF AuditInv, Compliant
<1>7. CASE Operator \/ \E k \in Keys, t \in Terminal : Settle(k, t)
    BY <1>7, AuditKept DEF Operator, EngageGlobal, EngageAccount, Release, Settle, executorVars,
                           Vetted
<1>8. CASE UNCHANGED vars
    BY <1>8, AuditKept DEF vars, executorVars, Vetted
<1> QED
    BY <1>1, <1>2, <1>3, <1>4, <1>5, <1>6, <1>7, <1>8 DEF Next, Executor

\* Every order at an exchange keeps to every rule and has an event of its own in
\* the audit trail, with its own payload, appended before its POST.
THEOREM VettedAndAudited == Spec => []OrdersAreVettedAndAudited
<1>1. Init => AuditInv
  <2> SUFFICES ASSUME Init PROVE AuditInv
      OBVIOUS
  <2> USE DEF Init
  <2>1. ~Vetted /\ call.at = "idle"
      BY DEF Vetted, IdleCall
  <2>2. ASSUME NEW req \in Requests
        PROVE  /\ IsFiniteSet(PostsOf(req))
               /\ Cardinality(PostsOf(req)) + Announced(req)
                    <= audit[<<"order_submitted", req>>]
    <3>1. PostsOf(req) = {}
        BY RequestParts DEF PostsOf
    <3>2. Announced(req) = 0 /\ audit[<<"order_submitted", req>>] = 0
        BY <2>1 DEF Announced, AuditType
    <3> QED
        BY <3>1, <3>2, FS_EmptySet
  <2> QED
      BY <2>1, <2>2 DEF AuditInv
<1>2. TypeInv /\ TypeInv' /\ AuditInv /\ [Next]_vars => AuditInv'
    BY AuditStep
<1>3. TypeInv /\ AuditInv => OrdersAreVettedAndAudited
  <2> SUFFICES ASSUME TypeInv, AuditInv, NEW p \in PostIds, exch[p] # Nothing
               PROVE  /\ exch[p].payload[1] \notin BlockedSymbols
                      /\ Size(exch[p].payload) <= MaxAbsQty
                      /\ AllowedAccounts = {} \/ exch[p].key[1] \in AllowedAccounts
                      /\ Cardinality({q \in PostIds : exch[q] = exch[p]})
                           <= audit[<<"order_submitted", exch[p]>>]
      BY DEF OrdersAreVettedAndAudited
  <2>1. exch[p] \in Requests /\ Compliant(exch[p])
      BY DEF AuditInv, TypeInv, TypeOK
  <2>2. Cardinality(PostsOf(exch[p])) + Announced(exch[p])
          <= audit[<<"order_submitted", exch[p]>>]
        /\ IsFiniteSet(PostsOf(exch[p]))
      BY <2>1 DEF AuditInv
  <2>3. Cardinality(PostsOf(exch[p])) \in Nat /\ Announced(exch[p]) \in Nat
      BY <2>2, FS_CardinalityType DEF Announced
  <2>4. audit[<<"order_submitted", exch[p]>>] \in Nat
      BY <2>1 DEF TypeInv, TypeOK, AuditType
  <2>5. Cardinality(PostsOf(exch[p])) <= audit[<<"order_submitted", exch[p]>>]
      BY <2>2, <2>3, <2>4
  <2> QED
      BY <2>1, <2>5 DEF Compliant, PostsOf
<1> QED
    BY <1>1, <1>2, <1>3, TypeInvariance, PTL DEF Spec

=============================================================================
