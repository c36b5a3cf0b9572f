---------------------------- MODULE MultiAccount ----------------------------
(***************************************************************************)
(* MultiAccountLiveExecutor (execution/multi_account.py): live orders of   *)
(* several accounts through one executor, with the layered kill switch,    *)
(* the compliance rules (compliance/rules.py) and the audit trail          *)
(* (compliance/audit.py).  One thread calls execute_market; an operator    *)
(* engages and releases the kill switch, and the owner of the OMS settles  *)
(* orders, at any moment.  POSTs fail, or succeed and lose their answer.   *)
(***************************************************************************)
EXTENDS Oms, Integers, FiniteSets

CONSTANTS
    Accounts,         \* account_id; each has an OMS and a gateway
    Cids,             \* client_order_id, reused across accounts
    Symbols, Quantities,   \* of the orders; a sell has a negative quantity
    BlockedSymbols, AllowedAccounts, MaxAbsQty,   \* the ComplianceRuleSet
    PostIds,          \* orders the exchange can create
    None,             \* a key missing from a dict; an idle caller's request
    MaxCalls          \* bound on the calls of execute_market

ASSUME MultiAccountAssumption ==
    /\ Quantities \subseteq Int \ {0} /\ MaxAbsQty \in Nat
    /\ AllowedAccounts \subseteq Accounts /\ BlockedSymbols \subseteq Symbols
    /\ None \notin PostIds \cup Accounts
    /\ MaxCalls \in Nat

Keys     == Accounts \X Cids         \* (account_id, client_order_id)
Payloads == Symbols \X Quantities    \* (symbol, qty): the request fingerprint
Requests == [key : Keys, payload : Payloads]
NoKey    == <<None, None>>
Nothing  == [key |-> NoKey, payload |-> NoKey]

VARIABLES
    oms,            \* the status of each scoped id in its account's OMS
    registered,     \* the payload of each order in its OMS
    acks,           \* _acks
    fingerprint,    \* _request_fingerprint_by_key
    call,           \* the call in progress: where it is, its request and POST
    calls,          \* calls made so far
    globalHalt, accountHalts,   \* the kill switch: its global scope, the accounts it has
    exch,           \* the exchanges' orders: the request each was created for
    audit,          \* AuditTrail._events, as how often each was appended
    afterHalt       \* history: orders an account got since it was last halted

killSwitch == <<globalHalt, accountHalts>>
executorVars == <<oms, registered, acks, fingerprint, audit>>
vars == <<executorVars, call, calls, killSwitch, exch, afterHalt>>

AuditType == {"order_blocked", "order_submitted", "order_acknowledged", "idempotent_return"}

IdleCall == [at |-> "idle", req |-> Nothing, post |-> None]

TypeOK ==
    /\ oms \in [Keys -> Status]
    /\ registered \in [Keys -> Payloads \cup {NoKey}]
    /\ acks \in [Keys -> PostIds \cup {None}]
    /\ fingerprint \in [Keys -> Payloads \cup {NoKey}]
    /\ call \in [at : {"idle", "checked", "submitted", "awaiting"},
                 req : Requests \cup {Nothing}, post : PostIds \cup {None}]
    /\ calls \in 0..MaxCalls
    /\ globalHalt \in BOOLEAN /\ accountHalts \subseteq Accounts
    /\ exch \in [PostIds -> Requests \cup {Nothing}]
    /\ audit \in [AuditType \X Requests -> Nat]
    /\ afterHalt \in [Accounts -> Nat]

Init ==
    /\ oms = [k \in Keys |-> "absent"]
    /\ registered = [k \in Keys |-> NoKey]
    /\ acks = [k \in Keys |-> None]
    /\ fingerprint = [k \in Keys |-> NoKey]
    /\ call = IdleCall
    /\ calls = 0
    /\ globalHalt = FALSE /\ accountHalts = {}
    /\ exch = [p \in PostIds |-> Nothing]
    /\ audit = [e \in AuditType \X Requests |-> 0]
    /\ afterHalt = [a \in Accounts |-> 0]

-----------------------------------------------------------------------------
(* execute_market *)

Audited(type, req) == audit' = [audit EXCEPT ![<<type, req>>] = @ + 1]

\* resolve_block for an account: the global scope first, then its own.
Halted(a) == globalHalt \/ a \in accountHalts

\* An executor that asks for the global scope only.
MutAllowsExecution(a) == ~globalHalt
\* assert_allows_execution(account_id=a)
AllowsExecution(a) == ~Halted(a)

Call(req) ==
    /\ call.at = "idle"
    /\ calls < MaxCalls
    /\ AllowsExecution(req.key[1])
    /\ call' = [IdleCall EXCEPT !.at = "checked", !.req = req]
    /\ calls' = calls + 1
    /\ UNCHANGED <<executorVars, killSwitch, exch, afterHalt>>

\* _acks.get
Cached(k) == acks[k]

\* abs(qty)
Size(payload) == IF payload[2] < 0 THEN -payload[2] ELSE payload[2]

\* Sales and purchases are not told apart.
MutConflicts(req) ==
    \/ fingerprint[req.key][1] # req.payload[1]
    \/ Size(fingerprint[req.key]) # Size(req.payload)
Conflicts(req) == fingerprint[req.key] # req.payload

\* The cached acknowledgement is returned; another payload under its id raises.
ReturnCached ==
    /\ call.at = "checked"
    /\ Cached(call.req.key) # None
    /\ IF Conflicts(call.req) THEN UNCHANGED audit ELSE Audited("idempotent_return", call.req)
    /\ call' = IdleCall
    /\ UNCHANGED <<oms, registered, acks, fingerprint, calls, killSwitch, exch, afterHalt>>

\* The first rule that passes is taken for all of them.
MutCompliant(req) == AllowedAccounts = {} \/ req.key[1] \in AllowedAccounts
\* check_order: an empty allowlist allows every account.
Compliant(req) ==
    /\ req.payload[1] \notin BlockedSymbols
    /\ AllowedAccounts # {} => req.key[1] \in AllowedAccounts
    /\ Size(req.payload) <= MaxAbsQty

BlockOrder ==
    /\ call.at = "checked"
    /\ Cached(call.req.key) = None
    /\ ~Compliant(call.req)
    /\ Audited("order_blocked", call.req)
    /\ call' = IdleCall
    /\ UNCHANGED <<oms, registered, acks, fingerprint, calls, killSwitch, exch, afterHalt>>

\* submit keeps the order of an earlier call, payload included.
SubmitOrder ==
    LET k == call.req.key IN
    /\ call.at = "checked"
    /\ Cached(k) = None
    /\ Compliant(call.req)
    /\ oms[k] \notin Terminal
    /\ oms' = Submit(oms, k)
    /\ registered' = [registered EXCEPT ![k] = IF oms[k] = "absent" THEN call.req.payload ELSE @]
    /\ Audited("order_submitted", call.req)
    /\ call' = [call EXCEPT !.at = "submitted"]
    /\ UNCHANGED <<acks, fingerprint, calls, killSwitch, exch, afterHalt>>

\* The order of an earlier call has settled: raise.
RefuseSettled ==
    /\ call.at = "checked"
    /\ Cached(call.req.key) = None
    /\ Compliant(call.req)
    /\ oms[call.req.key] \in Terminal
    /\ call' = IdleCall
    /\ UNCHANGED <<executorVars, calls, killSwitch, exch, afterHalt>>

\* The account's gateway POSTs the order and its exchange creates it.
PostAccepted(p) ==
    LET a == call.req.key[1] IN
    /\ call.at = "submitted"
    /\ exch[p] = Nothing
    /\ exch' = [exch EXCEPT ![p] = call.req]
    /\ call' = [call EXCEPT !.at = "awaiting", !.post = p]
    /\ afterHalt' = IF Halted(a) THEN [afterHalt EXCEPT ![a] = @ + 1] ELSE afterHalt
    /\ UNCHANGED <<executorVars, calls, killSwitch>>

\* The POST was never accepted, or its answer is lost: the call raises.
PostFails ==
    /\ call.at \in {"submitted", "awaiting"}
    /\ call' = IdleCall
    /\ UNCHANGED <<executorVars, calls, killSwitch, exch, afterHalt>>

\* req_fingerprint
Fingerprint == call.req.payload

PostAnswered ==
    LET k == call.req.key IN
    /\ call.at = "awaiting"
    /\ acks' = [acks EXCEPT ![k] = call.post]
    /\ fingerprint' = [fingerprint EXCEPT ![k] = Fingerprint]
    /\ Audited("order_acknowledged", call.req)
    /\ call' = IdleCall
    /\ UNCHANGED <<oms, registered, calls, killSwitch, exch, afterHalt>>

-----------------------------------------------------------------------------
(* The operator and the owner of the OMS *)

EngageGlobal ==
    /\ ~globalHalt
    /\ globalHalt' = TRUE
    /\ afterHalt' = [a \in Accounts |-> IF Halted(a) THEN afterHalt[a] ELSE 0]
    /\ UNCHANGED <<executorVars, call, calls, accountHalts, exch>>

EngageAccount(a) ==
    /\ a \notin accountHalts
    /\ accountHalts' = accountHalts \cup {a}
    /\ afterHalt' = IF Halted(a) THEN afterHalt ELSE [afterHalt EXCEPT ![a] = 0]
    /\ UNCHANGED <<executorVars, call, calls, globalHalt, exch>>

Release ==
    /\ \/ globalHalt' = FALSE /\ globalHalt /\ UNCHANGED accountHalts
       \/ \E a \in accountHalts : accountHalts' = accountHalts \ {a} /\ UNCHANGED globalHalt
    /\ UNCHANGED <<executorVars, call, calls, exch, afterHalt>>

Settle(k, target) ==
    /\ MayTransition(oms, k)
    /\ oms' = Transition(oms, k, target)
    /\ UNCHANGED <<registered, acks, fingerprint, audit, call, calls, killSwitch, exch, afterHalt>>

-----------------------------------------------------------------------------
Executor == \/ \E req \in Requests : Call(req)
            \/ ReturnCached \/ BlockOrder \/ SubmitOrder \/ RefuseSettled
            \/ PostFails \/ PostAnswered
            \/ \E p \in PostIds : PostAccepted(p)

Operator == EngageGlobal \/ Release \/ \E a \in Accounts : EngageAccount(a)

Next == Executor \/ Operator \/ \E k \in Keys, t \in Terminal : Settle(k, t)

Spec == Init /\ [][Next]_vars

-----------------------------------------------------------------------------
(* Properties *)

\* A request answered from the cache was executed with that very payload on that
\* very account.
IdempotentReturnsAreFaithful ==
    \A req \in Requests : audit[<<"idempotent_return", req>>] > 0 => exch[acks[req.key]] = req

\* Every order at an exchange keeps to every rule, and was announced in the audit
\* trail, with its own payload, before it was sent.
OrdersAreVettedAndAudited ==
    \A req \in {exch[p] : p \in PostIds} \ {Nothing} :
        /\ req.payload[1] \notin BlockedSymbols
        /\ Size(req.payload) <= MaxAbsQty
        /\ AllowedAccounts = {} \/ req.key[1] \in AllowedAccounts
        /\ Cardinality({p \in PostIds : exch[p] = req}) <= audit[<<"order_submitted", req>>]

\* Halting an account, or all of them, leaves at most the call in progress.
HaltBoundsExposure == \A a \in Accounts : Halted(a) => afterHalt[a] <= 1

=============================================================================
