----------------------------- MODULE AuditChain -----------------------------
(***************************************************************************)
(* compliance/audit.py: the audit ledger as a hash chain.  A hash is the   *)
(* tuple of what it is computed from: no two contents have the same one.   *)
(* content stands for time, type, actor and redacted payload.              *)
(***************************************************************************)
EXTENDS Integers, Sequences, SequencesExt

Genesis == <<>>

ComputeHash(seq, content, prev) == <<seq, content, prev>>

HeadHash(log) == IF log = <<>> THEN Genesis ELSE Last(log).hash

Event(seq, content, prev) ==
    [seq |-> seq, content |-> content, prev |-> prev,
     hash |-> ComputeHash(seq, content, prev)]

AppendEvent(log, content) ==
    Append(log, Event(Len(log) + 1, content, HeadHash(log)))

MutIntact(log, i) ==
    log[i].hash = ComputeHash(log[i].seq, log[i].content, log[i].prev)

Intact(log, i) ==
    /\ log[i].seq = i
    /\ log[i].prev = (IF i = 1 THEN Genesis ELSE log[i - 1].hash)
    /\ log[i].hash = ComputeHash(log[i].seq, log[i].content, log[i].prev)

VerifyChain(log) == \A i \in DOMAIN log : Intact(log, i)

=============================================================================
