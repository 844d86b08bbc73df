------------------------------ MODULE AuditLog ------------------------------
(* The append-only log of governance/audit.py: every event carries the        *)
(* signature of the one before it, and verify_chain recomputes them.           *)
(* A signature is SHA-256 over the event's content and the signature before    *)
(* it; the model keeps what is hashed, so that two signatures are equal        *)
(* exactly when everything below them is: a signature is the sequence of       *)
(* contents it covers, and "" is the empty sequence.  The content (core) of an *)
(* event is its decision and its struct_meta; event_id covers the same core.   *)
EXTENDS Integers, Sequences

CONSTANTS
    Metas,      \* the sanitised struct_meta of the events recorded
    Edits,      \* what a holder of an event can write into its struct_meta
    MaxEvents   \* bound on the length of the log

ASSUME MaxEventsIsNat == MaxEvents \in Nat

VARIABLES
    log,        \* AuditLog._events
    recorded    \* the contents as they were appended (history, not in the code)

auditVars == <<log, recorded>>

Decisions == {"ALLOW", "DENY"}
SafeMeta == "audit_error"

Core == [decision : Decisions, meta : Metas \cup Edits \cup {SafeMeta}]
Signatures == Seq(Core)
Events == [core : Core, prev : Signatures, sig : Signatures]

\* Deviation: the signature of an event is the hash of its content alone.
SignAlone(core, prev) == <<core>>
Sign(core, prev) == Append(prev, core)

SignedEvent(core, prev) == [core |-> core, prev |-> prev, sig |-> Sign(core, prev)]

LastSignature == IF log = <<>> THEN <<>> ELSE log[Len(log)].sig

\* What record_audit_event falls back to when its first attempt raises.  When the
\* second raises too, it returns a hard-coded event, never appended, whose
\* signature no event has; the empty one stands for it.
SafeCore == [decision |-> "DENY", meta |-> SafeMeta]
HardcodedSignature == <<>>

-----------------------------------------------------------------------------
(* record_audit_event.  clock: "good", or "odd" when now_ms is not a number,   *)
(* which makes the first attempt raise.  store: "up"; "failing" when append    *)
(* raises; "absent" when log is None.                                          *)

Clocks == {"good", "odd"}
Stores == {"up", "failing", "absent"}

\* The event the caller gets: its content, on top of the log it could read.
Tried(core, clock, store) ==
    SignedEvent(IF clock = "good" /\ store = "up" THEN core ELSE SafeCore,
                IF store = "absent" THEN <<>> ELSE LastSignature)

\* The signature the caller gets.
Receipt(core, clock, store) ==
    IF store = "failing" THEN HardcodedSignature ELSE Tried(core, clock, store).sig

Recorded(core, clock, store) ==
    IF store = "up"
    THEN LET event == Tried(core, clock, store)
         IN  /\ log' = Append(log, event)
             /\ recorded' = Append(recorded, event.core)
    ELSE UNCHANGED auditVars

\* Some other governance decision is audited.
Record(core, clock, store) ==
    /\ Len(log) < MaxEvents
    /\ Recorded(core, clock, store)

\* An event is frozen, but its struct_meta is a dictionary that the recorder's
\* caller and every reader of list_events share with the log.
Alter(i, meta) ==
    /\ log' = [log EXCEPT ![i].core.meta = meta]
    /\ UNCHANGED recorded

-----------------------------------------------------------------------------
(* verify_chain and recompute_signatures *)

FirstIndex(indices) ==
    IF indices = {} THEN 0 ELSE CHOOSE i \in indices : \A j \in indices : i <= j

\* The signature that event i must name as its predecessor.
Expected(i) == IF i = 1 THEN <<>> ELSE log[i - 1].sig

\* Deviation: only the links are followed, no signature is recomputed.
BadLinkOnly(i) == log[i].prev # Expected(i)

Bad(i) == \/ log[i].prev # Expected(i)
          \/ log[i].sig # Sign(log[i].core, log[i].prev)

\* The index verify_chain returns, 0 when it finds the chain intact.
VerifyChain == FirstIndex({i \in DOMAIN log : Bad(i)})

=============================================================================
