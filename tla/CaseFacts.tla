----------------------------- MODULE CaseFacts -----------------------------
(***************************************************************************)
(* The one fact source of a case: packages/domain_bridge/state.py keeps    *)
(* canonical records, each at the address of a chat field ("legacy." plus  *)
(* the field) or at an address of the company structure, and may bind a    *)
(* chat field to a structure address, so that both read the same record.   *)
(* packages/chat/facts.py and packages/agent/dialogue.py read the records  *)
(* as the facts of the interview and decide what is still missing.         *)
(*                                                                         *)
(* A value is Absent (no record), Unknown, Conflict or one of Values; what *)
(* a value says is left out.  The value Outside stands for every answer    *)
(* that takes the case out of scope or out of the exemption path.          *)
(***************************************************************************)
EXTENDS Naturals

CONSTANTS
    Fields,          \* the chat fields (the fact catalogue)
    Identification,  \* fields asked of every case
    Details,         \* fields asked once the case is identified
    ScopeFields,     \* fields whose answer can be out of scope
    CoverageFields,  \* fields whose answer can end the exemption path
    DataKeys,        \* structure addresses that are also answers to the engine
    EventKeys,       \* structure addresses of the event and the currency
    Values,          \* the answers a user can give
    Outside,         \* the answer that is out of scope
    None

Absent   == "absent"
Unknown  == "unknown"
Conflict == "conflict"

Addresses  == DataKeys \cup EventKeys
Keys       == Fields \cup Addresses
FactValues == Values \cup {Absent, Unknown, Conflict}

ASSUME FactsAssumption ==
    /\ Identification \subseteq Fields
    /\ Details \subseteq Fields
    /\ ScopeFields \subseteq Fields
    /\ CoverageFields \subseteq Fields
    /\ Fields \cap Addresses = {}
    /\ {Absent, Unknown, Conflict} \cap Values = {}
    /\ None \notin Addresses
    /\ None \notin [Fields -> FactValues]

Records  == [Keys -> FactValues]
Bindings == [Fields -> Addresses \cup {None}]
Facts    == [Fields -> FactValues]
\* A patch gives some of the fields a value; Absent deletes the fact.
Patches  == UNION {[S -> FactValues] : S \in SUBSET Fields}

NoFacts  == [f \in {} |-> Unknown]

Resolved(v) == v \notin {Absent, Unknown, Conflict}

(***************************************************************************)
(* Reading and writing the records.                                        *)
(***************************************************************************)
AddressOf(bindings, f) == IF bindings[f] = None THEN f ELSE bindings[f]

FactsOf(records, bindings) == [f \in Fields |-> records[AddressOf(bindings, f)]]

Write(records, bindings, patch) ==
    [k \in Keys |->
        IF \E f \in DOMAIN patch : AddressOf(bindings, f) = k
        THEN patch[CHOOSE f \in DOMAIN patch : AddressOf(bindings, f) = k]
        ELSE records[k]]

\* What the company structure passed to the engine shows of a record.
Usable(v) == IF Resolved(v) THEN v ELSE Absent

Patched(facts, patch) ==
    [f \in Fields |-> IF f \in DOMAIN patch THEN patch[f] ELSE facts[f]]

(***************************************************************************)
(* What the interview still needs.                                         *)
(***************************************************************************)
Supported(facts) == \A f \in ScopeFields : facts[f] # Outside

RequiredFields(facts) ==
    IF ~Supported(facts) THEN {}
    ELSE IF \E f \in CoverageFields : facts[f] = Outside THEN Identification
    ELSE Identification \cup Details

ConflictFields(facts) == {f \in Fields : facts[f] = Conflict}

Gaps(facts) ==
    {f \in RequiredFields(facts) : ~Resolved(facts[f])} \cup ConflictFields(facts)

\* The fields next_field may return.  The catalogue fixes an order among
\* them; nothing below depends on it, so any of them may come next.
NextFields(facts, deferred) ==
    LET conflicts == ConflictFields(facts) \ deferred
        missing   == {f \in RequiredFields(facts) : facts[f] = Absent} \ deferred
    IN  IF ~Supported(facts) THEN {}
        ELSE IF conflicts # {} THEN conflicts
        ELSE missing
=============================================================================
