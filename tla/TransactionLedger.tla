-------------------------- MODULE TransactionLedger -------------------------
(***************************************************************************)
(* What compute-engine promises to its callers, with no event store, no    *)
(* broker and no goroutines: a ledger in which a transaction identifier is *)
(* taken at most once, a request answered "accepted" exactly when it took  *)
(* the one it asked for, refused only for a reason that holds at that      *)
(* moment, and a read model that only ever shows what the ledger holds.    *)
(* TransactionCQRS is shown to implement this specification.               *)
(***************************************************************************)
EXTENDS Integers

CONSTANTS
    TxIds,          \* valid transaction identifiers
    EmptyId,        \* the empty identifier a malformed request carries
    Requests,       \* HTTP requests served concurrently
    Amounts,        \* amounts a caller may ask for
    RiskLimit,      \* an amount above it is rejected by the risk rule
    NoTx            \* "nothing": no transaction, no question asked yet

VARIABLES
    ledger,         \* ledger[id]: the amount accepted under id, or NoTx
    asked,          \* asked[r]: the create r asks for, or NoTx
    outcome,        \* outcome[r]: "none", "accepted" or "refused"
    view            \* view[id]: what the read model shows of an accepted id

ledgerVars == <<ledger, asked, outcome, view>>

FinalStatus(amount) == IF amount > RiskLimit THEN "REJECTED" ELSE "APPROVED"

Init ==
    /\ ledger = [id \in TxIds |-> NoTx]
    /\ asked = [r \in Requests |-> NoTx]
    /\ outcome = [r \in Requests |-> "none"]
    /\ view = [id \in TxIds |-> "unseen"]

Ask(r, id, amount) ==
    /\ asked[r] = NoTx
    /\ asked' = [asked EXCEPT ![r] = [id |-> id, amount |-> amount]]
    /\ UNCHANGED <<ledger, outcome, view>>

\* A create takes a free identifier; only a positive amount is accepted.
Accept(r) ==
    /\ asked[r] # NoTx
    /\ outcome[r] = "none"
    /\ asked[r].id # EmptyId
    /\ asked[r].amount > 0
    /\ ledger[asked[r].id] = NoTx
    /\ ledger' = [ledger EXCEPT ![asked[r].id] = asked[r].amount]
    /\ outcome' = [outcome EXCEPT ![r] = "accepted"]
    /\ UNCHANGED <<asked, view>>

\* A create is refused for its arguments, or because its identifier is taken.
Refuse(r) ==
    /\ asked[r] # NoTx
    /\ outcome[r] = "none"
    /\ \/ asked[r].id = EmptyId
       \/ asked[r].amount <= 0
       \/ asked[r].id # EmptyId /\ ledger[asked[r].id] # NoTx
    /\ outcome' = [outcome EXCEPT ![r] = "refused"]
    /\ UNCHANGED <<ledger, asked, view>>

\* The read model catches up with an accepted entry, or falls back behind
\* it, but never shows anything else.
Project(id) ==
    /\ ledger[id] # NoTx
    /\ \E shown \in {"PENDING", FinalStatus(ledger[id])} :
           view' = [view EXCEPT ![id] = shown]
    /\ UNCHANGED <<ledger, asked, outcome>>

Next ==
    \/ \E r \in Requests, id \in TxIds \cup {EmptyId}, amount \in Amounts :
           Ask(r, id, amount)
    \/ \E r \in Requests : Accept(r) \/ Refuse(r)
    \/ \E id \in TxIds : Project(id)

Spec == Init /\ [][Next]_ledgerVars
=============================================================================
