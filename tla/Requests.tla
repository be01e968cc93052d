------------------------------ MODULE Requests ------------------------------
(***************************************************************************)
(* The transactions a client has submitted and the accounts they name: the *)
(* immutable columns of the tables "transactions" and "accounts", and what *)
(* settling a transaction does to an account.                              *)
(*                                                                         *)
(* Amounts are integers (multiples of the least unit of NUMERIC(19,4)).    *)
(* An account is a number because the worker locks accounts in UUID order. *)
(***************************************************************************)
EXTENDS Integers

CONSTANTS
    Accounts,       \* ids of the existing accounts, ordered like their UUIDs
    Txns,           \* ids of the existing transactions
    None,           \* SQL NULL, and "nobody" in a lock table
    Kind,           \* Kind[t]: transaction_type of t
    Amount,         \* Amount[t]: amount of t
    Source,         \* Source[t]: source_account_id of t, or None
    Dest,           \* Dest[t]: dest_account_id of t, or None
    Currency,       \* Currency[a]: currency of account a
    Opening,        \* Opening[a]: balance a starts with, 0 through the API
    Active,         \* the accounts whose is_active is TRUE
    MaxBalance      \* largest value of a NUMERIC(19,4) column

Kinds == {"CREDIT", "DEBIT", "TRANSFER", "FEE", "REVERSAL", "ADJUSTMENT"}

ASSUME AccountsAssumption ==
    /\ Accounts \subseteq Nat
    /\ None \notin Accounts
    /\ Active \subseteq Accounts
    /\ MaxBalance \in Nat
    /\ Opening \in [Accounts -> 0 .. MaxBalance]

ASSUME RowsAssumption ==
    /\ Kind \in [Txns -> Kinds]
    /\ Amount \in [Txns -> Nat \ {0}]
    /\ Source \in [Txns -> Accounts \cup {None}]
    /\ Dest \in [Txns -> Accounts \cup {None}]

(***************************************************************************)
(* validate_parties rejects every other request before it is stored.       *)
(***************************************************************************)
PartiesValid(t) ==
    /\ Kind[t] = "TRANSFER" => /\ Source[t] # None
                               /\ Dest[t] # None
                               /\ Source[t] # Dest[t]
    /\ Kind[t] \in {"DEBIT", "FEE"} => Source[t] # None
    /\ Kind[t] \in {"CREDIT", "ADJUSTMENT"} => Dest[t] # None

ASSUME ValidatedAssumption == \A t \in Txns : PartiesValid(t)

-----------------------------------------------------------------------------

(* The account a transaction of each type takes from, and the one it pays. *)
(* They are two accounts by ValidatedAssumption.  Of a self-transfer, that *)
(* ingestion refuses, these sets would say something else than the worker  *)
(* does (two entries, and only the first UPDATE finds its version).        *)
Debited(t)  == IF Kind[t] \in {"TRANSFER", "DEBIT", "FEE"} THEN {Source[t]} ELSE {}
Credited(t) == IF Kind[t] \in {"TRANSFER", "CREDIT"} THEN {Dest[t]} ELSE {}
Parties(t)  == Debited(t) \cup Credited(t)

(* The worker executes no ADJUSTMENT and no REVERSAL, and no row without   *)
(* the accounts its type needs.                                            *)
Executable(t) == Parties(t) # {} /\ None \notin Parties(t)

After(t, a, bal) == IF a \in Debited(t) THEN bal - Amount[t] ELSE bal + Amount[t]

(* Mutant: nothing checks the funds. *)
RefusedUnfunded(t, balance) == \E a \in Parties(t) : a \notin Active

(* The business rules that refuse t when balance[a] is the balance of a.   *)
Refused(t, balance) ==
    \/ \E a \in Parties(t) : a \notin Active
    \/ \E a \in Debited(t) : balance[a] < Amount[t]

=============================================================================
