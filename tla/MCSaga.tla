------------------------------- MODULE MCSaga -------------------------------
(***************************************************************************)
(* Sagas to run Saga on.  Settlement is the banking example's own; the     *)
(* others are the smallest sagas with the shape a question needs.          *)
(***************************************************************************)
EXTENDS Saga

H(on, from, to, does) == [on |-> on, from |-> from, to |-> to, does |-> does]
NoComp == [c \in Commands |-> None]
Silent == [c \in Commands |-> None]

(* examples/banking transfers_and_payments.bluebook, process_manager "Settlement". *)
SettlementEvents ==
    {"TransferRequested", "AccountDebited", "AccountCredited", "TransferCredited", "TransferSettled"}
SettlementCommands == {"Debit", "Debited", "Credit", "Credited", "Settle", "Reverse"}
SettlementStates == {"requested", "awaiting_credit", "settled", "reversed"}
SettlementHandlers ==
    {H("TransferRequested", "requested", "requested", <<"Debit">>),
     H("AccountDebited", "requested", "awaiting_credit", <<"Debited", "Credit">>),
     H("AccountCredited", "awaiting_credit", "awaiting_credit", <<"Credited">>),
     H("TransferCredited", "awaiting_credit", "settled", <<"Settle">>),
     H("refused", "awaiting_credit", "reversed", <<"Reverse">>)}
SettlementEmits ==
    [Silent EXCEPT !["Debit"] = "AccountDebited", !["Credit"] = "AccountCredited",
                   !["Credited"] = "TransferCredited", !["Settle"] = "TransferSettled"]
SettlementComp == [NoComp EXCEPT !["Debit"] = "Credit"]
(* The same with its Credit compensable too, so that a refused Credit has an *)
(* entry of its own to take off the ledger before Debit's is drained.        *)
SettlementBothComp == [SettlementComp EXCEPT !["Credit"] = "Reverse"]

(* A saga two callers move at once: opened, packed, and closed. *)
ParcelHandlers ==
    {H("Opened", "new", "open", <<"Announce">>), H("Packed", "open", "packed", <<"Label", "Weigh">>)}
ParcelEmits == [Silent EXCEPT !["Announce"] = "Opened"]

(* A saga whose refused leg parks for a person, who resumes and retries. *)
ParkHandlers ==
    {H("Asked", "new", "busy", <<"Hold">>), H("Retried", "busy", "busy", <<"Hold", "Thank">>),
     H("refused", "busy", "needs_human", <<"Thank">>), H("refused", "new", "needs_human", << >>)}
=============================================================================
