-------------------------- MODULE MCKernelCascade ---------------------------
(***************************************************************************)
(* The banking example's Settlement, with a Ping whose policy pings again  *)
(* and another that requests a transfer at every depth, a root policy and  *)
(* a fan-out.                                                              *)
(***************************************************************************)
EXTENDS KernelCascade

H(on, from, to, does) == [on |-> on, from |-> from, to |-> to, does |-> does]
P(does, root, each) == [does |-> does, root |-> root, each |-> each]

MCEvents ==
    {"TransferRequested", "AccountDebited", "AccountCredited", "TransferCredited",
     "TransferSettled", "Pinged", "Noted"}
MCCommands == {"Request", "Debit", "Debited", "Credit", "Credited", "Settle", "Reverse", "Ping", "Note"}
MCStates == {"requested", "awaiting_credit", "settled", "reversed"}
MCHandlers ==
    {H("TransferRequested", "requested", "requested", <<"Debit">>),
     H("AccountDebited", "requested", "awaiting_credit", <<"Debited", "Credit">>),
     H("AccountCredited", "awaiting_credit", "awaiting_credit", <<"Credited">>),
     H("TransferCredited", "awaiting_credit", "settled", <<"Settle">>),
     H("refused", "awaiting_credit", "reversed", <<"Reverse">>)}
MCEmitsOf ==
    [c \in MCCommands |->
        CASE c = "Request" -> <<"TransferRequested">>
          [] c = "Debit" -> <<"AccountDebited">>
          [] c = "Credit" -> <<"AccountCredited">>
          [] c = "Credited" -> <<"TransferCredited">>
          [] c = "Settle" -> <<"Noted", "TransferSettled">>
          [] c = "Ping" -> <<"Pinged">>
          [] OTHER -> << >>]
(* Credit is compensable too here, so that a refused Credited has two       *)
(* entries to drain.                                                        *)
MCCompOf ==
    [c \in MCCommands |->
        CASE c = "Debit" -> "Credit" [] c = "Credit" -> "Debit" [] OTHER -> "none"]
MCCarries == {"TransferRequested", "TransferCredited", "TransferSettled"}
MCPoliciesOn ==
    [e \in MCEvents |->
        CASE e = "Pinged" -> <<P("Ping", FALSE, FALSE), P("Request", FALSE, FALSE)>>
          [] e = "AccountCredited" -> <<P("Note", TRUE, FALSE)>>
          [] e = "Noted" -> <<P("Note", FALSE, TRUE)>>
          [] OTHER -> << >>]
=============================================================================
