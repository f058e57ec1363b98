-------------------------- MODULE MCLineageLedger ---------------------------
(* Two hosts over two records.                                             *)
EXTENDS LineageLedger

(* Every writer under one lock, and one sealer; or both locks and no seal.  *)
MCSettings ==
    {[kinds |-> {"dispatch"}, every |-> 2, operators |-> {}],
     [kinds |-> {"dispatch"}, every |-> 0, operators |-> {"o1"}],
     [kinds |-> {"put", "amend"}, every |-> 2, operators |-> {"o1"}],
     [kinds |-> {"dispatch", "put"}, every |-> 0, operators |-> {}]}

(* A host commits member writes while another dispatches and seals. *)
MCBothLocks == {[kinds |-> {"dispatch", "put"}, every |-> 1, operators |-> {}]}

=============================================================================
