----------------------------- MODULE MCEraMint ------------------------------
(* Hosts of three shapes, each a successor of those before it. *)
EXTENDS EraMint, TLC

CONSTANTS h1, h2, h3, a, b, c, r1

MCHosts == {h1, h2, h3}
MCLabelOf == (h1 :> a) @@ (h2 :> b) @@ (h3 :> c)
MCEdges == {<<a, b>>, <<b, c>>, <<a, c>>}
D(labels, together) == [held |-> labels, rolling |-> together]
(* A database nobody holds yet is booted by one host at a time. *)
MCStarts == {D(<<>>, FALSE), D(<<a>>, FALSE), D(<<Unnamed>>, FALSE), D(<<a>>, TRUE)}
=============================================================================
