---------------------------- MODULE MCMembership ----------------------------
(* A site founded by one admin, who adds a second person.  Three identities *)
(* are enough for one lost on a cut sign-in and one for each person.        *)
EXTENDS Membership, TLC

(* Requests differ in nothing but their name. *)
Alike == Permutations(Requests)
=============================================================================
