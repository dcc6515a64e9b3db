----------------------------- MODULE MCAccounts -----------------------------
(* A small instance of Accounts. *)
EXTENDS Accounts

CONSTANTS ann, t1, t2, c1, c2
=============================================================================
