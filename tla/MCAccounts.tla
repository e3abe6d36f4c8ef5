----------------------------- MODULE MCAccounts -----------------------------
(* A small instance of Accounts: tabs of one home after one name. *)
EXTENDS Accounts, TLC

CONSTANTS c1, c2, home, kes, red, blue, mage, rogue, t1

AtHome == [c \in Connections |-> home]
=============================================================================
