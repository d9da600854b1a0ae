------------------------------- MODULE MCSetup -------------------------------
(* Two budgets, of two accounts and of one. *)
EXTENDS Setup

CONSTANTS b1, b2, a1, a2, a3

MCBudgets  == {b1, b2}
MCAccounts == {a1, a2, a3}
MCOwner    == [a \in MCAccounts |-> IF a = a3 THEN b2 ELSE b1]
=============================================================================
