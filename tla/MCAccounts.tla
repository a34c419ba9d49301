----------------------------- MODULE MCAccounts -----------------------------
(***************************************************************************)
(* A person who is new and one who has registered before.                  *)
(***************************************************************************)
EXTENDS Accounts

CONSTANTS ana, bia, pa, pb

MCPhoneOf == [a \in {ana, bia} |-> IF a = ana THEN pa ELSE pb]
MCRegistered == [p \in {pa, pb} |-> IF p = pb THEN bia ELSE NoAccount]
=============================================================================
