----------------------------- MODULE MCAccounts -----------------------------
(* Small instances of Accounts for TLC.                                    *)
EXTENDS Accounts, TLC

(* Names, uids and requests are interchangeable.                           *)
Alike == Permutations(Name) \cup Permutations(Uid) \cup Permutations(Request)
==============================================================================
