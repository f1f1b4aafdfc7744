------------------------------ MODULE MCAccounts ------------------------------
EXTENDS Accounts, TLC

\* What concerns numbers, what concerns the address, and what concerns cards share no
\* field: each is explored in behaviours of its own.
AllScenes == {{"code", "move", "verify", "update"}, {"move", "update"}, {"put", "confirm"},
              {"add", "delete", "replace", "bid"}}

\* A number that comes, goes, and was about to come again takes three moves.
CallsOf == [s \in AllScenes |-> IF s = {"move", "update"} THEN 6 ELSE 4]

Symmetry == Permutations(Numbers) \cup Permutations(Cards) \cup Permutations(Requests)
===============================================================================
