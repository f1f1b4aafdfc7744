----------------------------- MODULE MCSuggestions -----------------------------
EXTENDS Suggestions, TLC

\* Rows, users and requests are interchangeable.
Symmetric == Permutations(Rows) \cup Permutations(Passengers) \cup Permutations(WebRequests)
===============================================================================
