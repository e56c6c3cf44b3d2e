-------------------------- MODULE MCSavedSearches --------------------------
(***************************************************************************)
(* Sessions and saved searches for TLC.                                    *)
(***************************************************************************)
EXTENDS SavedSearches, TLC

\* Requests and tokens are interchangeable; only invariants are checked.
Symmetry == Permutations(Requests) \cup Permutations(Tokens)
=============================================================================
