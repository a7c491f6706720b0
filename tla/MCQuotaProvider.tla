-------------------------- MODULE MCQuotaProvider --------------------------
(* Scopes, their order and their weights for the runs of QuotaProvider.    *)
EXTENDS QuotaProvider

CONSTANTS sA, sB

TwoScopes == <<sA, sB>>

\* The first scope has twice the share of the others.
FirstTwice == [s \in Scope |-> IF s = sA THEN 2 ELSE 1]
============================================================================
