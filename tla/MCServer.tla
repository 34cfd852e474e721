------------------------------ MODULE MCServer ------------------------------
(* Small instances of Server for TLC. *)
EXTENDS Server, TLC

CONSTANTS s0, s1, s2, a, b

MCSessions == {s1, s2}
MCSessionsAfter == {s0, s1, s2}
MCOneAfter == {s0, s1}
MCLeaver == {s1}
MCData == [in : {"data"}, key : Keys, val : Values]
MCNewValue == [in : {"data"}, key : Keys, val : {b}]
MCNoData == [in : {"ping", "bad"}]
MCEmpty == <<>>
MCLastKey == <<[by |-> s0, key |-> 2, val |-> a]>>
MCStored == <<[by |-> s0, key |-> 1, val |-> a], [by |-> s0, key |-> 2, val |-> a]>>
MCValues == {a, b}
=============================================================================
