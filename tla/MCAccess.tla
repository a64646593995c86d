------------------------------- MODULE MCAccess -------------------------------
(* Instances of Access small enough for TLC. *)
EXTENDS Access, TLC

CONSTANTS read, write, shop, e1, t2

MCWishes == {{<<shop, write>>, <<None, read>>}}
MCGrantSets == {{read}}
MCSeedGrants == {read}

\* Another template, a second row of one place and a right for a time; a right that
\* is denied, and a default template that was deleted.
MCPast(R, S, active) ==
    [rights |-> {[user |-> e1, store |-> x[1], actions |-> x[2], grant |-> x[3]] : x \in R},
     stores |-> S,
     templates |-> [t \in {t2} |-> [active |-> active, default |-> ~ active, grants |-> {write}]]]

MCPasts ==
    {MCPast({<<None, {write}, "lasting">>, <<shop, {read, write}, "timed">>}, {shop}, TRUE),
     MCPast({<<shop, {write}, "denied">>}, {}, FALSE)}

MCSymmetry == Permutations(Requests)
===============================================================================
