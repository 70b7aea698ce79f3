----------------------------- MODULE MCTopology -----------------------------
EXTENDS Topology

(* Three switches in a row, the middle one with two ports.                 *)
MCOwner == [p \in Ports |-> CASE p \in {"a1", "a2"} -> "A" [] p \in {"b1", "b2"} -> "B"
                              [] OTHER -> "C"]
Cabled(pairs) == pairs \cup {<<r[2], r[1]>> : r \in pairs}

(* The middle one by either port.                                          *)
MCCablings == {
    Cabled({<<"a1", "b1">>, <<"b2", "c1">>}),
    Cabled({<<"a1", "b2">>, <<"b1", "c1">>})}
MCLists == {<<"A">>, <<"B", "C", "A">>}
=============================================================================
