-------------------------- MODULE MCEventPlanning --------------------------
(* EventPlanning for TLC: two rooms, speakers, sessions and ticket types,   *)
(* of which one each exists at first; two slots that meet and one that      *)
(* overlaps both.                                                           *)
EXTENDS EventPlanning, TLC

CONSTANTS r1, r2, p1, p2, s1, s2, t1, t2

MCRooms == {r1, r2}
MCSpeakers == {p1, p2}
MCSessions == {s1, s2}
MCTicketTypes == {t1, t2}
MCSlots == {<<0, 1>>, <<1, 2>>, <<0, 2>>}

Symmetry == Permutations(Writers)
=============================================================================
