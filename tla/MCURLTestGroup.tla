--------------------------- MODULE MCURLTestGroup ---------------------------
(* Two outbounds, one of them without UDP: in a group that others check as *)
(* well, with delays on both sides of the tolerance, and in one that is    *)
(* left alone and closed.                                                  *)
EXTENDS URLTestGroup

CONSTANTS a, b

MCOutbounds == <<a, b>>
MCGroups ==
  {[delays |-> 1 .. 3, changes |-> 1, calls |-> TRUE, ends |-> FALSE],
   [delays |-> {1}, changes |-> 1, calls |-> FALSE, ends |-> TRUE]}
MCWithUDP == {b}
=============================================================================
