---------------------------- MODULE MCHotReload -----------------------------
EXTENDS HotReload

Fn(address) == [kind |-> "function", listed |-> TRUE, address |-> address]
Obj(address) == [kind |-> "object", listed |-> TRUE, address |-> address]
Hidden(address) == [kind |-> "function", listed |-> FALSE, address |-> address]

\* Three builds: one with symbols out of order, one with more functions than
\* fit and two names for an object, and one with few.
MCSymTab ==
  << <<Fn(2), Hidden(4), Obj(9), Fn(1), Obj(8)>>,
     <<Fn(3), Fn(5), Obj(7), Fn(1), Obj(7)>>,
     <<Obj(6), Fn(2)>> >>
=============================================================================
