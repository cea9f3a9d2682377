-------------------------- MODULE MCDashboardLayout --------------------------
(* Values of DashboardLayout's constants for TLC: a grid of two columns, a   *)
(* type that may be widened and one that may not, an administrator with all  *)
(* rights and one without the right to the first type.  His document is in    *)
(* order; hers is of an earlier version: a widget hangs over the edge and over *)
(* another, and a type is gone.                                             *)
EXTENDS DashboardLayout, TLC

CONSTANTS alice, bob, tokens, events, machines

At(t, x, y, c) == [type |-> t, x |-> x, y |-> y, cols |-> c, rows |-> 1]
Numbered(n, t, x, y, c) == [id |-> n, type |-> t, x |-> x, y |-> y, cols |-> c, rows |-> 1]

TwoAdmins == {alice, bob}
TwoTypes  == {tokens, events}
GoneTypes == {machines}
SomeIds   == 1 .. 12
SomeRights == (alice :> TwoTypes) @@ (bob :> {events})
Narrow == [cols |-> 1, rows |-> 1]
Wide   == [cols |-> 2, rows |-> 1]
SomeDirs == {"e", "s", "se"}
AllNarrow == [t \in TwoTypes |-> Narrow]
SomeWide  == (tokens :> Wide) @@ (events :> Narrow)
SideBySide == {At(tokens, 0, 0, 1), At(events, 1, 0, 1)}
InOrder == {Numbered(1, tokens, 0, 1, 2), Numbered(2, events, 0, 0, 1)}
Crooked == {Numbered(3, tokens, 1, 0, 2), Numbered(4, events, 1, 0, 1),
            Numbered(5, machines, 0, 1, 1)}
SomeKept == (alice :> {{Crooked}, {}}) @@ (bob :> {{InOrder}})
=============================================================================
