------------------------------ MODULE MCSidebar ------------------------------
(***************************************************************************)
(* Instances of Sidebar for TLC.                                           *)
(***************************************************************************)
EXTENDS SidebarProperties, TLC

CONSTANTS t1, t2, own, root, c1, c2, c3, s1, s2, none, x1

\* A change of the tab's profile, one of the root profile, one for everybody.
ScopedProfileOf == [c \in Published |-> CASE c = c1 -> own [] c = c2 -> root [] OTHER -> none]
ScopedSessionOf == [c \in Published |-> CASE c = c1 -> s1 [] c = c2 -> s2 [] OTHER -> none]

Budget(chs, n, reqs, togs, fails) ==
    [changes |-> chs, opens |-> [t \in Tabs |-> IF t = t1 THEN n ELSE 0],
     requests |-> reqs, toggles |-> togs, failures |-> fails]

\* Many events and no request, a little of both, and a few events with many requests.
EventsOrRequests ==
    {Budget({c1, c2, c3}, 2, 0, 0, 0),
     Budget({c1}, 1, 2, 0, 0),
     Budget({c1, c3}, 0, 2, 0, 0),
     Budget({c1}, 0, 2, 1, 0),
     Budget({c1}, 0, 3, 0, 0),
     Budget({x1}, 0, 3, 0, 1)}

OneProfile == [t \in Tabs |-> own]
=============================================================================
