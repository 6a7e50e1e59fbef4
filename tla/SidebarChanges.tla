--------------------------- MODULE SidebarChanges ---------------------------
(***************************************************************************)
(* What changes in the sidebar, for whom, and the payload that announces a *)
(* change: the vocabulary SessionEvents and SessionListCache share.        *)
(*                                                                         *)
(* A change is one write to what GET /api/sessions shows.  A published one *)
(* is made by the server, which calls publish_session_list_changed after   *)
(* its save; an external one is written to state.db by another program.    *)
(***************************************************************************)
EXTENDS Integers, FiniteSets

CONSTANTS
    Tabs,           \* browser tabs
    Profiles,       \* the profiles tabs look at
    Root,           \* the root profile, whose name and aliases differ by tab
    Published,      \* changes the server publishes
    External,       \* changes other programs make
    Unscoped,       \* "no profile" and "no session"
    ProfileOf,      \* the profile argument of a published change, or Unscoped
    SessionOf,      \* its session_id argument, or Unscoped
    TabProfile,     \* the profile a tab looks at
    Confined        \* tabs of users who see their own profile only

Changes == Published \cup External

ASSUME SidebarAssumption ==
    /\ Root \in Profiles /\ Unscoped \notin Profiles
    /\ Published \cap External = {}
    /\ ProfileOf \in [Published -> Profiles \cup {Unscoped}]
    /\ TabProfile \in [Tabs -> Profiles]
    /\ Confined \subseteq Tabs /\ Tabs \cap Profiles = {}

Sessions == {SessionOf[c] : c \in Published} \cup {Unscoped}

Event == [profile : Profiles \cup {Unscoped}, session : Sessions]

\* _sessions_changed_payload: the root profile is announced without its name,
\* because a tab cannot tell every alias of it.
Payload(c) ==
    [profile |-> IF ProfileOf[c] = Root THEN Unscoped ELSE ProfileOf[c],
     session |-> SessionOf[c]]

CoalescedPayload_Newest(pending, incoming) == IF pending = incoming THEN pending ELSE incoming

\* _coalesced_sessions_changed_payload, for a pending event.
CoalescedPayload(pending, incoming) ==
    [profile |-> IF pending.profile = incoming.profile THEN incoming.profile ELSE Unscoped,
     session |-> IF pending = incoming THEN incoming.session ELSE Unscoped]

\* UserSessionOwnership.may_receive_event, for a user of profile p: a session
\* is the user's own when its profile is.
MayReceive(p, e) ==
    \/ e.profile = Unscoped /\ e.session = Unscoped
    \/ e.profile = p

\* The server lets the event through to tab t, and the tab refreshes on it.
ActsOn(t, e) ==
    /\ t \in Confined => MayReceive(TabProfile[t], e)
    /\ e.profile \in {Unscoped, TabProfile[t]}

\* The changes a list of profile p shows.
VisibleIn(p) == External \cup {c \in Published : ProfileOf[c] \in {p, Unscoped}}
=============================================================================
