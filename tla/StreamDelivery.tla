--------------------------- MODULE StreamDelivery ---------------------------
(***************************************************************************)
(* What a tab that follows a run is promised, whatever relays the events:  *)
(* it sees the log of the run from its beginning, event by event, without  *)
(* a hole or a repetition, and is told that the run is over when there is  *)
(* nothing left to see.  Only where the run met trouble is it told to      *)
(* restore the session instead.  A view may lapse; nothing is promised of  *)
(* it then but that the tab does not take a running run for one that ended.*)
(***************************************************************************)
EXTENDS Integers, Sequences, Functions

CONSTANTS
    Tabs,       \* browser tabs
    Events      \* the events of the run, by number

VARIABLES
    log,        \* the events in the journal
    closed,     \* the run has no more events
    trouble,    \* what the run met
    exact,      \* the view of the tab is a part of the log
    view,       \* the events the tab has seen, in the order it saw them, if so
    phase       \* whether the tab follows the run

vars == <<log, closed, trouble, exact, view, phase>>

Troubles == {"stop", "death", "failed write"}

Init ==
    /\ log = {} /\ closed = FALSE /\ trouble = {}
    /\ exact = [t \in Tabs |-> TRUE]
    /\ view = [t \in Tabs |-> <<>>]
    /\ phase = [t \in Tabs |-> "following"]

\* The run goes on by one event, which the journal may fail to take.
Extend ==
    /\ ~closed
    /\ \/ \E e \in Events : /\ \A f \in log : f < e
                            /\ log' = log \cup {e}
                            /\ UNCHANGED trouble
       \/ trouble' = trouble \cup {"failed write"} /\ UNCHANGED log
    /\ closed' \in BOOLEAN
    /\ UNCHANGED <<exact, view, phase>>

Strike ==
    /\ \E x \in {"stop", "death"} : trouble' = trouble \cup {x}
    /\ UNCHANGED <<log, closed, exact, view, phase>>

\* The next event of the log: new to the tab, and the only one of those up to
\* it that is.  Or an event that is not in the log.
Sees(t) ==
    \/ UNCHANGED view
    \/ \E e \in log \ Range(view[t]) :
          /\ \A f \in log : f < e => f \in Range(view[t])
          /\ view' = [view EXCEPT ![t] = Append(@, e)]

See(t) ==
    /\ phase[t] = "following" /\ exact[t]
    /\ Sees(t)
    /\ UNCHANGED <<log, closed, trouble, exact, phase>>

\* The last event.
End(t) ==
    /\ phase[t] = "following" /\ exact[t]
    /\ Sees(t)
    /\ "stop" \in trouble \/ (closed /\ log \subseteq Range(view'[t]))
    /\ phase' = [phase EXCEPT ![t] = "over"]
    /\ UNCHANGED <<log, closed, trouble, exact>>

Restore(t) ==
    /\ phase[t] = "following"
    /\ trouble # {}
    /\ phase' = [phase EXCEPT ![t] = "restoring"]
    /\ UNCHANGED <<log, closed, trouble, exact, view>>

Lapse(t) ==
    /\ phase[t] = "following" /\ exact[t]
    /\ exact' = [exact EXCEPT ![t] = FALSE]
    /\ view' = [view EXCEPT ![t] = <<>>]
    /\ \/ UNCHANGED phase
       \/ /\ closed \/ trouble # {}
          /\ phase' = [phase EXCEPT ![t] = "over"]
    /\ UNCHANGED <<log, closed, trouble>>

EndLapsed(t) ==
    /\ phase[t] = "following" /\ ~exact[t]
    /\ closed \/ "stop" \in trouble
    /\ phase' = [phase EXCEPT ![t] = "over"]
    /\ UNCHANGED <<log, closed, trouble, exact, view>>

Next ==
    \/ Extend \/ Strike
    \/ \E t \in Tabs : See(t) \/ End(t) \/ Restore(t) \/ Lapse(t) \/ EndLapsed(t)

Spec == Init /\ [][Next]_vars
=============================================================================
