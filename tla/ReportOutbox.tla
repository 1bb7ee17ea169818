---------------------------- MODULE ReportOutbox ----------------------------
(***************************************************************************)
(* What the delivery of reports promises, without its processes, tables    *)
(* and requests (docstrings of post_progress and post_results in           *)
(* utilities/report.py): a report that could not be posted is owed, and    *)
(* stays owed until the service has got it.                                *)
(***************************************************************************)
CONSTANT Message

VARIABLES
    owed,           \* reports kept to be sent again
    delivered       \* reports the service has got

vars == <<owed, delivered>>

Init == owed = {} /\ delivered = {}

\* A report could not be posted, as far as its sender can tell.
Owe(m) == owed' = owed \cup {m} /\ UNCHANGED delivered

\* The service gets a report, at the first attempt, late or once more.
Deliver(m) == delivered' = delivered \cup {m} /\ UNCHANGED owed

\* Only what has been delivered is forgotten.
Settle(m) ==
    /\ m \in owed \cap delivered
    /\ owed' = owed \ {m}
    /\ UNCHANGED delivered

Next == \E m \in Message : Owe(m) \/ Deliver(m) \/ Settle(m)

Spec == Init /\ [][Next]_vars

=============================================================================
