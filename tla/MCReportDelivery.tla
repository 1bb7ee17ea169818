--------------------------- MODULE MCReportDelivery ---------------------------
(* Small instances of ReportDelivery for TLC; the sets are model values.    *)
EXTENDS ReportDelivery, TLC

\* Runs are interchangeable, and so are servers.
Symmetry == Permutations(Run) \cup Permutations(Replayer)

\* The state without undeleted, a history that no action reads, for the run
\* whose properties do not speak about it.
WithoutUndeleted == <<connection, variable, callback, replay, restarts,
                      network, received, acked, accepted>>

===============================================================================
