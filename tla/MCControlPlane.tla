--------------------------- MODULE MCControlPlane ---------------------------
(* ControlPlane for TLC: small sets of epochs, sequence numbers, reports.   *)
EXTENDS ControlPlane

ReportOf(a, h) == [avail |-> a, health |-> h]

\* One report of each kind the router tells apart.
MCReports == { ReportOf("available", "healthy"), ReportOf("available", "degraded"),
               ReportOf("unavailable", "healthy") }

=============================================================================
