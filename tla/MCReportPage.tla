---------------------------- MODULE MCReportPage ----------------------------
(* Instances of ReportPage for TLC. *)
EXTENDS ReportPage

CONSTANTS f, g

AllModes == {"normal", "server", "inverted", "server inverted", "report"}
=============================================================================
