-------------------------- MODULE MCReportBarrier --------------------------
(* Three GPUs, reports every second batch, three rounds. *)
EXTENDS ReportBarrier
=============================================================================
