----------------------------- MODULE MCReports -----------------------------
(* The reports over the sample histories.                                  *)
EXTENDS Reports, SampleHistories
=============================================================================
