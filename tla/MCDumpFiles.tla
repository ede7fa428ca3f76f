----------------------------- MODULE MCDumpFiles -----------------------------
(***************************************************************************)
(* Two dumpers whose templates have the time but not the class.             *)
(***************************************************************************)
EXTENDS DumpFiles

SameTemplate == [d \in Dumpers |-> "dumps/{time}"]
=============================================================================
