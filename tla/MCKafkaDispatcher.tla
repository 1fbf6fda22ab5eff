-------------------------- MODULE MCKafkaDispatcher --------------------------
(***************************************************************************)
(* The events publishers may choose from: all kinds with one key, so that  *)
(* two events may name the same workflow; valid ones alone; and valid ones *)
(* with values that are not UTF-8.                                         *)
(***************************************************************************)
EXTENDS KafkaDispatcher

MCEvents == Delivery!Event
MCValid == {e \in Delivery!Event : e.kind = "valid"}
MCWellFormed == {e \in Delivery!Event : e.kind # "malformed"}
=============================================================================
