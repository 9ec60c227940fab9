---------------------------- MODULE MCSequenceRun ----------------------------
(***************************************************************************)
(* Instances of SequenceRun: how often each step may be retried.            *)
(***************************************************************************)
EXTENDS SequenceRun

NoRetries == [s \in Steps |-> 0]
FirstRetried == [s \in Steps |-> IF s = 1 THEN 1 ELSE 0]
=============================================================================
