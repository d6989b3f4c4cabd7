----------------------------- MODULE MCTelemetry -----------------------------
(* Small instances of Telemetry for TLC.                                   *)
EXTENDS Telemetry

(* No file or an empty one, one of an earlier run, one without a header.   *)
MCContents == {<< >>, <<Header, 0>>, <<0, 0>>}
NoFile == {<< >>}
=============================================================================
