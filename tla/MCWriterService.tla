--------------------------- MODULE MCWriterService ---------------------------
(* Instances of the writer service for TLC. *)
EXTENDS WriterService, TLC

CONSTANTS s1, s2

Of(type, s) == [type |-> type, sweeps_id |-> s]

(* The messages of one sweep and one of a queue of its own.                *)
OneOfEach == {Of("raw", s1), Of("elec", s1), Of("conversion", s2)}
=============================================================================
