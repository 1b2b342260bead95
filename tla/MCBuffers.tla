----------------------------- MODULE MCBuffers ------------------------------
(* Small instances of three components that have no state in common: the    *)
(* circular buffer, the memory of a segment at every place in a page, and   *)
(* the logger.                                                              *)
EXTENDS BipBuffer, SegmentRead, Logger, TLC

CONSTANT w1

VARIABLE which

EveryPlace == {8 * n : n \in 0 .. 511}
MCNextLogger == (NoLogger :> w1) @@ (w1 :> NoLogger)

MCInit ==
    /\ Init /\ SegInit /\ LoggerInit
    /\ which \in {"bipbuffer", "segment", "logger"}
    /\ which # "bipbuffer" => \A i \in Index : data[i] = 0

MCNext ==
    /\ \/ which = "bipbuffer" /\ Next /\ UNCHANGED <<segVars, loggerVars>>
       \/ which = "segment" /\ SegNext /\ UNCHANGED <<vars, loggerVars>>
       \/ which = "logger" /\ LoggerNext /\ UNCHANGED <<vars, segVars>>
    /\ UNCHANGED which

\* Read and Done are not enabled before a segment is asked for.
MCSpec ==
    /\ MCInit /\ [][MCNext]_<<vars, segVars, loggerVars, which>>
    /\ WF_segVars(Read \/ Done)
    /\ WF_loggerVars(which = "logger" /\ logger_thread)
=============================================================================
