--------------------------- MODULE MCNodePublisher ---------------------------
(* NodePublisher for two callers, two publish loops and a controller with a *)
(* worker, see the cfgs.                                                    *)
EXTENDS NodePublisher
=============================================================================
