---------------------------- MODULE MCHttpServer ----------------------------
(***************************************************************************)
(* Requests of every kind, with and without a stream and on both lanes.    *)
(***************************************************************************)
EXTENDS HttpServer, TLC

Method(kind, stream, isControl) == [kind |-> kind, stream |-> stream, control |-> isControl]

MCMethods == {Method("complete", FALSE, FALSE), Method("complete", TRUE, FALSE),
              Method("rpc", FALSE, TRUE), Method("rpc", TRUE, FALSE), Method("models", FALSE, FALSE)}
Symmetry == Permutations(Requests)
=============================================================================
