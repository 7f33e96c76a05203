------------------------------ MODULE MCProxying ------------------------------
(***************************************************************************)
(* The balancers over two endpoints, one try more than the first, one      *)
(* attempt to connect more than the first.                                 *)
(***************************************************************************)
EXTENDS Proxying

MCUpstreams == {<<"RoundRobin", TRUE>>, <<"FailOver", TRUE>>, <<"FailRobin", FALSE>>}
==============================================================================
