-------------------------- MODULE MCRouteAggregate --------------------------
(* Up to five of the fifteen prefixes of up to three bits. *)
EXTENDS RouteAggregate
=============================================================================
