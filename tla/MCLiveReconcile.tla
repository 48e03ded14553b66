---------------------------- MODULE MCLiveReconcile ----------------------------
(* Two markets; one order is requested in the Korean one. *)
EXTENDS LiveReconcile, TLC

CONSTANTS c1, kr, ovs

MCMarkets    == <<kr, ovs>>
MCMarketOf   == c1 :> kr
MCForeign    == {<<2, ovs>>}
MCCodes      == (kr :> {"00040"}) @@ (ovs :> {"00000"})
===============================================================================
