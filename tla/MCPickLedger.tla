---------------------------- MODULE MCPickLedger ----------------------------
(* Small instances of PickLedger.                                          *)
EXTENDS PickLedger, TLC

CONSTANTS watchdog, reconcile

MCResolvers == {watchdog, reconcile}
MCKind == (watchdog :> "watchdog") @@ (reconcile :> "reconcile")
=============================================================================
