---------------------------- MODULE MCRouteStore ----------------------------
(* Instances of RouteStore for TLC. *)
EXTENDS RouteStore, TLC

CONSTANTS drive, boot, qcamera, h1, h2
StoreRoutes == {drive}
StoreLogs == {boot}
OneFile == {qcamera}
StoreHandlers == {h1, h2}
HandlersAlike == Permutations(StoreHandlers)
=============================================================================
