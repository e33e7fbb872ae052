----------------------- MODULE MCDiscoveryWorkspace ------------------------
(* Two discoveries, so that one may outlive its worker while the other runs, *)
(* and one crash between them or during either.                              *)
EXTENDS DiscoveryWorkspace
=============================================================================
