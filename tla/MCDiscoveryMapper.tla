-------------------------- MODULE MCDiscoveryMapper --------------------------
(***************************************************************************)
(* A small instance of DiscoveryMapper: one kind that is always served and *)
(* one whose definition comes and goes.                                    *)
(***************************************************************************)
EXTENDS DiscoveryMapper

CONSTANTS core, custom

MCKinds == {core, custom}
MCDiscovery == {{core}, {core, custom}}
=============================================================================
