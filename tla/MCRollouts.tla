----------------------------- MODULE MCRollouts -----------------------------
(* Hermes updates and the agents they move (Rollouts), for TLC and for the     *)
(* proofs: the names below keep clear of other components'.                    *)
EXTENDS Naturals

CONSTANTS Boxes, Made, Refs, First, Builds, MaxMishaps, MaxMoves

VARIABLES status, image, releases, build, roll, upgrade, mishaps, moves, elsewhere

Rolls == INSTANCE Rollouts WITH troubles <- mishaps, MaxTroubles <- MaxMishaps

ASSUME RolloutsAssumption ==
    /\ Rolls!BoxesAssumption /\ Rolls!RefsAssumption
    /\ Rolls!BuildsAssumption /\ Rolls!BoundsAssumption

RollSpec == Rolls!FairSpec

(* An update that is reported done left no agent behind: every one it listed   *)
(* is on its image, unless another upgrade moved it after (update_hermes,      *)
(* upgrade_box).                                                               *)
DoneMeansMoved == Rolls!DoneMeansMoved

(* No update keeps the next one out for ever, however it ended                 *)
(* (_active_build).                                                            *)
UpdatesGiveWay == Rolls!UpdatesGiveWay
=============================================================================
