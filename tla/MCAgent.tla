------------------------------- MODULE MCAgent -------------------------------
(* What makes an agent, for TLC: its identity and the machine that carries it  *)
(* (BoxCreation), the files control writes into it (AgentFiles) and the        *)
(* environment it runs in (AgentEnv).  The three touch no state of one         *)
(* another, so a behaviour is of one of them.                                  *)
EXTENDS AgentFiles, TLC

CONSTANTS Models, First, Sizes, Least, EnvRequests, EnvMoves, EnvTroubles,
    MaxBoxes, Identities, MaxMachines, MaxFaults,
    MaxUpsets,     \* bound: requests, moves and troubles of the files together
    EnvUpsets      \* bound: requests, moves and troubles of the environment together

VARIABLES
    part,
    e_status, default, machine, own, given, change, sized, sizeSet, label,
    reading, thisHour, busy, e_work, e_asked, e_moves, e_troubles, e_unsure,
    prefix, url, row, apps, secrets, c_machine, creator, desk, told, faults,
    strayed, outrun, crowded

Env == INSTANCE AgentEnv WITH
    MaxRequests <- EnvRequests, MaxMoves <- EnvMoves, MaxTroubles <- EnvTroubles,
    status <- e_status, work <- e_work, asked <- e_asked, moves <- e_moves,
    troubles <- e_troubles, unsure <- e_unsure

env == <<e_status, default, machine, own, given, change, sized, sizeSet, label,
         reading, thisHour, busy, e_work, e_asked, e_moves, e_troubles, e_unsure>>
Makes == INSTANCE BoxCreation WITH
    Names <- Identities, Desks <- Workers, machine <- c_machine
makes == <<prefix, url, row, apps, secrets, c_machine, creator, desk, told, faults,
           strayed, outrun, crowded>>

ASSUME EnvAssumption == Env!MadeAssumption /\ Env!BoundsAssumption
ASSUME MakesAssumption == Makes!NoneAssumption

MCInit ==
    /\ part \in {"making", "files", "env"} /\ Init /\ Env!Init /\ Makes!Init
    /\ part # "making" => prefix
MCNext ==
    /\ UNCHANGED part
    /\ \/ /\ part = "making" /\ Makes!Next /\ UNCHANGED <<vars, env>>
       \/ /\ part = "files" /\ Next /\ UNCHANGED <<env, makes>>
          /\ asked' + moves' + troubles' <= MaxUpsets
       \/ /\ part = "env" /\ Env!Next /\ UNCHANGED <<vars, makes>>
          /\ e_asked' + e_moves' + e_troubles' <= EnvUpsets
MCSpec == MCInit /\ [][MCNext]_<<part, vars, env, makes>>

Symmetry == Permutations(Workers) \cup Permutations(Identities)
(* What no property speaks of is not looked into further.                      *)
Owned == prefix \/ Makes!Alone

(* The record of the agent's model says what its machine asks for, the machine *)
(* can pay for its calls, and the size it is billed for is known, unless a     *)
(* change was cut off or overtaken: the three of AgentEnv (set_agent_model,    *)
(* resize_box).                                                                *)
AgentIsAsRecorded == Env!ModelIsRecorded /\ Env!AgentCanCall /\ Env!SizeIsKnown

(* A machine answers as the agent whose row points at it, and no machine       *)
(* belongs to two: the two of BoxCreation (create_box, repair_connection).     *)
MachinesAreTheirs == Makes!HoldsItsIdentity /\ Makes!OneBoxPerMachine

(* A teardown or sweep takes no other agent's machine, unless its box was      *)
(* closed under it (teardown_box, _close_stranded_provision).                  *)
DestroysItsOwn == Makes!DestroysItsOwn
=============================================================================
