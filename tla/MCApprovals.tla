----------------------------- MODULE MCApprovals -----------------------------
(* The approvals of a run (Approvals), for TLC and for the proofs: the names   *)
(* below keep clear of other components'.                                      *)
EXTENDS Naturals, Sequences

CONSTANTS Questions, NoQuestion, MaxRepeats, MaxUpsets

VARIABLES
    asks, delivered, held, run, picked, heard, open, sent, told, asked,
    talk, relay, outbox, step, hand, repeats, upsets

Asking == INSTANCE Approvals WITH MaxFaults <- MaxUpsets, row <- asks, faults <- upsets

ASSUME AskingAssumption == Asking!BoundsAssumption /\ Asking!NoQuestionAssumption

AskSpec == Asking!FairSpec

(* "The row says what the box was actually told" (expire_approvals): once a    *)
(* conversation closed, the questions whose row says answered are those whose  *)
(* first reply to the box was the person's.                                    *)
RowsSayWhatTheBoxHeard == Asking!RowsSayWhatTheBoxHeard

(* An answer that was accepted reaches the box, while there is a conversation  *)
(* to carry it (Talk.relay).                                                   *)
AcceptedAnswersAreSent == Asking!AcceptedAnswersAreSent

(* An accepted answer is not lost in silence: the box was sent it, or its row  *)
(* says expired, unless the control plane was killed or its close failed.      *)
AcceptedAnswersSettle == Asking!AcceptedAnswersSettle
=============================================================================
