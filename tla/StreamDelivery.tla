--------------------------- MODULE StreamDelivery ---------------------------
(***************************************************************************)
(* What one streaming request promises its client: while the connection    *)
(* holds, the client receives the frames in the order they were produced,  *)
(* none missing and none twice, and the request ends only when every frame *)
(* has been delivered.  A request may be refused before its first frame,   *)
(* and once the connection is lost only what was delivered is settled.     *)
(***************************************************************************)
EXTENDS Sequences, SequencesExt, Naturals

CONSTANT Frames

VARIABLES produced, delivered, mode

vars == <<produced, delivered, mode>>

Init == produced = <<>> /\ delivered = <<>> /\ mode = "live"

Produce(f) == /\ mode = "live"
              /\ produced' = Append(produced, f)
              /\ UNCHANGED <<delivered, mode>>

Deliver == /\ mode = "live"
           /\ Len(delivered) < Len(produced)
           /\ delivered' = Append(delivered, produced[Len(delivered) + 1])
           /\ UNCHANGED <<produced, mode>>

(* The request is answered with an error instead of a stream. *)
Refuse == /\ mode = "live"
          /\ delivered = <<>>
          /\ mode' = "refused"
          /\ UNCHANGED delivered

Finish == /\ mode = "live"
          /\ delivered = produced
          /\ mode' = "over"
          /\ UNCHANGED <<produced, delivered>>

Lose == /\ mode = "live"
        /\ mode' = "lost"
        /\ UNCHANGED <<produced, delivered>>

(* After the connection is lost frames may be dropped on the way, but what *)
(* is written still only grows.                                            *)
Unwind == /\ mode \in {"lost", "refused"}
          /\ mode' = mode
          /\ IsPrefix(delivered, delivered')
          /\ (mode = "refused" => UNCHANGED delivered)

Next == (\E f \in Frames : Produce(f)) \/ Deliver \/ Refuse \/ Finish \/ Lose \/ Unwind

Spec == Init /\ [][Next]_vars
=============================================================================
