---------------------------- MODULE FileDelivery ----------------------------
(***************************************************************************)
(* What a boot client may rely on when it fetches a file: it receives a    *)
(* growing prefix of the file, and the server calls the delivery complete  *)
(* only when nothing is missing.                                           *)
(***************************************************************************)
EXTENDS Naturals, Sequences

VARIABLES
    size,      \* the number of blocks of the file
    received,  \* the blocks the client has, in the order it got them
    complete   \* the server has reported the delivery complete

deliveryVars == <<size, received, complete>>

DeliveryInit ==
    /\ size \in Nat
    /\ received = <<>>
    /\ complete = FALSE

\* The next block arrives.
Deliver ==
    /\ Len(received) < size
    /\ received' = Append(received, Len(received) + 1)
    /\ UNCHANGED <<size, complete>>

\* The server is done.
Complete ==
    /\ Len(received) = size
    /\ complete' = TRUE
    /\ UNCHANGED <<size, received>>

DeliverySpec == DeliveryInit /\ [][Deliver \/ Complete]_deliveryVars
=============================================================================
