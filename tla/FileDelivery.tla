----------------------------- MODULE FileDelivery -----------------------------
(***************************************************************************)
(* What the UDP file transfer promises: the client's file grows by whole    *)
(* chunks, each the next one of the server's file, and both sides end with  *)
(* the complete file in the client's hands.  The promise about the server's *)
(* end holds in sessions whose first packet the client has acknowledged; a  *)
(* server that took something else for that acknowledgement may end anyway. *)
(***************************************************************************)
EXTENDS Integers, Sequences

VARIABLES
    chunkCnt,    \* chunks with data in the server's file, constant
    out,         \* numbers of the chunks written by the client, in order
    received,    \* the client has closed its file
    sent,        \* the server has ended
    skipped      \* the server went on before the client answered

deliveryVars == <<chunkCnt, out, received, sent, skipped>>

DeliveryInit ==
    /\ chunkCnt \in Nat
    /\ out = << >>
    /\ received = FALSE /\ sent = FALSE /\ skipped = FALSE

Skip ==
    /\ out = << >> /\ ~ sent /\ ~ received
    /\ skipped' = TRUE
    /\ UNCHANGED <<chunkCnt, out, received, sent>>

\* The next chunk; with the last one the client is done.
Write ==
    /\ ~ received
    /\ Len(out) < chunkCnt
    /\ out' = Append(out, Len(out))
    /\ received' = (Len(out') = chunkCnt)
    /\ UNCHANGED <<chunkCnt, sent, skipped>>

\* A file without data.
Empty ==
    /\ chunkCnt = 0
    /\ ~ received
    /\ received' = TRUE
    /\ UNCHANGED <<chunkCnt, out, sent, skipped>>

End ==
    /\ ~ sent
    /\ received \/ skipped
    /\ sent' = TRUE
    /\ UNCHANGED <<chunkCnt, out, received, skipped>>

DeliveryNext == Skip \/ Write \/ Empty \/ End

DeliverySpec == DeliveryInit /\ [][DeliveryNext]_deliveryVars
===============================================================================
