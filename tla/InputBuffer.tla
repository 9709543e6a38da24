----------------------------- MODULE InputBuffer -----------------------------
(***************************************************************************)
(* How the clients of Practice-RDT/GBN and of Practice - 2019/TCP_Transfer *)
(* read input.txt: through a buffer of PacketsPerBuffer packets that       *)
(* getfilestream() fills again when a packet has been taken from its end.  *)
(* The data of a packet is the number of the chunk of input.txt it         *)
(* carries, Empty (no byte before the terminator) behind the end of the    *)
(* file.  A chunk has 100 bytes; a buffer of TCP_Transfer is filled with   *)
(* 999 bytes, so that the last chunk of each has 99.                       *)
(***************************************************************************)
EXTENDS Naturals

CONSTANTS PacketsPerBuffer,   \* BUFFER_SIZE / PACKET_SIZE
          NumChunks           \* how many packets the content of input.txt fills

(* 1000 / 100 in both packet.h.  No client starts with an empty input.txt. *)
ASSUME PacketsAssumption == PacketsPerBuffer \in Nat \ {0}
ASSUME InputAssumption == NumChunks \in Nat \ {0}

VARIABLES bufFirst,   \* how many chunks were read before those in inputBuffer
          currseq,    \* position in inputBuffer, in packets
          fp          \* input.txt: "open" or "NULL"

inputVars == <<bufFirst, currseq, fp>>

Empty == 0
Chunk(i) == IF i <= NumChunks THEN i ELSE Empty

(* compute(), called when currseq has been advanced: at the end of the     *)
(* buffer the next part of the file is read, and the file is closed when   *)
(* it has no more.  What it returns, whether the data ends here, is left   *)
(* to the client.                                                          *)
EndOfBufferLate == currseq + 1 > PacketsPerBuffer   \* plausible off-by-one

EndOfBuffer == currseq + 1 >= PacketsPerBuffer

(* Plausible bug: the file is closed one buffer early. *)
ReadInputTooShort ==
    IF EndOfBuffer
    THEN /\ bufFirst' = bufFirst + PacketsPerBuffer
         /\ currseq' = 0
         /\ fp' = IF bufFirst + 2 * PacketsPerBuffer < NumChunks
                  THEN "open" ELSE "NULL"
    ELSE /\ currseq' = currseq + 1
         /\ UNCHANGED <<bufFirst, fp>>

ReadInput ==
    IF EndOfBuffer
    THEN /\ bufFirst' = bufFirst + PacketsPerBuffer
         /\ currseq' = 0
         /\ fp' = IF bufFirst + PacketsPerBuffer < NumChunks THEN "open" ELSE "NULL"
    ELSE /\ currseq' = currseq + 1
         /\ UNCHANGED <<bufFirst, fp>>

(* getfilestream() is asked for a file it has closed, and ends the client. *)
InputUsedUp == EndOfBuffer /\ fp = "NULL"
=============================================================================
