--------------------------- MODULE FirmwareSlots ---------------------------
(***************************************************************************)
(* What the programmer of an over-the-air updater promises to the device,  *)
(* and nothing else: a set of flash slots, one of which the boot loader    *)
(* starts.  The other slots may be programmed in any way; the boot choice  *)
(* moves only to a slot that holds a whole image.  However an update ends  *)
(* (committed, aborted, refused, cut off by a power failure), the device   *)
(* still has something to start.                                           *)
(***************************************************************************)

EXTENDS Sequences

CONSTANTS Partition,    \* the application partitions
          Byte,         \* the values a flash cell is programmed with
          Image         \* the byte sequences that are firmware images

VARIABLES slot,         \* what each partition holds
          boot          \* the partition the boot loader starts

vars == <<slot, boot>>

Init ==
    /\ slot \in [Partition -> Seq(Byte)]
    /\ boot \in Partition
    /\ slot[boot] \in Image

\* A slot that is not the boot slot is erased, or programmed further.
Program ==
    /\ \E p \in Partition \ {boot} :
          /\ slot' \in [Partition -> Seq(Byte)]
          /\ \A q \in Partition \ {p} : slot'[q] = slot[q]
    /\ UNCHANGED boot

\* The boot choice moves to a slot that holds an image.
Activate ==
    /\ \E p \in Partition \ {boot} :
          /\ slot[p] \in Image
          /\ boot' = p
    /\ UNCHANGED slot

Next == Program \/ Activate

Spec == Init /\ [][Next]_vars

=============================================================================
