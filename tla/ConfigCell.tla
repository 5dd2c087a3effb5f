----------------------------- MODULE ConfigCell -----------------------------
(***************************************************************************)
(* What the configuration store promises across resets: the stored         *)
(* configuration is a cell that only a save writes.  Until the save is     *)
(* over the cell holds the old record, nothing, or the new record, never   *)
(* anything else; between two saves it does not change.                    *)
(***************************************************************************)
CONSTANTS Rec,   \* the records that can be stored
          None   \* no record: what the device finds is not a configuration

VARIABLES cell,     \* the record the next reset will find
          pending   \* the record being saved

CInit == cell \in Rec /\ pending = None

\* a save begins; the factory reset may begin one while another is running
Begin == \E r \in Rec : pending' = r /\ UNCHANGED cell

\* the old record is given up before the new one is there
Drop == pending # None /\ cell' = None /\ UNCHANGED pending

Commit == pending # None /\ cell = None /\ cell' = pending /\ UNCHANGED pending

\* the save is over, or a reset cut it off
End == pending' = None /\ UNCHANGED cell

\* the hidden command that erases the configuration on purpose
Clear == pending = None /\ cell' = None /\ UNCHANGED pending

CNext == Begin \/ Drop \/ Commit \/ End \/ Clear

CSpec == CInit /\ [][CNext]_<<cell, pending>>
=============================================================================
