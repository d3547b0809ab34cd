---------------------------- MODULE MCSlotProxy ----------------------------
(* Small instances of SlotProxy for TLC.                                   *)
EXTENDS SlotProxy

=============================================================================
