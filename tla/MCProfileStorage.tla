--------------------------- MODULE MCProfileStorage ---------------------------
(* Instances of the profile store for TLC.                                 *)
EXTENDS ProfileStorageRefinement

(* A doc claim: README line 16, "Two 4 KiB Flash slots used alternately,   *)
(* power-fail safe".  Read for ERASE_SAVED_CONFIG: whatever interrupts it, *)
(* a boot finds the configuration that was saved or none at all.           *)
EraseAllOrNothing ==
  [][pc = "wipe" /\ OpenStatus = "OK"
       => OpenStatus' = "EMPTY" \/ Current' = Current]_storageVars

=============================================================================
