--------------------------- MODULE ConfigRefinement ---------------------------
(***************************************************************************)
(* The two-bank transaction implements the draft of AtomicConfig.          *)
(***************************************************************************)
EXTENDS ConfigTransaction

Draft ==
  IF config # "OPEN" THEN {}
  ELSE {[values |-> staging,
         whole |-> \A b \in DOMAIN staging \cap Blobs : written = DOMAIN staging[b],
         scalars |-> expected.scalars, blobs |-> expected.blobs,
         profile |-> profile]}

Promise == INSTANCE AtomicConfig WITH conf <- active, name <- name, draft <- Draft

(* The configuration the generator transmits changes in one step: by one   *)
(* directly set constant, by the global slider, by a saved image, or into  *)
(* a draft that is complete: as many scalars and blobs as BEGIN_CONFIG     *)
(* declared, every blob byte written, the keys of the profile it names.    *)
(* A transaction that is rejected, mismatched or aborted leaves no trace.  *)
ImplementsAtomicConfig == Promise!Spec

=============================================================================
