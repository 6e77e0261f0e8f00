---------------------------- MODULE ProfileStorage ----------------------------
(***************************************************************************)
(* The A/B store for the saved profile: MID/j1939_profile_storage.c over   *)
(* HAL/hal_flash_stm32f1.c, entered through APP/app_persistence.c.         *)
(*                                                                         *)
(* A save or a SET_AUTOSTART runs to completion inside one handler, but    *)
(* power may go between any two Flash operations and any Flash operation   *)
(* may report an error, so every page erase, page program, marker half-    *)
(* word and read-back is a step of its own.  The half-words of one page    *)
(* are one step: what a cut among them leaves is TORN, a page that no      *)
(* longer checks against the image CRC.  An image is a record; CRCs are    *)
(* taken to be collision free, so a slot reads back as an image exactly    *)
(* when the pages it spans hold that image.                                *)
(***************************************************************************)
EXTENDS Integers

CONSTANTS
  Pages,      (* pages of one slot, STORAGE_PAGES_PER_SLOT                 *)
  Span,       (* pages one image occupies                                  *)
  Half,       (* half of the sequence space: 2^31                          *)
  Configs,    (* configurations that can be saved                          *)
  Catalogs,   (* signal catalogs a firmware can be built with              *)
  MaxBirths,  (* bound: images written in one behaviour                    *)
  BLANK, TORN (* an erased page; a page that holds no complete image part  *)

VARIABLES
  pages,    (* contents of the pages of the two slots                      *)
  marker,   (* the valid marker of each slot, two half-words               *)
  catalog,  (* J1939_CATALOG_CRC32 of the running firmware                 *)
  pc,       (* the Flash operation the handler is at, or "idle"            *)
  target,   (* slot being written                                          *)
  page,     (* next page of the loop                                       *)
  image,    (* the image being written, BLANK outside of a write           *)
  births,   (* history: images built so far                                *)
  acked,    (* history: the images reported OK since the last loss: {} or {i} *)
  wiped     (* history: an ERASE began after the last image reported OK    *)

flash == <<pages, marker>>
storageVars == <<pages, marker, catalog, pc, target, page, image, births, acked, wiped>>

Slots == {0, 1}
SameSlot(s) == s                     (* mutant: rewrite the slot in place *)
Other(s) == 1 - s
Sequences32 == 0 .. 2 * Half - 1

Images == [catalog : Catalogs, seq : Sequences32, config : Configs,
           autostart : BOOLEAN, birth : Nat]
PageContents == Images \cup {BLANK, TORN}
Markers == {"blank", "half", "valid"}

ASSUME StorageAssumption ==
  /\ Span \in Nat \ {0} /\ Pages \in Nat /\ Span <= Pages
  /\ Half \in Nat /\ Half >= 2
  /\ MaxBirths \in Nat
  /\ Configs # {} /\ Catalogs # {}
  /\ BLANK # TORN /\ BLANK \notin Images /\ TORN \notin Images

-----------------------------------------------------------------------------
(* Sequence numbers, 32 bits wide with wrap-around.                        *)

NextSeq(n) == IF n = 2 * Half - 1 THEN 0 ELSE n + 1
Distance(a, b) == IF a >= b THEN a - b ELSE a - b + 2 * Half
NewerUnsigned(a, b) == a > b         (* mutant: unsigned comparison *)
Newer(a, b) == Distance(a, b) > 0 /\ Distance(a, b) < Half

-----------------------------------------------------------------------------
(* Reading the store.                                                      *)

Header(s) == pages[s][0]
CrcOk(s) == \A p \in 0 .. Span - 1 : pages[s][p] = Header(s)

LoadStatus(s) ==
  IF marker[s] # "valid" \/ Header(s) \in {BLANK, TORN} THEN "INVALID_IMAGE"
  ELSE IF Header(s).catalog # catalog THEN "CATALOG_MISMATCH"
  ELSE IF CrcOk(s) THEN "OK" ELSE "INVALID_IMAGE"

Loadable(s) == LoadStatus(s) = "OK"

Selected ==
  IF Loadable(0) /\ Loadable(1)
  THEN IF Newer(Header(1).seq, Header(0).seq) THEN 1 ELSE 0
  ELSE IF Loadable(0) THEN 0 ELSE 1

OpenStatus ==
  IF \E s \in Slots : Loadable(s) THEN "OK"
  ELSE IF \E s \in Slots : LoadStatus(s) = "CATALOG_MISMATCH"
  THEN "CATALOG_MISMATCH" ELSE "EMPTY"

Current == Header(Selected)

-----------------------------------------------------------------------------
StorageInit ==
  /\ pages = [s \in Slots |-> [p \in 0 .. Pages - 1 |-> BLANK]]
  /\ marker = [s \in Slots |-> "blank"]
  /\ catalog \in Catalogs
  /\ pc = "idle"
  /\ target = 0
  /\ page = 0
  /\ image = BLANK
  /\ births = 0
  /\ acked = {}
  /\ wiped = FALSE

(* prv_write_slot starts on slot s with the image built for it.            *)
StartWriting(s, img) ==
  /\ births < MaxBirths
  /\ births' = births + 1
  /\ image' = img
  /\ target' = s
  /\ page' = 0
  /\ pc' = "erase"
  /\ UNCHANGED <<flash, catalog, acked, wiped>>

(* Mutants of Save: the sequence number is not advanced; the autostart     *)
(* flag is not carried over.                                               *)
SaveImage(c, seq, auto) ==
  /\ pc = "idle"
  /\ StartWriting(IF OpenStatus = "OK" THEN Other(Selected) ELSE 0,
       [catalog |-> catalog, seq |-> seq, config |-> c, autostart |-> auto,
        birth |-> births + 1])
SaveKeepsSequence(c) ==
  SaveImage(c, IF OpenStatus = "OK" THEN Current.seq ELSE 1,
            OpenStatus = "OK" /\ Current.autostart)
SaveDropsAutostart(c) ==
  SaveImage(c, IF OpenStatus = "OK" THEN NextSeq(Current.seq) ELSE 1, FALSE)

(* SAVE_CONFIG: keeps the autostart flag of the image it replaces.         *)
Save(c) ==
  /\ pc = "idle"
  /\ \/ /\ OpenStatus = "OK"
        /\ StartWriting(Other(Selected),
             [catalog |-> catalog, seq |-> NextSeq(Current.seq), config |-> c,
              autostart |-> Current.autostart, birth |-> births + 1])
     \/ /\ OpenStatus # "OK"
        /\ StartWriting(0,
             [catalog |-> catalog, seq |-> 1, config |-> c,
              autostart |-> FALSE, birth |-> births + 1])

(* SET_AUTOSTART: rewrites the current image with the flag changed.        *)
SetAutostart(enabled) ==
  /\ pc = "idle"
  /\ OpenStatus = "OK"
  /\ StartWriting(Other(Selected),
       [catalog |-> catalog, seq |-> NextSeq(Current.seq), config |-> Current.config,
        autostart |-> enabled, birth |-> births + 1])

(* The handler returns; its locals are gone.                               *)
Return ==
  /\ pc' = "idle"
  /\ target' = 0
  /\ page' = 0
  /\ image' = BLANK

-----------------------------------------------------------------------------
(* The Flash operations.  Page 0 holds the marker, so erasing it blanks    *)
(* the marker.                                                             *)

PutPage(s, p, content) == pages' = [pages EXCEPT ![s][p] = content]
Mark(s, m) == marker' = [marker EXCEPT ![s] = m]

EraseAt(s, p) ==
  /\ PutPage(s, p, BLANK)
  /\ IF p = 0 THEN Mark(s, "blank") ELSE UNCHANGED marker

(* Programming may disturb a page programmed before, which the HAL's check *)
(* of the half-word it just wrote does not see: the pass that verifies the *)
(* whole image, and the final read-back, exist for that.                   *)
ProgramAt(s, p) ==
  /\ \/ PutPage(s, p, image)
     \/ \E q \in 0 .. p : pages' = [pages EXCEPT ![s] =
          [r \in 0 .. Pages - 1 |-> IF r = q THEN TORN ELSE IF r = p THEN image
                                  ELSE @[r]]]
  /\ UNCHANGED marker

ProgramMarker(s, m) ==
  /\ Mark(s, m)
  /\ UNCHANGED pages \/ \E q \in 0 .. Span - 1 : PutPage(s, q, TORN)

ErasePage ==
  /\ pc = "erase"
  /\ EraseAt(target, page)
  /\ IF page + 1 < Pages THEN page' = page + 1 /\ pc' = pc
                         ELSE page' = 0 /\ pc' = "program"
  /\ UNCHANGED <<catalog, target, image, births, acked, wiped>>

ProgramPage ==
  /\ pc = "program"
  /\ ProgramAt(target, page)
  /\ IF page + 1 < Span THEN page' = page + 1 /\ pc' = pc
                        ELSE page' = 0 /\ pc' = "verify"
  /\ UNCHANGED <<catalog, target, image, births, acked, wiped>>

VerifyImage ==
  /\ pc = "verify"
  /\ \/ /\ \A p \in 0 .. Span - 1 : pages[target][p] = image
        /\ pc' = "mark_lo"
        /\ UNCHANGED <<target, page, image>>
     \/ /\ \E p \in 0 .. Span - 1 : pages[target][p] # image
        /\ Return
  /\ UNCHANGED <<flash, catalog, births, acked, wiped>>

ProgramMarkerLow ==
  /\ pc = "mark_lo"
  /\ ProgramMarker(target, "half")
  /\ pc' = "mark_hi"
  /\ UNCHANGED <<catalog, target, page, image, births, acked, wiped>>

ProgramMarkerHigh ==
  /\ pc = "mark_hi"
  /\ ProgramMarker(target, "valid")
  /\ pc' = "readback"
  /\ UNCHANGED <<catalog, target, page, image, births, acked, wiped>>

(* The slot is loaded again before OK is reported.                         *)
ReadBack ==
  /\ pc = "readback"
  /\ Return
  /\ IF Loadable(target) THEN acked' = {image} /\ wiped' = FALSE
                         ELSE UNCHANGED <<acked, wiped>>
  /\ UNCHANGED <<flash, catalog, births>>

(* ERASE_SAVED_CONFIG: all pages of slot 0, then all pages of slot 1.      *)
Erase ==
  /\ pc = "idle"
  /\ pc' = "wipe"
  /\ target' = 0
  /\ page' = 0
  /\ wiped' = TRUE
  /\ UNCHANGED <<flash, catalog, image, births, acked>>

WipePage ==
  /\ pc = "wipe"
  /\ EraseAt(target, page)
  /\ \/ /\ page + 1 < Pages
        /\ page' = page + 1
        /\ UNCHANGED <<pc, target, image, acked>>
     \/ /\ page + 1 = Pages /\ target = 0
        /\ page' = 0
        /\ target' = 1
        /\ UNCHANGED <<pc, image, acked>>
     \/ /\ page + 1 = Pages /\ target = 1
        /\ Return
        /\ acked' = {}
  /\ UNCHANGED <<catalog, births, wiped>>

(* What a Flash operation that is cut or that reports an error leaves: it  *)
(* may not have begun, be partly done, or be complete.                     *)
Residue ==
  \/ UNCHANGED flash
  \/ pc \in {"erase", "wipe"} /\ EraseAt(target, page)
  \/ /\ pc \in {"erase", "wipe", "program"}
     /\ PutPage(target, page, TORN) /\ UNCHANGED marker
  \/ pc = "program" /\ PutPage(target, page, image) /\ UNCHANGED marker
  \/ pc = "mark_lo" /\ Mark(target, "half") /\ UNCHANGED pages
  \/ pc = "mark_hi" /\ Mark(target, "valid") /\ UNCHANGED pages

(* The handler does not get past its current step: the Flash operation     *)
(* reports an error, which is returned at once, or power is cut or the     *)
(* watchdog resets.                                                        *)
Interrupt ==
  /\ pc # "idle"
  /\ Residue
  /\ Return
  /\ UNCHANGED <<catalog, births, acked, wiped>>

(* The board is flashed with firmware built from another catalog; the      *)
(* linker keeps the slots out of the image.                                *)
Reflash ==
  /\ pc = "idle"
  /\ catalog' \in Catalogs \ {catalog}
  /\ acked' = {}
  /\ UNCHANGED <<flash, pc, target, page, image, births, wiped>>

StorageNext ==
  \/ \E c \in Configs : Save(c)
  \/ \E enabled \in BOOLEAN : SetAutostart(enabled)
  \/ ErasePage
  \/ ProgramPage
  \/ VerifyImage
  \/ ProgramMarkerLow
  \/ ProgramMarkerHigh
  \/ ReadBack
  \/ Erase
  \/ WipePage
  \/ Interrupt
  \/ Reflash

StorageSpec == StorageInit /\ [][StorageNext]_storageVars

-----------------------------------------------------------------------------
(* Properties.                                                             *)

Steps == {"idle", "erase", "program", "verify", "mark_lo", "mark_hi",
          "readback", "wipe"}

(* A write is under way, on slot target.                                   *)
Writing == pc \in {"erase", "program", "verify", "mark_lo", "mark_hi", "readback"}

(* Every variable stays in its range; the Flash holds page contents and    *)
(* markers only.                                                           *)
TypeOK ==
  /\ pages \in [Slots -> [0 .. Pages - 1 -> PageContents]]
  /\ marker \in [Slots -> Markers]
  /\ catalog \in Catalogs
  /\ pc \in Steps
  /\ target \in Slots
  /\ page \in 0 .. Pages - 1
  /\ image \in PageContents /\ (Writing => image \in Images)
  /\ births \in Nat
  /\ acked \in SUBSET Images
  /\ wiped \in BOOLEAN

(* A slot some firmware would load, whichever catalog it is built with.    *)
Valid(s) == marker[s] = "valid" /\ Header(s) \in Images /\ CrcOk(s)

Successor(s, t) ==
  /\ Header(s).seq = NextSeq(Header(t).seq)
  /\ Header(s).birth > Header(t).birth

(* Two readable images of one catalog carry adjacent sequence numbers, the *)
(* later one the successor: this is what makes the signed 32-bit           *)
(* comparison of prv_sequence_newer pick the newer image for ever, also    *)
(* across the wrap-around, interrupted erases and firmware changes.        *)
SequencesAdjacent ==
  Valid(0) /\ Valid(1) /\ Header(0).catalog = Header(1).catalog
    => Successor(0, 1) \/ Successor(1, 0)

(* Once a save or SET_AUTOSTART was answered OK, a boot finds that image   *)
(* or one written after it, wherever power is cut and whichever Flash      *)
(* operation fails in the meantime, until ERASE_SAVED_CONFIG begins.       *)
NeverOlder ==
  ~wiped => \A i \in acked :
              OpenStatus = "OK" /\ Current.birth >= i.birth

(* While the saved image is in one slot, no step but those of              *)
(* ERASE_SAVED_CONFIG changes that slot: the only copy is never rewritten  *)
(* in place (prv_write_slot always gets the other slot).                   *)
CurrentUntouched ==
  [][OpenStatus = "OK" /\ pc # "wipe"
       => /\ pages'[Selected] = pages[Selected]
          /\ marker'[Selected] = marker[Selected]]_storageVars

=============================================================================
