------------------------- MODULE ProfileStorageProofs -------------------------
(***************************************************************************)
(* Proofs about the A/B profile store, for every number of pages, size of  *)
(* the sequence space, set of configurations and set of catalogs.          *)
(***************************************************************************)
EXTENDS ProfileStorageRefinement, TLAPS

USE StorageAssumption

(* Page 0 of the target, with the marker, has been erased.                 *)
Cleared == \/ pc \in {"program", "verify", "mark_lo"}
           \/ pc \in {"erase", "wipe"} /\ page > 0

(* No image is newer than the last one built.                              *)
BirthsInv ==
  \A s \in Slots, p \in 0 .. Pages - 1 :
    pages[s][p] \in Images => pages[s][p].birth <= births

(* The image being written succeeds whatever the other slot holds.         *)
ImageInv ==
  Writing =>
    /\ image.catalog = catalog /\ image.birth = births
    /\ \A p \in 0 .. Pages - 1 : pages[Other(target)][p] \in Images
         => pages[Other(target)][p].birth < births
    /\ Loadable(Other(target)) => image.seq = NextSeq(Header(Other(target)).seq)

(* How far the target slot has got.                                        *)
TargetInv ==
  /\ pc = "erase" /\ page = 0 /\ Loadable(target)
       => Loadable(Other(target)) /\ Successor(Other(target), target)
  /\ Cleared => marker[target] = "blank"
  /\ pc = "mark_hi" => marker[target] = "half"
  /\ pc \in {"mark_lo", "mark_hi", "readback"}
       => \A p \in 0 .. Span - 1 : pages[target][p] \in {image, TORN}

IInv == TypeOK /\ SequencesAdjacent /\ BirthsInv /\ ImageInv /\ TargetInv

-----------------------------------------------------------------------------
(* The successor of a sequence number is newer than it and not conversely. *)
LEMMA NextSeqNewer ==
  ASSUME NEW n \in Sequences32
  PROVE  /\ NextSeq(n) \in Sequences32
         /\ Newer(NextSeq(n), n)
         /\ ~Newer(n, NextSeq(n))
  BY DEF NextSeq, Newer, Distance, Sequences32

(* Every Flash operation leaves page contents and markers.                 *)
LEMMA FlashTypes ==
  ASSUME TypeOK, NEW s \in Slots, NEW p \in 0 .. Pages - 1
  PROVE  /\ \A c \in PageContents : PutPage(s, p, c)
              => pages' \in [Slots -> [0 .. Pages - 1 -> PageContents]]
         /\ \A m \in Markers : Mark(s, m) => marker' \in [Slots -> Markers]
         /\ EraseAt(s, p) => /\ pages' \in [Slots -> [0 .. Pages - 1 -> PageContents]]
                             /\ marker' \in [Slots -> Markers]
         /\ ProgramAt(s, p) => /\ pages' \in [Slots -> [0 .. Pages - 1 -> PageContents]]
                               /\ marker' = marker
         /\ \A m \in Markers : ProgramMarker(s, m)
              => /\ pages' \in [Slots -> [0 .. Pages - 1 -> PageContents]]
                 /\ marker' \in [Slots -> Markers]
<1> USE DEF TypeOK, PutPage, Mark, PageContents, Markers
<1>1. \A c \in PageContents : PutPage(s, p, c)
        => pages' \in [Slots -> [0 .. Pages - 1 -> PageContents]]
  OBVIOUS
<1>2. \A m \in Markers : Mark(s, m) => marker' \in [Slots -> Markers]
  OBVIOUS
<1>3. EraseAt(s, p) => /\ pages' \in [Slots -> [0 .. Pages - 1 -> PageContents]]
                       /\ marker' \in [Slots -> Markers]
  BY <1>1, <1>2 DEF EraseAt
<1>4. ProgramAt(s, p) => /\ pages' \in [Slots -> [0 .. Pages - 1 -> PageContents]]
                         /\ marker' = marker
  <2>1. ASSUME NEW q \in 0 .. p, pages' = [pages EXCEPT ![s] =
                 [r \in 0 .. Pages - 1 |-> IF r = q THEN TORN ELSE IF r = p THEN image
                                         ELSE pages[s][r]]]
        PROVE  pages' \in [Slots -> [0 .. Pages - 1 -> PageContents]]
    <3>1. [r \in 0 .. Pages - 1 |-> IF r = q THEN TORN ELSE IF r = p THEN image
                                   ELSE pages[s][r]] \in [0 .. Pages - 1 -> PageContents]
      OBVIOUS
    <3>2. QED
      BY <2>1, <3>1
  <2>2. QED
    BY <1>1, <2>1 DEF ProgramAt
<1>5. \A m \in Markers : ProgramMarker(s, m)
        => /\ pages' \in [Slots -> [0 .. Pages - 1 -> PageContents]]
           /\ marker' \in [Slots -> Markers]
  <2>1. \A q \in 0 .. Span - 1 : PutPage(s, q, TORN)
          => pages' \in [Slots -> [0 .. Pages - 1 -> PageContents]]
    OBVIOUS
  <2>2. QED
    BY <1>2, <2>1 DEF ProgramMarker
<1>6. QED
  BY <1>1, <1>2, <1>3, <1>4, <1>5

(* The initial state is in range.                                          *)
LEMMA InitType == StorageInit => TypeOK
<1> SUFFICES ASSUME StorageInit PROVE TypeOK
  OBVIOUS
<1>1. 0 \in 0 .. Pages - 1 /\ image \in PageContents /\ ~Writing
  BY DEF StorageInit, PageContents, Writing
<1>2. QED
  BY <1>1 DEF StorageInit, TypeOK, PageContents, Markers, Slots, Steps

(* Every step keeps the variables in range.                                *)
LEMMA NextType == TypeOK /\ [StorageNext]_storageVars => TypeOK'
<1> SUFFICES ASSUME TypeOK, [StorageNext]_storageVars PROVE TypeOK'
  OBVIOUS
<1>w. ASSUME NEW s \in Slots, NEW img \in Images, StartWriting(s, img)
      PROVE  TypeOK'
  BY <1>w DEF StartWriting, TypeOK, PageContents, flash, Steps, Writing
<1>h. ASSUME OpenStatus = "OK" PROVE Selected \in Slots /\ Current \in Images
  BY <1>h DEF OpenStatus, Selected, Loadable, LoadStatus, Current, Header, TypeOK,
              Slots, PageContents
<1>o. \A s \in Slots : Other(s) \in Slots
  BY DEF Other, Slots
<1>1. ASSUME NEW c \in Configs, Save(c) PROVE TypeOK'
  <2>1. CASE OpenStatus = "OK"
    BY SMTT(30), <1>1, <2>1, <1>w, <1>h, <1>o, NextSeqNewer DEF Save, Images, TypeOK
  <2>2. CASE OpenStatus # "OK"
    <3> DEFINE img == [catalog |-> catalog, seq |-> 1, config |-> c,
                       autostart |-> FALSE, birth |-> births + 1]
    <3>1. img \in Images
      BY DEF Images, TypeOK, Sequences32
    <3>2. StartWriting(0, img)
      BY <1>1, <2>2 DEF Save
    <3> HIDE DEF img
    <3>3. QED BY <3>1, <3>2, <1>w DEF Slots
  <2>3. QED BY <2>1, <2>2
<1>2. ASSUME NEW e \in BOOLEAN, SetAutostart(e) PROVE TypeOK'
  BY <1>2, <1>w, <1>h, <1>o, NextSeqNewer DEF SetAutostart, Images, TypeOK
<1>3. CASE ErasePage
  BY <1>3, FlashTypes DEF ErasePage, Writing, TypeOK, Steps
<1>4. CASE ProgramPage
  BY <1>4, FlashTypes DEF ProgramPage, Writing, TypeOK, Steps
<1>5. CASE VerifyImage
  BY <1>5 DEF VerifyImage, Writing, TypeOK, Steps, Return, flash, Slots, PageContents
<1>6. CASE ProgramMarkerLow
  BY <1>6, FlashTypes DEF ProgramMarkerLow, Writing, TypeOK, Steps, Markers
<1>7. CASE ProgramMarkerHigh
  BY <1>7, FlashTypes DEF ProgramMarkerHigh, Writing, TypeOK, Steps, Markers
<1>8. CASE ReadBack
  <2>1. acked' \in SUBSET Images
    BY <1>8 DEF ReadBack, Writing, TypeOK
  <2>2. wiped' \in BOOLEAN
    BY <1>8, Zenon DEF ReadBack, TypeOK
  <2>3. QED
    BY <1>8, <2>1, <2>2
       DEF ReadBack, Writing, TypeOK, Steps, Return, flash, Slots, PageContents
<1>9. CASE Erase
  BY <1>9 DEF Erase, Writing, TypeOK, Steps, flash, Slots
<1>10. CASE WipePage
  BY <1>10, FlashTypes DEF WipePage, Writing, TypeOK, Steps, Return, Slots, PageContents
<1>11. CASE Interrupt
  <2>1. /\ pages' \in [Slots -> [0 .. Pages - 1 -> PageContents]]
        /\ marker' \in [Slots -> Markers]
    BY <1>11, FlashTypes DEF Interrupt, Residue, TypeOK, flash, PageContents, Markers
  <2>2. QED
    BY <1>11, <2>1 DEF Interrupt, Writing, TypeOK, Steps, Return, Slots, PageContents
<1>12. CASE Reflash
  BY <1>12 DEF Reflash, Writing, TypeOK, flash
<1>13. CASE UNCHANGED storageVars
  BY <1>13 DEF storageVars, Writing, TypeOK
<1>14. QED
  BY <1>1, <1>2, <1>3, <1>4, <1>5, <1>6, <1>7, <1>8, <1>9, <1>10, <1>11, <1>12, <1>13
     DEF StorageNext

(* Every variable of the store stays in its range.                         *)
THEOREM TypeCorrect == StorageSpec => []TypeOK
  BY InitType, NextType, PTL DEF StorageSpec

-----------------------------------------------------------------------------
(* How one step changes a slot.                                            *)

Kept(s) == pages'[s] = pages[s] /\ marker'[s] = marker[s]

(* A slot no step touched reads as before.                                 *)
LEMMA Frame ==
  ASSUME NEW s \in Slots, Kept(s)
  PROVE  /\ Header(s)' = Header(s)
         /\ Valid(s)' <=> Valid(s)
  BY DEF Kept, Header, Valid, CrcOk

(* A slot is loadable when its image is whole and of this firmware's catalog. *)
LEMMA LoadableIsValid ==
  ASSUME TypeOK, NEW s \in Slots
  PROVE  Loadable(s) <=> Valid(s) /\ Header(s).catalog = catalog
<1>1. Header(s) \in PageContents
  BY DEF TypeOK, Header
<1>2. Header(s) \in Images <=> Header(s) \notin {BLANK, TORN}
  BY <1>1 DEF PageContents
<1>3. QED
  BY <1>2 DEF Loadable, LoadStatus, Valid

(* Selected is the loadable slot, or the newer one of two.                 *)
LEMMA SelectedIsNewest ==
  ASSUME TypeOK, SequencesAdjacent
  PROVE  /\ OpenStatus = "OK" <=> \E s \in Slots : Loadable(s)
         /\ OpenStatus = "OK" => Selected \in Slots /\ Loadable(Selected)
         /\ Loadable(0) /\ Loadable(1) => Successor(Selected, Other(Selected))
<1>1. OpenStatus = "OK" <=> \E s \in Slots : Loadable(s)
  BY DEF OpenStatus
<1>2. OpenStatus = "OK" => Selected \in Slots /\ Loadable(Selected)
  BY <1>1 DEF Selected, Slots
<1>3. ASSUME Loadable(0), Loadable(1)
      PROVE  Successor(Selected, Other(Selected))
  <2>1. Successor(0, 1) \/ Successor(1, 0)
    BY <1>3, LoadableIsValid DEF SequencesAdjacent, Slots
  <2>2. Header(0).seq \in Sequences32 /\ Header(1).seq \in Sequences32
    BY <1>3, LoadableIsValid DEF Valid, Images, Slots
  <2>3. CASE Successor(1, 0)
    <3>1. Newer(Header(1).seq, Header(0).seq)
      BY <2>2, <2>3, NextSeqNewer DEF Successor
    <3>2. QED
      BY <1>3, <2>3, <3>1 DEF Selected, Other
  <2>4. CASE Successor(0, 1)
    <3>1. ~Newer(Header(1).seq, Header(0).seq)
      BY <2>2, <2>4, NextSeqNewer DEF Successor
    <3>2. QED
      BY <1>3, <2>4, <3>1 DEF Selected, Other
  <2>5. QED
    BY <2>1, <2>3, <2>4
<1>4. QED
  BY <1>1, <1>2, <1>3

(* A Flash operation on one slot leaves the other alone.                   *)
LEMMA OtherKept ==
  ASSUME TypeOK, NEW s \in Slots, NEW p \in 0 .. Pages - 1
  PROVE  /\ EraseAt(s, p) => Kept(Other(s))
         /\ ProgramAt(s, p) => Kept(Other(s))
         /\ \A m \in Markers : ProgramMarker(s, m) => Kept(Other(s))
         /\ \A c \in PageContents : PutPage(s, p, c) /\ UNCHANGED marker => Kept(Other(s))
         /\ \A m \in Markers : Mark(s, m) /\ UNCHANGED pages => Kept(Other(s))
<1>1. Other(s) \in Slots /\ Other(s) # s
  BY DEF Slots, Other
<1>2. QED
  BY <1>1 DEF EraseAt, ProgramAt, ProgramMarker, PutPage, Mark, Kept, TypeOK

(* Only the target slot is ever written.                                   *)
LEMMA StepKeepsOther ==
  ASSUME TypeOK, [StorageNext]_storageVars
  PROVE  \/ Kept(0) /\ Kept(1)
         \/ Writing /\ Kept(Other(target)) /\ catalog' = catalog /\ births' = births
         \/ pc = "wipe" /\ Kept(Other(target)) /\ catalog' = catalog /\ births' = births
<1> USE DEF Slots
<1>1. UNCHANGED flash => Kept(0) /\ Kept(1)
  BY DEF flash, Kept
<1>2. target \in Slots /\ page \in 0 .. Pages - 1 /\ image \in PageContents /\ TORN \in PageContents
  BY DEF TypeOK, PageContents
<1>3. ASSUME NEW c \in Configs, Save(c) PROVE Kept(0) /\ Kept(1)
  BY <1>3, <1>1 DEF Save, StartWriting, flash
<1>4. ASSUME NEW e \in BOOLEAN, SetAutostart(e) PROVE Kept(0) /\ Kept(1)
  BY <1>4, <1>1 DEF SetAutostart, StartWriting, flash
<1>5. CASE ErasePage
  BY <1>5, <1>2, OtherKept DEF ErasePage, Writing
<1>6. CASE ProgramPage
  BY <1>6, <1>2, OtherKept DEF ProgramPage, Writing
<1>7. CASE ProgramMarkerLow \/ ProgramMarkerHigh
  BY <1>7, <1>2, OtherKept DEF ProgramMarkerLow, ProgramMarkerHigh, Writing, Markers
<1>8. CASE VerifyImage \/ ReadBack \/ Erase \/ Reflash \/ UNCHANGED storageVars
  BY <1>8, <1>1 DEF VerifyImage, ReadBack, Erase, Reflash, storageVars, flash
<1>9. CASE WipePage
  BY <1>9, <1>2, OtherKept DEF WipePage
<1>10. CASE Interrupt
  <2>1. (Kept(0) /\ Kept(1)) \/ Kept(Other(target))
    BY <1>10, <1>1, <1>2, OtherKept DEF Interrupt, Residue, Markers
  <2>2. pc # "idle" => Writing \/ pc = "wipe"
    BY DEF TypeOK, Steps, Writing
  <2>3. QED
    BY <1>10, <2>1, <2>2 DEF Interrupt
<1>11. QED
  BY <1>3, <1>4, <1>5, <1>6, <1>7, <1>8, <1>9, <1>10 DEF StorageNext

(* The target cannot be read before its marker is complete, and then it    *)
(* holds the image being written.                                          *)
LEMMA TargetStep ==
  ASSUME TypeOK, TargetInv, [StorageNext]_storageVars, Writing \/ pc = "wipe",
         NEW s \in Slots, s = target
  PROVE  Kept(s) \/ ~Valid(s)' \/ (pc = "mark_hi" /\ Header(s)' = image)
<1> USE DEF Slots
<1>b. marker'[s] \in {"blank", "half"} => ~Valid(s)'
  BY DEF Valid
<1>t. pages'[s][0] \in {BLANK, TORN} => ~Valid(s)'
  BY DEF Valid, Header
<1>c. Cleared => marker[s] = "blank"
  BY DEF TargetInv
<1>u. UNCHANGED flash => Kept(s)
  BY DEF flash, Kept
<1>e. ASSUME EraseAt(target, page), pc \in {"erase", "wipe"} PROVE marker'[s] = "blank"
  <2>1. CASE page = 0
    BY <1>e, <2>1 DEF EraseAt, Mark, TypeOK
  <2>2. CASE page > 0
    BY <1>e, <2>2, <1>c DEF EraseAt, Cleared
  <2>3. QED BY <2>1, <2>2 DEF TypeOK
<1>1. CASE ErasePage \/ WipePage
  BY <1>1, <1>e, <1>b DEF ErasePage, WipePage
<1>2. CASE ProgramPage
  BY <1>2, <1>c, <1>b DEF ProgramPage, ProgramAt, Cleared
<1>3. CASE ProgramMarkerLow
  BY <1>3, <1>b DEF ProgramMarkerLow, ProgramMarker, Mark, TypeOK
<1>4. CASE ProgramMarkerHigh
  <2>1. pages'[s][0] \in {pages[s][0], TORN}
    BY <1>4 DEF ProgramMarkerHigh, ProgramMarker, PutPage, TypeOK
  <2>2. pages[s][0] \in {image, TORN}
    BY <1>4 DEF ProgramMarkerHigh, TargetInv
  <2>3. QED BY <1>4, <2>1, <2>2, <1>t DEF ProgramMarkerHigh, Header
<1>5. CASE VerifyImage \/ ReadBack \/ UNCHANGED storageVars
  BY <1>5, <1>u DEF VerifyImage, ReadBack, storageVars, flash
<1>6. CASE Interrupt
  <2>1. CASE UNCHANGED flash
    BY <2>1, <1>u
  <2>2. CASE pc \in {"erase", "wipe"} /\ EraseAt(target, page)
    BY <2>2, <1>e, <1>b
  <2>3. CASE /\ pc \in {"erase", "wipe", "program"}
             /\ PutPage(target, page, TORN) /\ UNCHANGED marker
    <3>1. CASE pc = "program" \/ page > 0
      BY <2>3, <3>1, <1>c, <1>b DEF Cleared
    <3>2. CASE page = 0
      BY <2>3, <3>2, <1>t DEF PutPage, TypeOK
    <3>3. QED BY <3>1, <3>2 DEF TypeOK
  <2>4. CASE pc = "program" /\ PutPage(target, page, image) /\ UNCHANGED marker
    BY <2>4, <1>c, <1>b DEF Cleared
  <2>5. CASE pc = "mark_lo" /\ Mark(target, "half") /\ UNCHANGED pages
    BY <2>5, <1>b DEF Mark, TypeOK
  <2>6. CASE pc = "mark_hi" /\ Mark(target, "valid") /\ UNCHANGED pages
    <3>1. pages[s][0] \in {image, TORN}
      BY <2>6 DEF TargetInv
    <3>2. QED BY <2>6, <3>1, <1>t DEF Header
  <2>7. QED
    BY <1>6, <2>1, <2>2, <2>3, <2>4, <2>5, <2>6 DEF Interrupt, Residue
<1>7. ~(\E c \in Configs : Save(c)) /\ ~(\E e \in BOOLEAN : SetAutostart(e))
      /\ ~Erase /\ ~Reflash
  BY DEF Save, SetAutostart, Erase, Reflash, Writing
<1>8. QED
  BY <1>1, <1>2, <1>3, <1>4, <1>5, <1>6, <1>7 DEF StorageNext

(* Adjacency survives every step: only the commit makes an image readable, *)
(* and that image succeeds the one in the other slot.                      *)
LEMMA AdjacencyStep ==
  ASSUME IInv, [StorageNext]_storageVars
  PROVE  SequencesAdjacent'
<1> USE DEF IInv
<1>1. CASE Kept(0) /\ Kept(1)
  BY <1>1, Frame DEF SequencesAdjacent, Successor, Slots
<1>2. CASE (Writing \/ pc = "wipe") /\ Kept(Other(target)) /\ ~(Kept(0) /\ Kept(1))
  <2> SUFFICES ASSUME Valid(0)', Valid(1)', (Header(0).catalog = Header(1).catalog)'
               PROVE  Successor(0, 1)' \/ Successor(1, 0)'
    BY DEF SequencesAdjacent
  <2>t. PICK t \in Slots : t = target
    BY DEF TypeOK
  <2>o. PICK o \in Slots : o = Other(t)
    BY DEF Slots, Other
  <2>1. t \in Slots /\ o \in Slots /\ t = target /\ o = Other(target) /\ {t, o} = {0, 1}
    BY <2>t, <2>o DEF Slots, Other
  <2>v. Valid(t)' /\ Valid(o)'
    BY <2>1 DEF Slots
  <2>k. Kept(o) /\ ~Kept(t)
    BY <1>2, <2>1 DEF Slots
  <2>2. /\ Valid(o) /\ Header(o)' = Header(o)
        /\ pc = "mark_hi" /\ Header(t)' = image
    BY <1>2, <2>1, <2>v, <2>k, Frame, TargetStep
  <2>3. Header(o).catalog = catalog /\ Writing
    <3>1. Header(t)'.catalog = Header(o)'.catalog
      BY <2>1 DEF Slots
    <3>2. QED
      BY <2>2, <3>1 DEF ImageInv, Writing
  <2>4. Loadable(o)
    BY <2>1, <2>2, <2>3, LoadableIsValid
  <2>5. image.seq = NextSeq(Header(o).seq) /\ image.birth > Header(o).birth
    <3>1. Header(o) \in Images /\ Header(o).birth \in Nat
      BY <2>2 DEF Valid, Images
    <3>2. Header(o).birth < births
      BY <2>1, <2>3, <3>1 DEF ImageInv, Header
    <3>3. QED
      BY <2>1, <2>3, <2>4, <3>1, <3>2 DEF ImageInv, TypeOK
  <2>6. Successor(t, o)'
    BY <2>2, <2>5 DEF Successor
  <2>7. QED BY <2>1, <2>6 DEF Slots
<1>3. QED
  BY <1>1, <1>2, StepKeepsOther

(* A step puts nothing into a page but the image being written, or erases  *)
(* or damages it.                                                          *)
LEMMA PageStep ==
  ASSUME TypeOK, [StorageNext]_storageVars, NEW s \in Slots, NEW p \in 0 .. Pages - 1
  PROVE  \/ pages'[s][p] \in {pages[s][p], BLANK, TORN}
         \/ Writing /\ s = target /\ pages'[s][p] = image
<1> USE DEF TypeOK
<1>e. EraseAt(target, page) => pages'[s][p] \in {pages[s][p], BLANK}
  BY DEF EraseAt, PutPage
<1>p. ProgramAt(target, page)
        => pages'[s][p] \in {pages[s][p], TORN} \/ (s = target /\ pages'[s][p] = image)
  BY DEF ProgramAt, PutPage
<1>m. \A m : ProgramMarker(target, m) => pages'[s][p] \in {pages[s][p], TORN}
  BY DEF ProgramMarker, PutPage
<1>i. Residue /\ pc # "program" => pages'[s][p] \in {pages[s][p], BLANK, TORN}
  BY <1>e DEF Residue, PutPage, flash
<1>j. Residue /\ pc = "program"
        => pages'[s][p] \in {pages[s][p], TORN} \/ (s = target /\ pages'[s][p] = image)
  BY DEF Residue, PutPage, flash
<1>1. CASE ErasePage \/ WipePage
  BY <1>1, <1>e DEF ErasePage, WipePage
<1>2. CASE ProgramPage
  BY <1>2, <1>p DEF ProgramPage, Writing
<1>3. CASE ProgramMarkerLow \/ ProgramMarkerHigh
  BY <1>3, <1>m DEF ProgramMarkerLow, ProgramMarkerHigh
<1>4. CASE Interrupt
  BY <1>4, <1>i, <1>j DEF Interrupt, Writing
<1>5. CASE (\E c \in Configs : Save(c)) \/ (\E e \in BOOLEAN : SetAutostart(e))
  BY <1>5 DEF Save, SetAutostart, StartWriting, flash
<1>6. CASE VerifyImage \/ ReadBack \/ Erase \/ Reflash \/ UNCHANGED storageVars
  BY <1>6 DEF VerifyImage, ReadBack, Erase, Reflash, storageVars, flash
<1>7. QED
  BY <1>1, <1>2, <1>3, <1>4, <1>5, <1>6 DEF StorageNext

(* The birth counter never falls.                                          *)
LEMMA BirthsGrow == TypeOK /\ [StorageNext]_storageVars => births' >= births
  BY DEF TypeOK, StorageNext, storageVars, Save, SetAutostart, StartWriting, ErasePage, ProgramPage,
     VerifyImage, ProgramMarkerLow, ProgramMarkerHigh, ReadBack, Erase, WipePage,
     Interrupt, Reflash

(* No image outgrows the counter.                                          *)
LEMMA BirthsStep ==
  ASSUME IInv, [StorageNext]_storageVars
  PROVE  BirthsInv'
<1> SUFFICES ASSUME NEW s \in Slots, NEW p \in 0 .. Pages - 1, pages'[s][p] \in Images
             PROVE  pages'[s][p].birth <= births'
  BY DEF BirthsInv
<1>0. TypeOK
  BY DEF IInv
<1>1. CASE pages'[s][p] = pages[s][p]
  <2>1. pages[s][p].birth \in Nat /\ pages[s][p].birth <= births
    BY <1>1 DEF IInv, BirthsInv, Images
  <2>2. QED
    BY <1>0, <1>1, <2>1, BirthsGrow, NextType DEF TypeOK
<1>2. CASE Writing /\ pages'[s][p] = image
  BY <1>0, <1>2, BirthsGrow, NextType DEF IInv, ImageInv, TypeOK
<1>3. pages'[s][p] \notin {BLANK, TORN}
  OBVIOUS
<1>4. QED
  BY <1>0, <1>1, <1>2, <1>3, PageStep

(* A write begins: the slot that is not selected, or slot 0 when no image  *)
(* is loadable, and an image that succeeds the selected one.               *)
LEMMA StartStep ==
  ASSUME IInv, pc = "idle", NEW s \in Slots, NEW img \in Images, StartWriting(s, img),
         img.catalog = catalog, img.birth = births + 1,
         OpenStatus = "OK" => s = Other(Selected) /\ img.seq = NextSeq(Current.seq)
  PROVE  ImageInv' /\ TargetInv' /\ pages' = pages /\ marker' = marker
         /\ catalog' = catalog /\ target' = s /\ births' = births + 1
<1>1. /\ pages' = pages /\ marker' = marker /\ catalog' = catalog
      /\ target' = s /\ image' = img /\ births' = births + 1 /\ pc' = "erase" /\ page' = 0
  BY DEF StartWriting, flash
<1>2. TypeOK /\ SequencesAdjacent
  BY DEF IInv
<1>3. \A r \in Slots : (Loadable(r)' <=> Loadable(r)) /\ Header(r)' = Header(r)
  BY <1>1 DEF Loadable, LoadStatus, CrcOk, Header
<1>4. Loadable(Other(s)) => OpenStatus = "OK" /\ Selected = Other(s)
  BY <1>2, SelectedIsNewest DEF Slots, Other
<1>5. Loadable(s) => OpenStatus = "OK" /\ Selected = Other(s)
  BY <1>2, SelectedIsNewest DEF Slots, Other
<1>6. Other(s) \in Slots
  BY DEF Slots, Other
<1>7. \A p \in 0 .. Pages - 1 : pages[Other(s)][p] \in Images
        => pages[Other(s)][p].birth < births + 1
  <2> SUFFICES ASSUME NEW p \in 0 .. Pages - 1, pages[Other(s)][p] \in Images
               PROVE  pages[Other(s)][p].birth < births + 1
    OBVIOUS
  <2>1. pages[Other(s)][p].birth \in Nat /\ pages[Other(s)][p].birth <= births
    BY <1>6 DEF IInv, BirthsInv, Images
  <2>2. QED
    BY <1>2, <2>1 DEF TypeOK
<1>8. ImageInv'
  <2>1. \A p \in 0 .. Pages - 1 : (pages[Other(target)][p] \in Images
           => pages[Other(target)][p].birth < births)'
    BY <1>1, <1>7 DEF Other
  <2>2. (Loadable(Other(target)))' => image' = img /\ img.seq = NextSeq((Header(Other(target))').seq)
    <3>1. PICK o \in Slots : o = Other(s)
      BY <1>6
    <3>2. Loadable(o)' => Loadable(o) /\ Header(o)' = Header(o)
      BY <1>3
    <3>3. (Loadable(Other(target)))' <=> Loadable(o)'
      BY <1>1, <3>1 DEF Other, Loadable, LoadStatus, CrcOk, Header
    <3>4. (Header(Other(target)))' = Header(o)'
      BY <1>1, <3>1 DEF Other, Header
    <3>5. QED
      BY <1>1, <1>4, <3>1, <3>2, <3>3, <3>4 DEF Current
  <2>3. QED
    BY <1>1, <2>1, <2>2 DEF ImageInv
<1>9. TargetInv'
  <2>1. Loadable(s) => Loadable(Other(s)) /\ Successor(Other(s), s)
    BY <1>2, <1>5, SelectedIsNewest DEF Slots, Other
  <2>2. (Loadable(target))' <=> Loadable(s)
    BY <1>1 DEF Loadable, LoadStatus, CrcOk, Header
  <2>3. (Loadable(Other(target)))' <=> Loadable(Other(s))
    BY <1>1 DEF Loadable, LoadStatus, CrcOk, Header, Other
  <2>4. (Successor(Other(target), target))' <=> Successor(Other(s), s)
    BY <1>1 DEF Successor, Header, Other
  <2>5. QED
    BY <1>1, <2>1, <2>2, <2>3, <2>4 DEF TargetInv, Cleared
<1>10. QED
  BY <1>1, <1>8, <1>9

(* The operation a handler begins, with the slot and the image chosen.     *)
LEMMA BeginStep ==
  ASSUME IInv, \/ \E c \in Configs : Save(c)
               \/ \E e \in BOOLEAN : SetAutostart(e)
  PROVE  \E s \in Slots, img \in Images :
           /\ pc = "idle" /\ StartWriting(s, img)
           /\ img.catalog = catalog /\ img.birth = births + 1
           /\ OpenStatus = "OK" => s = Other(Selected) /\ img.seq = NextSeq(Current.seq)
<1>0. TypeOK /\ SequencesAdjacent
  BY DEF IInv
<1>1. OpenStatus = "OK" => Other(Selected) \in Slots /\ Current \in Images
  BY <1>0, SelectedIsNewest, LoadableIsValid DEF Other, Slots, Current, Valid
<1>2. \A c \in Configs, a \in BOOLEAN, n \in Sequences32 :
        [catalog |-> catalog, seq |-> n, config |-> c, autostart |-> a,
         birth |-> births + 1] \in Images
  BY <1>0 DEF Images, TypeOK
<1>3. 1 \in Sequences32 /\ 0 \in Slots
  BY DEF Sequences32, Slots
<1>4. OpenStatus = "OK" => /\ NextSeq(Current.seq) \in Sequences32
                           /\ Current.config \in Configs /\ Current.autostart \in BOOLEAN
  BY <1>1, NextSeqNewer DEF Images
<1>5. ASSUME NEW c \in Configs, Save(c), OpenStatus = "OK"
      PROVE  \E s \in Slots, img \in Images :
               /\ pc = "idle" /\ StartWriting(s, img)
               /\ img.catalog = catalog /\ img.birth = births + 1
               /\ s = Other(Selected) /\ img.seq = NextSeq(Current.seq)
  <2> DEFINE img == [catalog |-> catalog, seq |-> NextSeq(Current.seq), config |-> c,
                     autostart |-> Current.autostart, birth |-> births + 1]
  <2>1. pc = "idle" /\ StartWriting(Other(Selected), img)
    BY <1>5 DEF Save
  <2>2. img \in Images
    BY <1>2, <1>4, <1>5
  <2>3. QED
    BY <1>1, <1>5, <2>1, <2>2
<1>6. ASSUME NEW c \in Configs, Save(c), OpenStatus # "OK"
      PROVE  \E s \in Slots, img \in Images :
               /\ pc = "idle" /\ StartWriting(s, img)
               /\ img.catalog = catalog /\ img.birth = births + 1
  <2> DEFINE img == [catalog |-> catalog, seq |-> 1, config |-> c,
                     autostart |-> FALSE, birth |-> births + 1]
  <2>1. pc = "idle" /\ StartWriting(0, img)
    BY <1>6 DEF Save
  <2>2. img \in Images
    BY <1>2, <1>3
  <2>3. QED
    BY <1>3, <2>1, <2>2
<1>7. ASSUME NEW e \in BOOLEAN, SetAutostart(e)
      PROVE  \E s \in Slots, img \in Images :
               /\ pc = "idle" /\ StartWriting(s, img)
               /\ img.catalog = catalog /\ img.birth = births + 1
               /\ s = Other(Selected) /\ img.seq = NextSeq(Current.seq)
  <2> DEFINE img == [catalog |-> catalog, seq |-> NextSeq(Current.seq),
                     config |-> Current.config, autostart |-> e, birth |-> births + 1]
  <2>1. pc = "idle" /\ StartWriting(Other(Selected), img) /\ OpenStatus = "OK"
    BY <1>7 DEF SetAutostart
  <2>2. img \in Images
    BY <1>2, <1>4, <2>1
  <2>3. QED
    BY <1>1, <2>1, <2>2
<1>8. QED
  BY <1>5, <1>6, <1>7

(* A write goes on: the image and the other slot stay.                     *)
LEMMA ImageStep ==
  ASSUME IInv, [StorageNext]_storageVars, Writing, Writing'
  PROVE  ImageInv' /\ Kept(Other(target)) /\ target' = target /\ image' = image
<1>0. TypeOK
  BY DEF IInv
<1>1. /\ target' = target /\ image' = image /\ births' = births /\ catalog' = catalog
  BY DEF StorageNext, storageVars, Save, SetAutostart, ErasePage, ProgramPage, VerifyImage,
     ProgramMarkerLow, ProgramMarkerHigh, ReadBack, Erase, WipePage, Interrupt, Reflash,
     Return, Writing
<1>2. PICK o \in Slots : o = Other(target)
  BY <1>0 DEF TypeOK, Slots, Other
<1>3. Kept(o)
  BY <1>0, <1>2, StepKeepsOther DEF Slots, Writing
<1>4. (Loadable(Other(target)))' <=> Loadable(o)
  BY <1>1, <1>2, <1>3 DEF Loadable, LoadStatus, CrcOk, Header, Kept, Other
<1>5. (Header(Other(target)))' = Header(o)
  BY <1>1, <1>2, <1>3 DEF Header, Kept, Other
<1>6. (\A p \in 0 .. Pages - 1 : pages[Other(target)][p] \in Images
         => pages[Other(target)][p].birth < births)'
  BY <1>1, <1>2, <1>3 DEF IInv, ImageInv, Kept, Other
<1>7. QED
  BY <1>1, <1>2, <1>3, <1>4, <1>5, <1>6 DEF IInv, ImageInv

(* The target slot advances through its stages.                            *)
LEMMA TargetAdvance ==
  ASSUME IInv, [StorageNext]_storageVars,
         ~(\E c \in Configs : Save(c)), ~(\E e \in BOOLEAN : SetAutostart(e))
  PROVE  TargetInv'
<1>0. TypeOK /\ TargetInv
  BY DEF IInv
<1>e. EraseAt(target, page) /\ pc \in {"erase", "wipe"} => marker'[target] = "blank"
  <2>1. CASE page = 0
    BY <1>0, <2>1 DEF EraseAt, Mark, TypeOK
  <2>2. CASE page > 0
    BY <1>0, <2>2 DEF EraseAt, TargetInv, Cleared
  <2>3. QED
    BY <1>0, <2>1, <2>2 DEF TypeOK
<1>1. CASE ErasePage
  BY <1>0, <1>1, <1>e DEF ErasePage, TargetInv, Cleared, TypeOK
<1>2. CASE ProgramPage
  BY <1>0, <1>2 DEF ProgramPage, ProgramAt, TargetInv, Cleared
<1>3. CASE VerifyImage
  BY <1>0, <1>3 DEF VerifyImage, Return, flash, TargetInv, Cleared
<1>4. CASE ProgramMarkerLow
  BY <1>0, <1>4 DEF ProgramMarkerLow, ProgramMarker, Mark, PutPage, TargetInv, Cleared, TypeOK
<1>5. CASE ProgramMarkerHigh
  BY <1>0, <1>5 DEF ProgramMarkerHigh, ProgramMarker, Mark, PutPage, TargetInv, Cleared, TypeOK
<1>6. CASE ReadBack \/ Interrupt
  BY <1>6 DEF ReadBack, Interrupt, Return, TargetInv, Cleared
<1>7. CASE Erase
  BY <1>7 DEF Erase, TargetInv, Cleared
<1>8. CASE WipePage
  BY <1>0, <1>8, <1>e DEF WipePage, Return, TargetInv, Cleared, TypeOK
<1>9. CASE Reflash
  BY <1>9 DEF Reflash, TargetInv, Cleared
<1>10. CASE UNCHANGED storageVars
  BY <1>0, <1>10 DEF storageVars, TargetInv, Cleared, Loadable, LoadStatus, CrcOk, Header,
     Successor, Other
<1>11. QED
  BY <1>1, <1>2, <1>3, <1>4, <1>5, <1>6, <1>7, <1>8, <1>9, <1>10 DEF StorageNext

(* The strengthened invariant holds of the blank store.                    *)
LEMMA InitInvariant == StorageInit => IInv
<1> SUFFICES ASSUME StorageInit PROVE IInv
  OBVIOUS
<1>1. TypeOK
  BY InitType
<1>2. \A s \in Slots : ~Valid(s)
  BY DEF StorageInit, Valid
<1>3. BirthsInv
  BY DEF StorageInit, BirthsInv
<1>4. ImageInv /\ TargetInv
  BY DEF StorageInit, ImageInv, TargetInv, Writing, Cleared
<1>5. QED
  BY <1>1, <1>2, <1>3, <1>4 DEF IInv, SequencesAdjacent, Slots

(* Every step preserves the strengthened invariant.                        *)
LEMMA NextInvariant == IInv /\ [StorageNext]_storageVars => IInv'
<1> SUFFICES ASSUME IInv, [StorageNext]_storageVars PROVE IInv'
  OBVIOUS
<1>1. TypeOK' /\ SequencesAdjacent' /\ BirthsInv'
  BY NextType, AdjacencyStep, BirthsStep DEF IInv
<1>2. ImageInv' /\ TargetInv'
  <2>1. CASE (\E c \in Configs : Save(c)) \/ (\E e \in BOOLEAN : SetAutostart(e))
    BY <2>1, BeginStep, StartStep
  <2>2. CASE /\ ~(\E c \in Configs : Save(c))
             /\ ~(\E e \in BOOLEAN : SetAutostart(e))
    <3>1. Writing' => Writing
      BY <2>2 DEF StorageNext, storageVars, ErasePage, ProgramPage, VerifyImage, ProgramMarkerLow,
         ProgramMarkerHigh, ReadBack, Erase, WipePage, Interrupt, Reflash, Return, Writing
    <3>2. QED
      BY <2>2, <3>1, ImageStep, TargetAdvance DEF ImageInv
  <2>3. QED BY <2>1, <2>2
<1>3. QED
  BY <1>1, <1>2 DEF IInv

(* Two readable images of one catalog always carry adjacent sequence       *)
(* numbers, so the signed comparison finds the newer one, also across the  *)
(* wrap-around and whatever was interrupted.                               *)
THEOREM AdjacentAlways == StorageSpec => []SequencesAdjacent
<1>1. IInv => SequencesAdjacent
  BY DEF IInv
<1>2. QED
  BY <1>1, InitInvariant, NextInvariant, PTL DEF StorageSpec

-----------------------------------------------------------------------------
(* While a write is under way and not complete, the image a boot would     *)
(* restore is in the other slot.                                           *)
LEMMA SelectedIsOther ==
  ASSUME IInv, Writing, pc # "readback", OpenStatus = "OK"
  PROVE  Selected = Other(target) /\ Loadable(Other(target))
<1>0. TypeOK /\ SequencesAdjacent /\ TargetInv
  BY DEF IInv
<1>1. /\ target \in Slots /\ Other(target) \in Slots /\ Slots = {target, Other(target)}
      /\ Other(Other(target)) = target
  BY <1>0 DEF TypeOK, Slots, Other
<1>2. ~Loadable(target) \/ (pc = "erase" /\ page = 0)
  BY <1>0, <1>1, LoadableIsValid DEF Writing, TargetInv, Cleared, Valid, TypeOK
<1>3. Loadable(target) => Loadable(Other(target)) /\ Successor(Other(target), target)
  BY <1>0, <1>2 DEF TargetInv
<1>4. Selected \in Slots /\ Loadable(Selected)
  BY <1>0, SelectedIsNewest
<1>5. CASE ~Loadable(target)
  BY <1>1, <1>4, <1>5
<1>6. CASE Loadable(target)
  <2>1. Loadable(0) /\ Loadable(1)
    BY <1>1, <1>3, <1>6 DEF Slots
  <2>2. Successor(Selected, Other(Selected))
    BY <1>0, <2>1, SelectedIsNewest
  <2>3. Header(target).birth \in Nat /\ Header(Other(target)).birth \in Nat
    BY <1>0, <1>1, <1>3, <1>6, LoadableIsValid DEF Valid, Images
  <2>4. Selected # target
    BY <1>3, <1>6, <2>2, <2>3 DEF Successor
  <2>5. QED BY <1>1, <1>3, <1>4, <1>6, <2>4
<1>7. QED
  BY <1>5, <1>6

(* No step but those of ERASE_SAVED_CONFIG touches the slot that holds the *)
(* saved image.                                                            *)
THEOREM CurrentIsUntouched == StorageSpec => CurrentUntouched
<1>1. ASSUME IInv, [StorageNext]_storageVars, OpenStatus = "OK", pc # "wipe"
      PROVE  Kept(Selected)
  <2>0. TypeOK /\ SequencesAdjacent
    BY <1>1 DEF IInv
  <2>1. Selected \in Slots
    BY <1>1, <2>0, SelectedIsNewest
  <2>2. CASE Kept(0) /\ Kept(1)
    BY <2>1, <2>2 DEF Slots
  <2>3. CASE Writing /\ pc # "readback" /\ Kept(Other(target))
    BY <1>1, <2>3, SelectedIsOther
  <2>4. CASE pc = "readback"
    <3>1. Kept(0) /\ Kept(1)
      BY <1>1, <2>4 DEF StorageNext, storageVars, Save, SetAutostart, ErasePage, ProgramPage, VerifyImage,
         ProgramMarkerLow, ProgramMarkerHigh, ReadBack, Erase, WipePage, Interrupt, Residue,
         Reflash, flash, Kept
    <3>2. QED BY <2>1, <3>1 DEF Slots
  <2>5. QED
    BY <1>1, <2>0, <2>2, <2>3, <2>4, StepKeepsOther
<1>2. IInv /\ [StorageNext]_storageVars
        => [OpenStatus = "OK" /\ pc # "wipe"
              => /\ pages'[Selected] = pages[Selected]
                 /\ marker'[Selected] = marker[Selected]]_storageVars
  BY <1>1 DEF Kept
<1>3. QED
  BY <1>2, InitInvariant, NextInvariant, PTL DEF StorageSpec, CurrentUntouched

-----------------------------------------------------------------------------
(* The image reported OK, or a later one, is in a loadable slot, which is  *)
(* not the slot being written.                                             *)
AckInv ==
  /\ pc = "wipe" => wiped
  /\ ~wiped => \A i \in acked : \E s \in Slots :
       /\ Loadable(s) /\ Header(s).birth >= i.birth
       /\ Writing /\ pc # "readback" => s = Other(target)

(* A boot restores the newest loadable image.                              *)
LEMMA CurrentIsNewest ==
  ASSUME IInv, NEW s \in Slots, Loadable(s)
  PROVE  OpenStatus = "OK" /\ Current.birth >= Header(s).birth
<1>0. TypeOK /\ SequencesAdjacent
  BY DEF IInv
<1>1. OpenStatus = "OK" /\ Selected \in Slots /\ Loadable(Selected)
  BY <1>0, SelectedIsNewest
<1>2. \A r \in Slots : Loadable(r) => Header(r).birth \in Nat
  BY <1>0, LoadableIsValid DEF Valid, Images
<1>3. CASE s = Selected
  BY <1>1, <1>2, <1>3 DEF Current
<1>4. CASE s # Selected
  <2>1. s = Other(Selected) /\ Loadable(0) /\ Loadable(1)
    BY <1>1, <1>4 DEF Slots, Other
  <2>2. Successor(Selected, Other(Selected))
    BY <1>0, <2>1, SelectedIsNewest
  <2>3. QED
    BY <1>1, <1>2, <2>1, <2>2 DEF Successor, Current
<1>5. QED
  BY <1>3, <1>4

(* The promise made by an OK answer is kept by every step.                 *)
LEMMA AckStep ==
  ASSUME IInv, AckInv, [StorageNext]_storageVars
  PROVE  AckInv'
<1>0. TypeOK
  BY DEF IInv
<1>1. CASE (\E c \in Configs : Save(c)) \/ (\E e \in BOOLEAN : SetAutostart(e))
  <2>1. PICK t \in Slots, img \in Images :
           /\ pc = "idle" /\ StartWriting(t, img)
           /\ OpenStatus = "OK" => t = Other(Selected)
    BY <1>1, BeginStep
  <2>2. /\ pages' = pages /\ marker' = marker /\ catalog' = catalog /\ target' = t
        /\ acked' = acked /\ wiped' = wiped /\ pc' = "erase"
    BY <2>1 DEF StartWriting, flash
  <2>3. \A s \in Slots : (Loadable(s)' <=> Loadable(s)) /\ Header(s)' = Header(s)
    BY <2>2 DEF Loadable, LoadStatus, CrcOk, Header
  <2>4. ASSUME ~wiped, NEW i \in acked
        PROVE  Loadable(Other(t)) /\ Header(Other(t)).birth >= i.birth
    <3>1. PICK s \in Slots : Loadable(s) /\ Header(s).birth >= i.birth
      BY <2>4 DEF AckInv
    <3>2. OpenStatus = "OK" /\ Current.birth >= Header(s).birth
      BY <3>1, CurrentIsNewest
    <3>3. Selected = Other(t) /\ Loadable(Selected)
      BY <1>0, <2>1, <3>2, SelectedIsNewest DEF IInv, Other, Slots
    <3>4. Current.birth \in Nat /\ Header(s).birth \in Nat /\ i.birth \in Nat
      BY <1>0, <2>4, <3>1, <3>2, <3>3, SelectedIsNewest, LoadableIsValid
         DEF IInv, Valid, Images, Current, TypeOK
    <3>5. QED
      BY <3>1, <3>2, <3>3, <3>4 DEF Current
  <2>5. Other(t) \in Slots
    BY DEF Slots, Other
  <2>6. ASSUME ~wiped', NEW i \in acked'
        PROVE  (\E s \in Slots : /\ Loadable(s) /\ Header(s).birth >= i.birth
                                 /\ Writing /\ pc # "readback" => s = Other(target))'
    <3>1. PICK o \in Slots : o = Other(t)
      BY <2>5
    <3>2. Loadable(o)' /\ Header(o)'.birth >= i.birth
      BY <2>2, <2>3, <2>4, <2>6, <3>1
    <3>3. o = Other(target')
      BY <2>2, <3>1
    <3>4. QED
      BY <3>2, <3>3 DEF Other
  <2>7. QED
    BY <2>2, <2>6 DEF AckInv
<1>2. CASE ReadBack
  <2>1. /\ pages' = pages /\ marker' = marker /\ catalog' = catalog /\ pc' = "idle"
        /\ pc = "readback"
    BY <1>2 DEF ReadBack, Return, flash
  <2>2. \A s \in Slots : (Loadable(s)' <=> Loadable(s)) /\ Header(s)' = Header(s)
    BY <2>1 DEF Loadable, LoadStatus, CrcOk, Header
  <2>3. CASE Loadable(target)
    <3>1. Header(target) = image /\ image.birth \in Nat
      BY <1>0, <2>1, <2>3, LoadableIsValid
         DEF IInv, TargetInv, Header, Valid, TypeOK, Writing, Images
    <3>2. PICK t \in Slots : t = target
      BY <1>0 DEF TypeOK
    <3>3. Loadable(t)' /\ Header(t)' = image /\ acked' = {image}
      BY <1>2, <2>2, <2>3, <3>1, <3>2 DEF ReadBack
    <3>4. QED
      BY <2>1, <3>1, <3>3 DEF AckInv, Writing
  <2>4. CASE ~Loadable(target)
    BY <1>2, <2>1, <2>2, <2>4 DEF ReadBack, AckInv, Writing
  <2>5. QED BY <2>3, <2>4
<1>3. CASE Erase \/ WipePage \/ Reflash
  BY <1>3 DEF Erase, WipePage, Reflash, Return, AckInv, Writing
<1>4. CASE UNCHANGED storageVars
  BY <1>4 DEF storageVars, AckInv, Writing, Loadable, LoadStatus, CrcOk, Header, Other
<1>5. CASE ErasePage \/ ProgramPage \/ VerifyImage \/ ProgramMarkerLow
           \/ ProgramMarkerHigh \/ Interrupt
  <2>1. /\ acked' = acked /\ wiped' = wiped /\ catalog' = catalog
        /\ target' = target \/ ~Writing'
        /\ pc' # "wipe"
        /\ pc = "readback" => UNCHANGED flash
        /\ pc # "wipe" => Writing
    BY <1>0, <1>5 DEF ErasePage, ProgramPage, VerifyImage, ProgramMarkerLow,
       ProgramMarkerHigh, Interrupt, Residue, Return, Writing, TypeOK, Steps
  <2>2. ASSUME ~wiped, NEW i \in acked
        PROVE  (\E s \in Slots : /\ Loadable(s) /\ Header(s).birth >= i.birth
                                 /\ Writing /\ pc # "readback" => s = Other(target))'
    <3>1. PICK s \in Slots : /\ Loadable(s) /\ Header(s).birth >= i.birth
                             /\ Writing /\ pc # "readback" => s = Other(target)
      BY <2>2 DEF AckInv
    <3>2. Kept(s)
      <4>1. CASE pc = "readback"
        BY <2>1, <4>1 DEF flash, Kept
      <4>2. CASE pc # "readback"
        BY <1>0, <2>1, <2>2, <3>1, <4>2, StepKeepsOther DEF AckInv, Slots
      <4>3. QED BY <4>1, <4>2
    <3>3. Loadable(s)' /\ Header(s)' = Header(s)
      BY <2>1, <3>1, <3>2 DEF Loadable, LoadStatus, CrcOk, Header, Kept
    <3>4. (Writing /\ pc # "readback")' => s = Other(target')
      <4>1. CASE pc = "readback"
        BY <1>5, <4>1 DEF ErasePage, ProgramPage, VerifyImage, ProgramMarkerLow,
           ProgramMarkerHigh, Interrupt, Return, Writing
      <4>2. CASE pc # "readback"
        BY <2>1, <2>2, <3>1, <4>2 DEF AckInv
      <4>3. QED BY <4>1, <4>2
    <3>5. QED
      BY <3>1, <3>3, <3>4 DEF Other
  <2>3. QED
    BY <2>1, <2>2 DEF AckInv
<1>6. QED
  BY <1>1, <1>2, <1>3, <1>4, <1>5 DEF StorageNext

(* Once a save or SET_AUTOSTART was answered OK, a boot finds that image   *)
(* or a later one until ERASE_SAVED_CONFIG begins, for every point at      *)
(* which power may be cut or the Flash may fail.                           *)
THEOREM NeverOlderAlways == StorageSpec => []NeverOlder
<1>1. StorageInit => AckInv
  BY DEF StorageInit, AckInv
<1>2. IInv /\ AckInv => NeverOlder
  <2> SUFFICES ASSUME IInv, AckInv, ~wiped, NEW i \in acked
               PROVE  OpenStatus = "OK" /\ Current.birth >= i.birth
    BY DEF NeverOlder
  <2>1. PICK s \in Slots : Loadable(s) /\ Header(s).birth >= i.birth
    BY DEF AckInv
  <2>2. OpenStatus = "OK" /\ Current.birth >= Header(s).birth
    BY <2>1, CurrentIsNewest
  <2>3. Current.birth \in Nat /\ Header(s).birth \in Nat /\ i.birth \in Nat
    BY <2>1, <2>2, SelectedIsNewest, LoadableIsValid
       DEF IInv, Valid, Images, Current, TypeOK
  <2>4. QED
    BY <2>1, <2>2, <2>3
<1>3. IInv /\ AckInv /\ [StorageNext]_storageVars => AckInv'
  BY AckStep
<1>4. QED
  BY <1>1, <1>2, <1>3, InitInvariant, NextInvariant, PTL DEF StorageSpec


-----------------------------------------------------------------------------
(* The refinement: the value a boot restores and the one it would fall     *)
(* back on, for every combination of readable slots.                       *)

Views ==
  /\ \A s \in Slots : Loadable(s) => SavedValue(Header(s)) \in Promise!Values
  /\ ~Loadable(0) /\ ~Loadable(1) => Stored = {} /\ Fallback = {}
  /\ \A s \in Slots : Loadable(s) /\ ~Loadable(Other(s))
       => Stored = {SavedValue(Header(s))} /\ Fallback = {}
  /\ \A s \in Slots : Loadable(s) /\ Loadable(Other(s)) /\ Successor(s, Other(s))
       => Stored = {SavedValue(Header(s))} /\ Fallback = {SavedValue(Header(Other(s)))}
  /\ Loadable(0) /\ Loadable(1) => Successor(0, 1) \/ Successor(1, 0)

(* What the invariant says of the values the refinement mapping reads.     *)
LEMMA ViewsHold == IInv => Views
<1> SUFFICES ASSUME IInv PROVE Views
  OBVIOUS
<1>0. TypeOK /\ SequencesAdjacent
  BY DEF IInv
<1>1. \A s \in Slots : Loadable(s) => Header(s) \in Images
  BY <1>0, LoadableIsValid DEF Valid
<1>2. ASSUME NEW s \in Slots, Loadable(s)
      PROVE  SavedValue(Header(s)) \in Promise!Values
  <2>1. Header(s) \in Images
    BY <1>1, <1>2
  <2>2. Header(s).config \in Configs /\ Header(s).autostart \in BOOLEAN
    BY <2>1 DEF Images
  <2> QED
    BY <2>2 DEF SavedValue, Promise!Values
<1>3. ASSUME ~Loadable(0), ~Loadable(1) PROVE Stored = {} /\ Fallback = {}
  BY <1>3 DEF Stored, Fallback, Slots
<1>4. \A s \in Slots : Other(s) \in Slots /\ Other(s) # s /\ \A r \in Slots : r = s \/ r = Other(s)
  BY DEF Slots, Other
<1>5. ASSUME NEW s \in Slots, Loadable(s), ~Loadable(Other(s))
      PROVE  Stored = {SavedValue(Header(s))} /\ Fallback = {}
  <2>1. Selected = s
    BY <1>0, <1>4, <1>5, SelectedIsNewest
  <2> QED
    BY <1>4, <1>5, <2>1 DEF Stored, Fallback
<1>6. ASSUME NEW s \in Slots, Loadable(s), Loadable(Other(s)), Successor(s, Other(s))
      PROVE  Stored = {SavedValue(Header(s))} /\ Fallback = {SavedValue(Header(Other(s)))}
  <2>1. Loadable(0) /\ Loadable(1) /\ Selected \in Slots /\ Successor(Selected, Other(Selected))
    BY <1>0, <1>4, <1>6, SelectedIsNewest DEF Slots
  <2>2. Header(s).birth \in Nat /\ Header(Other(s)).birth \in Nat
    BY <1>1, <1>4, <1>6 DEF Images
  <2>3. Selected # Other(s)
    <3>1. Other(Other(s)) = s
      BY DEF Slots, Other
    <3> QED
      BY <1>6, <2>1, <2>2, <3>1 DEF Successor
  <2>4. Selected = s
    BY <1>4, <2>1, <2>3
  <2> QED
    BY <1>4, <1>6, <2>4 DEF Stored, Fallback
<1>7. Loadable(0) /\ Loadable(1) => Successor(0, 1) \/ Successor(1, 0)
  BY <1>0, LoadableIsValid DEF SequencesAdjacent, Slots
<1> QED
  BY <1>2, <1>3, <1>5, <1>6, <1>7 DEF Views

(* The same on both sides of a step.                                       *)
LEMMA ViewsNext == IInv /\ [StorageNext]_storageVars => Views /\ Views'
<1>1. IInv' => Views'
  BY ViewsHold, PTL
<1> QED
  BY <1>1, ViewsHold, NextInvariant

(* What is being written is a save, which keeps the autostart flag, or a   *)
(* SET_AUTOSTART, which keeps the configuration.                           *)
KeepsHalf ==
  Writing =>
    IF Loadable(Other(target))
    THEN \/ image.autostart = Header(Other(target)).autostart
         \/ image.config = Header(Other(target)).config
    ELSE image.autostart = FALSE


(* The start of a save leaves both slots as they were.                     *)
LEMMA BeginKeepsHalf ==
  ASSUME IInv, \/ \E c \in Configs : Save(c)
               \/ \E e \in BOOLEAN : SetAutostart(e)
  PROVE  KeepsHalf' /\ Kept(0) /\ Kept(1) /\ catalog' = catalog
<1>0. TypeOK /\ SequencesAdjacent
  BY DEF IInv
<1>1. PICK t \in Slots :
        /\ pages' = pages /\ marker' = marker /\ catalog' = catalog /\ target' = t
        /\ OpenStatus = "OK" => /\ t = Other(Selected)
                                /\ \/ image'.autostart = Current.autostart
                                   \/ image'.config = Current.config
        /\ OpenStatus # "OK" => image'.autostart = FALSE
  <2>1. ASSUME NEW c \in Configs, Save(c), OpenStatus = "OK"
        PROVE  /\ pages' = pages /\ marker' = marker /\ catalog' = catalog
               /\ target' = Other(Selected) /\ image'.autostart = Current.autostart
    BY <2>1 DEF Save, StartWriting, flash
  <2>2. ASSUME NEW c \in Configs, Save(c), OpenStatus # "OK"
        PROVE  /\ pages' = pages /\ marker' = marker /\ catalog' = catalog
               /\ target' = 0 /\ image'.autostart = FALSE
    BY <2>2 DEF Save, StartWriting, flash
  <2>3. ASSUME NEW e \in BOOLEAN, SetAutostart(e)
        PROVE  /\ pages' = pages /\ marker' = marker /\ catalog' = catalog
               /\ target' = Other(Selected) /\ image'.config = Current.config
               /\ OpenStatus = "OK"
    BY <2>3 DEF SetAutostart, StartWriting, flash
  <2>4. OpenStatus = "OK" => Other(Selected) \in Slots
    BY <1>0, SelectedIsNewest DEF Slots, Other
  <2> QED
    BY <2>1, <2>2, <2>3, <2>4 DEF Slots
<1>2. \A s \in Slots : (Loadable(s)' <=> Loadable(s)) /\ Header(s)' = Header(s)
  BY <1>1 DEF Loadable, LoadStatus, CrcOk, Header
<1>3. PICK o \in Slots : o = Other(t)
  BY DEF Slots, Other
<1>4. Other(target)' = o
  BY <1>1, <1>3 DEF Other
<1>5. IF Loadable(o)
      THEN \/ image'.autostart = Header(o).autostart
           \/ image'.config = Header(o).config
      ELSE image'.autostart = FALSE
  <2>1. CASE OpenStatus = "OK"
    <3>1. Selected \in Slots /\ Loadable(Selected)
      BY <1>0, <2>1, SelectedIsNewest
    <3>2. Selected = o
      BY <1>1, <1>3, <2>1, <3>1 DEF Slots, Other
    <3> QED
      BY <1>1, <2>1, <3>1, <3>2 DEF Current
  <2>2. CASE OpenStatus # "OK"
    BY <1>0, <1>1, <2>2, SelectedIsNewest
  <2> QED
    BY <2>1, <2>2
<1>6. Loadable(Other(target))' <=> Loadable(o)
  BY <1>2, <1>4 DEF Loadable, LoadStatus, CrcOk, Header
<1>7. Header(Other(target))' = Header(o)
  BY <1>2, <1>4 DEF Header
<1>8. KeepsHalf'
  BY <1>5, <1>6, <1>7 DEF KeepsHalf
<1> QED
  BY <1>1, <1>8 DEF Kept

(* The slot that is not being written is kept by every step.               *)
LEMMA KeepsHalfStep == IInv /\ KeepsHalf /\ [StorageNext]_storageVars => KeepsHalf'
<1> SUFFICES ASSUME IInv, KeepsHalf, [StorageNext]_storageVars PROVE KeepsHalf'
  OBVIOUS
<1>0. TypeOK
  BY DEF IInv
<1>1. CASE (\E c \in Configs : Save(c)) \/ (\E e \in BOOLEAN : SetAutostart(e))
  BY <1>1, BeginKeepsHalf
<1>2. CASE /\ ~(\E c \in Configs : Save(c))
           /\ ~(\E e \in BOOLEAN : SetAutostart(e))
  <2>1. Writing' => Writing
    BY <1>2 DEF StorageNext, storageVars, ErasePage, ProgramPage, VerifyImage, ProgramMarkerLow,
       ProgramMarkerHigh, ReadBack, Erase, WipePage, Interrupt, Reflash, Return, Writing
  <2>2. CASE ~Writing'
    BY <2>2 DEF KeepsHalf
  <2>3. CASE Writing'
    <3>1. Kept(Other(target)) /\ target' = target /\ image' = image
      BY <2>1, <2>3, ImageStep
    <3>2. catalog' = catalog
      BY <1>0, <2>1, <2>3 DEF StorageNext, storageVars, Save, SetAutostart, StartWriting, ErasePage, ProgramPage, VerifyImage,
         ProgramMarkerLow, ProgramMarkerHigh, ReadBack, Erase, WipePage, Interrupt, Reflash,
         Writing
    <3>3. PICK o \in Slots : o = Other(target)
      BY <1>0 DEF TypeOK, Slots, Other
    <3>4. Other(target)' = o
      BY <3>1, <3>3 DEF Other
    <3>5. Loadable(Other(target))' <=> Loadable(o)
      BY <3>1, <3>2, <3>3, <3>4 DEF Loadable, LoadStatus, CrcOk, Header, Kept
    <3>6. Header(Other(target))' = Header(o)
      BY <3>1, <3>3, <3>4 DEF Header, Kept
    <3>7. /\ Loadable(Other(target)) <=> Loadable(o)
          /\ Header(Other(target)) = Header(o)
      BY <3>3
    <3> QED
      BY <2>1, <2>3, <3>1, <3>5, <3>6, <3>7 DEF KeepsHalf
  <2> QED
    BY <2>2, <2>3
<1> QED
  BY <1>1, <1>2

-----------------------------------------------------------------------------
(* How a step of the store looks from outside.                             *)

(* The slots read as before.                                               *)
LEMMA SameView ==
  ASSUME catalog' = catalog,
         \A s \in Slots : (Loadable(s)' <=> Loadable(s)) /\ Header(s)' = Header(s)
  PROVE  Stored' = Stored /\ Fallback' = Fallback
<1>1. Selected' = Selected
  BY DEF Selected, Slots
<1> QED
  BY <1>1 DEF Stored, Fallback

(* A slot that is kept reads as before.                                    *)
LEMMA KeptReads ==
  ASSUME catalog' = catalog, NEW s \in Slots, Kept(s)
  PROVE  (Loadable(s)' <=> Loadable(s)) /\ Header(s)' = Header(s)
BY DEF Kept, Loadable, LoadStatus, CrcOk, Header

(* There are two slots, so one of them and the other are all.              *)
LEMMA TwoSlots ==
  ASSUME NEW t \in Slots, NEW o \in Slots, o = Other(t)
  PROVE  /\ o # t /\ Other(o) = t /\ (\A s \in Slots : s = t \/ s = o)
         /\ \/ t = 0 /\ o = 1
            \/ t = 1 /\ o = 0
BY DEF Slots, Other

(* What Views says of two given slots.                                     *)
LEMMA ViewsOf ==
  ASSUME Views, NEW t \in Slots, NEW o \in Slots, o = Other(t)
  PROVE  /\ Loadable(t) => SavedValue(Header(t)) \in Promise!Values
         /\ ~Loadable(t) /\ ~Loadable(o) => Stored = {} /\ Fallback = {}
         /\ Loadable(t) /\ ~Loadable(o) => Stored = {SavedValue(Header(t))} /\ Fallback = {}
         /\ ~Loadable(t) /\ Loadable(o) => Stored = {SavedValue(Header(o))} /\ Fallback = {}
         /\ Loadable(t) /\ Loadable(o) /\ Successor(t, o)
              => Stored = {SavedValue(Header(t))} /\ Fallback = {SavedValue(Header(o))}
         /\ Loadable(t) /\ Loadable(o) /\ Successor(o, t)
              => Stored = {SavedValue(Header(o))} /\ Fallback = {SavedValue(Header(t))}
         /\ Loadable(t) /\ Loadable(o) => Successor(t, o) \/ Successor(o, t)
BY TwoSlots DEF Views

(* The stored and the fallback value after a step, by which of the two     *)
(* slots can be loaded.                                                    *)
LEMMA ViewsOfNext ==
  ASSUME Views', NEW t \in Slots, NEW o \in Slots, o = Other(t)
  PROVE  /\ Loadable(t)' => (SavedValue(Header(t)) \in Promise!Values)'
         /\ ~Loadable(t)' /\ ~Loadable(o)' => Stored' = {} /\ Fallback' = {}
         /\ Loadable(t)' /\ ~Loadable(o)' => Stored' = {SavedValue(Header(t))'} /\ Fallback' = {}
         /\ ~Loadable(t)' /\ Loadable(o)' => Stored' = {SavedValue(Header(o))'} /\ Fallback' = {}
         /\ Loadable(t)' /\ Loadable(o)' /\ Successor(t, o)'
              => Stored' = {SavedValue(Header(t))'} /\ Fallback' = {SavedValue(Header(o))'}
         /\ Loadable(t)' /\ Loadable(o)' /\ Successor(o, t)'
              => Stored' = {SavedValue(Header(o))'} /\ Fallback' = {SavedValue(Header(t))'}
         /\ Loadable(t)' /\ Loadable(o)' => Successor(t, o)' \/ Successor(o, t)'
BY TwoSlots DEF Views

(* Nothing changes, or the target can no longer be read.                   *)
LEMMA SlotLost ==
  ASSUME Views, Views', catalog' = catalog, NEW t \in Slots, NEW o \in Slots,
         o = Other(t), Kept(o), Kept(t) \/ ~Loadable(t)'
  PROVE  [Promise!Next]_Promise!avars
<1>1. (Loadable(o)' <=> Loadable(o)) /\ Header(o)' = Header(o)
  BY KeptReads
<1>2. ASSUME Stored' = Stored, Fallback' = Fallback
      PROVE  [Promise!Next]_Promise!avars
  BY <1>2 DEF Promise!avars
<1>3. CASE Kept(t)
  <2>1. \A s \in Slots : (Loadable(s)' <=> Loadable(s)) /\ Header(s)' = Header(s)
    BY <1>1, <1>3, KeptReads, TwoSlots
  <2> QED
    BY <1>2, <2>1, SameView
<1>4. CASE ~Loadable(t)' /\ ~Loadable(t)
  <2>1. CASE Loadable(o)
    <3>1. Stored = {SavedValue(Header(o))} /\ Fallback = {}
      BY <1>4, <2>1, ViewsOf
    <3>2. Stored' = {SavedValue(Header(o))'} /\ Fallback' = {}
      BY <1>1, <1>4, <2>1, ViewsOfNext
    <3>3. SavedValue(Header(o))' = SavedValue(Header(o))
      BY <1>1 DEF SavedValue
    <3> QED
      BY <1>2, <3>1, <3>2, <3>3
  <2>2. CASE ~Loadable(o)
    BY <1>1, <1>2, <1>4, <2>2, ViewsOf, ViewsOfNext
  <2> QED
    BY <2>1, <2>2
<1>5. CASE ~Loadable(t)' /\ Loadable(t)
  <2>1. CASE Loadable(o)
    <3>1. Stored' = {SavedValue(Header(o))'} /\ Fallback' = {}
      BY <1>1, <1>5, <2>1, ViewsOfNext
    <3>2. SavedValue(Header(o))' = SavedValue(Header(o))
      BY <1>1 DEF SavedValue
    <3>3. CASE Successor(o, t)
      <4>1. Stored = {SavedValue(Header(o))}
        BY <1>5, <2>1, <3>3, ViewsOf
      <4>2. Promise!DropFallback
        BY <3>1, <3>2, <4>1 DEF Promise!DropFallback
      <4> QED
        BY <4>2 DEF Promise!Next
    <3>4. CASE Successor(t, o)
      <4>1. Fallback = {SavedValue(Header(o))}
        BY <1>5, <2>1, <3>4, ViewsOf
      <4>2. Promise!DropStored
        BY <3>1, <3>2, <4>1 DEF Promise!DropStored
      <4> QED
        BY <4>2 DEF Promise!Next
    <3> QED
      BY <1>5, <2>1, <3>3, <3>4, ViewsOf
  <2>2. CASE ~Loadable(o)
    <3>1. Fallback = {} /\ Stored' = {} /\ Fallback' = {}
      BY <1>1, <1>5, <2>2, ViewsOf, ViewsOfNext
    <3>2. Promise!DropStored
      BY <3>1 DEF Promise!DropStored
    <3> QED
      BY <3>2 DEF Promise!Next
  <2> QED
    BY <2>1, <2>2
<1> QED
  BY <1>3, <1>4, <1>5


(* The marker completes: the image becomes the saved value and what was    *)
(* saved becomes the fallback.                                             *)
LEMMA SlotCommitted ==
  ASSUME IInv, KeepsHalf, Views, Views', catalog' = catalog, pc = "mark_hi",
         NEW t \in Slots, NEW o \in Slots, t = target, o = Other(t), Kept(o),
         Header(t)' = image, Loadable(t)'
  PROVE  [Promise!Next]_Promise!avars
<1>0. TypeOK /\ ImageInv /\ TargetInv /\ Writing
  BY DEF IInv, Writing
<1>1. image \in Images
  BY <1>0 DEF TypeOK
<1>2. ~Loadable(t)
  BY <1>0 DEF TargetInv, Loadable, LoadStatus
<1>3. (Loadable(o)' <=> Loadable(o)) /\ Header(o)' = Header(o)
  BY KeptReads
<1>4. SavedValue(Header(t))' = SavedValue(image) /\ SavedValue(Header(o))' = SavedValue(Header(o))
  BY <1>3 DEF SavedValue
<1>5. SavedValue(image) \in Promise!Values
  <2>1. image.config \in Configs /\ image.autostart \in BOOLEAN
    BY <1>1 DEF Images
  <2> QED
    BY <2>1 DEF SavedValue, Promise!Values
<1>6. Fallback = {}
  BY <1>2, ViewsOf
<1>7. Stored' = {SavedValue(image)} /\ Fallback' = Stored
  <2>1. CASE Loadable(o)
    <3>1. Header(o) \in Images /\ Header(o) = pages[o][0]
      BY <1>0, <2>1, LoadableIsValid DEF Valid, Header
    <3>2. Header(o).birth < image.birth /\ image.seq = NextSeq(Header(o).seq)
      BY <1>0, <2>1, <3>1, StorageAssumption DEF ImageInv
    <3>3. Header(o).birth \in Nat /\ image.birth \in Nat
      BY <1>1, <3>1 DEF Images
    <3>4. Successor(t, o)'
      BY <1>3, <3>2, <3>3 DEF Successor, NextSeq
    <3> QED
      BY <1>2, <1>3, <1>4, <2>1, <3>4, ViewsOf, ViewsOfNext
  <2>2. CASE ~Loadable(o)
    BY <1>2, <1>3, <1>4, <2>2, ViewsOf, ViewsOfNext
  <2> QED
    BY <2>1, <2>2
<1>8. /\ \/ \A w \in Stored : SavedValue(image).autostart = w.autostart
         \/ Stored # {} /\ \A w \in Stored : SavedValue(image).config = w.config
      /\ Stored = {} => ~SavedValue(image).autostart
  <2>1. CASE Loadable(o)
    <3>1. Stored = {SavedValue(Header(o))}
      BY <1>2, <2>1, ViewsOf
    <3>2. image.autostart = Header(o).autostart \/ image.config = Header(o).config
      BY <1>0, <2>1 DEF KeepsHalf
    <3>3. \A i : SavedValue(i).autostart = i.autostart /\ SavedValue(i).config = i.config
      BY DEF SavedValue
    <3>4. \A w \in Stored : w = SavedValue(Header(o))
      BY <3>1
    <3>5. Stored # {}
      BY <3>1
    <3> QED
      BY <3>2, <3>3, <3>4, <3>5
  <2>2. CASE ~Loadable(o)
    <3>1. Stored = {}
      BY <1>2, <2>2, ViewsOf
    <3>2. image.autostart = FALSE
      BY <1>0, <2>2 DEF KeepsHalf
    <3> QED
      BY <3>1, <3>2 DEF SavedValue
  <2> QED
    BY <2>1, <2>2
<1>9. Promise!Replace(SavedValue(image))
  BY <1>6, <1>7, <1>8 DEF Promise!Replace
<1> QED
  BY <1>5, <1>9 DEF Promise!Next

(* New firmware with another catalog is a step of the promise.             *)
LEMMA FirmwareChanged ==
  ASSUME Views', catalog' \in Catalogs \ {catalog}
  PROVE  [Promise!Next]_Promise!avars
<1>1. PICK t, o \in Slots : o = Other(t)
  BY DEF Slots, Other
<1>2. /\ Loadable(t)' => SavedValue(Header(t))' \in Promise!Values
      /\ Loadable(o)' => SavedValue(Header(o))' \in Promise!Values
  <2>1. t = Other(o)
    BY <1>1, TwoSlots
  <2> QED
    BY <1>1, <2>1, ViewsOfNext DEF Promise!Values
<1>3. Stored' \in Promise!Maybe /\ Fallback' \in Promise!Maybe
  <2>1. \A v \in Promise!Values : {v} \in Promise!Maybe
    BY DEF Promise!Maybe
  <2>2. {} \in Promise!Maybe
    BY DEF Promise!Maybe
  <2>3. /\ \/ Stored' = {}
           \/ Loadable(t)' /\ Stored' = {SavedValue(Header(t))'}
           \/ Loadable(o)' /\ Stored' = {SavedValue(Header(o))'}
        /\ \/ Fallback' = {}
           \/ Loadable(t)' /\ Fallback' = {SavedValue(Header(t))'}
           \/ Loadable(o)' /\ Fallback' = {SavedValue(Header(o))'}
    BY <1>1, ViewsOfNext
  <2>4. CASE Loadable(t)' /\ Loadable(o)'
    BY <1>2, <2>1, <2>2, <2>3, <2>4
  <2>5. CASE ~(Loadable(t)' /\ Loadable(o)')
    BY <1>2, <2>1, <2>2, <2>3, <2>5
  <2> QED
    BY <2>4, <2>5
<1>4. Promise!ChangeFirmware
  BY <1>3 DEF Promise!ChangeFirmware
<1> QED
  BY <1>4 DEF Promise!Next

(* Every step of the store is a step of the one-value store, or none.      *)
LEMMA StepPromise ==
  IInv /\ IInv' /\ KeepsHalf /\ [StorageNext]_storageVars => [Promise!Next]_Promise!avars
<1> SUFFICES ASSUME IInv, IInv', KeepsHalf, [StorageNext]_storageVars
             PROVE  [Promise!Next]_Promise!avars
  OBVIOUS
<1>0. TypeOK /\ TargetInv /\ Views /\ Views'
  BY ViewsNext DEF IInv
<1>1. CASE Reflash
  BY <1>0, <1>1, FirmwareChanged DEF Reflash
<1>2. CASE ~Reflash
  <2>1. catalog' = catalog
    BY <1>2 DEF StorageNext, storageVars, Save, SetAutostart, StartWriting, ErasePage, ProgramPage,
       VerifyImage, ProgramMarkerLow, ProgramMarkerHigh, ReadBack, Erase, WipePage, Interrupt
  <2>2. CASE Kept(0) /\ Kept(1)
    BY <1>0, <2>1, <2>2, SlotLost DEF Slots, Other
  <2>3. CASE ~(Kept(0) /\ Kept(1))
    <3>1. (Writing \/ pc = "wipe") /\ Kept(Other(target))
      BY <1>0, <2>3, StepKeepsOther
    <3>2. PICK t \in Slots : t = target
      BY <1>0 DEF TypeOK
    <3>3. PICK o \in Slots : o = Other(t)
      BY DEF Slots, Other
    <3>4. Kept(o)
      BY <3>1, <3>2, <3>3
    <3>5. Kept(t) \/ ~Valid(t)' \/ (pc = "mark_hi" /\ Header(t)' = image)
      BY <1>0, <3>1, <3>2, TargetStep
    <3>6. Loadable(t)' => Valid(t)'
      <4>1. TypeOK'
        BY DEF IInv
      <4>2. Header(t)' \in PageContents
        BY <4>1 DEF TypeOK, Header
      <4> QED
        BY <4>2 DEF Loadable, LoadStatus, Valid, PageContents
    <3>7. CASE Kept(t) \/ ~Loadable(t)'
      BY <1>0, <2>1, <3>3, <3>4, <3>7, SlotLost
    <3>8. CASE ~Kept(t) /\ Loadable(t)'
      BY <1>0, <2>1, <3>2, <3>3, <3>4, <3>5, <3>6, <3>8, SlotCommitted
    <3> QED
      BY <3>7, <3>8
  <2> QED
    BY <2>2, <2>3
<1> QED
  BY <1>1, <1>2

(* The two slots behave as one saved value that is replaced in one step:   *)
(* whatever page, half-word or read-back is cut or fails, a boot finds the *)
(* whole old value or the whole new one, a save keeps the autostart flag   *)
(* and SET_AUTOSTART the configuration, and the value found if the newest  *)
(* is lost is the one it replaced.                                         *)
THEOREM StorePromises == StorageSpec => ImplementsPromise
<1>1. StorageInit => KeepsHalf /\ Promise!Init
  <2> SUFFICES ASSUME StorageInit PROVE KeepsHalf /\ Promise!Init
    OBVIOUS
  <2>1. ~Writing /\ catalog \in Catalogs
    BY DEF StorageInit, Writing
  <2>2. \A s \in Slots : ~Loadable(s)
    BY DEF StorageInit, Loadable, LoadStatus
  <2>3. Stored = {} /\ Fallback = {}
    BY <2>2 DEF Stored, Fallback
  <2> QED
    BY <2>1, <2>3 DEF KeepsHalf, Promise!Init
<1>2. QED
  BY <1>1, InitInvariant, NextInvariant, KeepsHalfStep, StepPromise, PTL
     DEF StorageSpec, ImplementsPromise, Promise!Spec

=============================================================================
