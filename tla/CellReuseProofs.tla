--------------------------- MODULE CellReuseProofs ---------------------------
(***************************************************************************)
(* What stands beside a name, for any persons and cells: the type of the   *)
(* state, that a row shows the photo of its own person, and that a row     *)
(* without its photo is waiting for it.                                    *)
(***************************************************************************)
EXTENDS CellReuse, TLAPS

(* What a cell in a row may be waiting for: RowsShowTheirPerson alone is    *)
(* not kept by the answer of a load.                                        *)
LoadsForRow ==
    \A c \in Cells : person[c] # NoPerson =>
        view[c].loading \in IF person[c] \in photographed THEN {person[c], NoLoad}
                            ELSE {late[c], NoLoad}

RowInv == RowsShowTheirPerson /\ LoadsForRow

-----------------------------------------------------------------------------
(* Type correctness: setupCustomImageView and the answers of loads leave    *)
(* only photos that exist in the cells.                                     *)
LEMMA TypeStep == ASSUME TypeOK, [Next]_vars PROVE TypeOK'
<1> USE CellAssumption
<1>1. ASSUME NEW c \in Cells, NEW p \in Persons, CellForItem(c, p) PROVE TypeOK'
  BY <1>1 DEF TypeOK, CellForItem, SetupCustomImageView, SetImage, SetImageWithURL
<1>2. ASSUME NEW c \in Cells, EndDisplaying(c) PROVE TypeOK'
  BY <1>2 DEF TypeOK, EndDisplaying
<1>3. ASSUME NEW c \in Cells, PhotoLoaded(c) PROVE TypeOK'
  <2>1. view[c].loading \in photographed
    BY <1>3 DEF TypeOK, PhotoLoaded
  <2> QED BY <1>3, <2>1 DEF TypeOK, PhotoLoaded, Loaded
<1>4. ASSUME NEW c \in Cells, PhotoFailed(c) PROVE TypeOK'
  <2>1. view[c].loading \in photographed
    BY <1>4 DEF TypeOK, PhotoFailed
  <2> QED BY <1>4, <2>1 DEF TypeOK, PhotoFailed, LoadFailed
<1>5. ASSUME NEW p \in Persons, Purge(p) PROVE TypeOK'
  BY <1>5 DEF TypeOK, Purge
<1>6. CASE UNCHANGED vars
  BY <1>6 DEF TypeOK, vars
<1> QED BY <1>1, <1>2, <1>3, <1>4, <1>5, <1>6 DEF Next

(* CellReuse: every variable keeps its type.                                *)
THEOREM TypeCorrect == Spec => []TypeOK
<1>1. Init => TypeOK
  BY DEF Init, TypeOK, NewView
<1> QED BY <1>1, TypeStep, PTL DEF Spec

-----------------------------------------------------------------------------
(* A row gets what setupCustomImageView leaves of the cell before it.       *)
LEMMA RowStep == ASSUME TypeOK, RowInv, [Next]_vars PROVE RowInv'
<1> USE CellAssumption
<1>1. ASSUME NEW c \in Cells, NEW p \in Persons, CellForItem(c, p) PROVE RowInv'
  <2> SUFFICES ASSUME NEW d \in Cells, person'[d] # NoPerson
               PROVE  /\ view'[d].shown \in IF person'[d] \in photographed'
                                            THEN {person'[d], Blank} ELSE {Default, late'[d]}
                      /\ view'[d].loading \in IF person'[d] \in photographed'
                                              THEN {person'[d], NoLoad} ELSE {late'[d], NoLoad}
    BY Zenon DEF RowInv, RowsShowTheirPerson, LoadsForRow
  <2>1. CASE d = c
    <3>1. /\ person'[c] = p /\ photographed' = photographed
          /\ view'[c] = SetupCustomImageView(view[c], p)
          /\ late'[c] = view[c].loading
      BY <1>1 DEF TypeOK, CellForItem
    <3>2. view[c] \in [shown : photographed \cup {Blank, Default},
                      loading : photographed \cup {NoLoad}]
      BY DEF TypeOK
    <3>3. CASE p \in photographed
      BY <2>1, <3>1, <3>3 DEF SetupCustomImageView, SetImageWithURL
    <3>4. CASE p \notin photographed
      BY <2>1, <3>1, <3>2, <3>4 DEF SetupCustomImageView, SetImage
    <3> QED BY <3>3, <3>4
  <2>2. CASE d # c
    BY <1>1, <2>2 DEF TypeOK, CellForItem, RowInv, RowsShowTheirPerson, LoadsForRow
  <2> QED BY <2>1, <2>2
<1>2. ASSUME NEW c \in Cells, EndDisplaying(c) PROVE RowInv'
  BY <1>2 DEF TypeOK, EndDisplaying, RowInv, RowsShowTheirPerson, LoadsForRow
<1>3. ASSUME NEW c \in Cells, PhotoLoaded(c) PROVE RowInv'
  BY <1>3 DEF TypeOK, PhotoLoaded, Loaded, RowInv, RowsShowTheirPerson, LoadsForRow
<1>4. ASSUME NEW c \in Cells, PhotoFailed(c) PROVE RowInv'
  <2>1. \A d \in Cells : /\ view'[d].shown = view[d].shown
                         /\ view'[d].loading \in {view[d].loading, NoLoad}
    BY <1>4 DEF TypeOK, PhotoFailed, LoadFailed
  <2>2. UNCHANGED <<photographed, person, late>>
    BY <1>4 DEF PhotoFailed
  <2> QED BY <2>1, <2>2 DEF RowInv, RowsShowTheirPerson, LoadsForRow
<1>5. ASSUME NEW p \in Persons, Purge(p) PROVE RowInv'
  BY <1>5 DEF Purge, RowInv, RowsShowTheirPerson, LoadsForRow
<1>6. CASE UNCHANGED vars
  BY <1>6 DEF vars, RowInv, RowsShowTheirPerson, LoadsForRow
<1> QED BY <1>1, <1>2, <1>3, <1>4, <1>5, <1>6 DEF Next

(* However cells are handed on while photos load, fail and leave the cache, *)
(* no photo stands beside the name of another person who has one, and beside *)
(* a name without one only the photo the cell was loading when it got the row. *)
THEOREM RowsShowTheirPersons == Spec => []RowsShowTheirPerson
<1>1. Init => RowInv
  BY DEF Init, RowInv, RowsShowTheirPerson, LoadsForRow
<1>2. Spec => []RowInv
  BY <1>1, TypeCorrect, RowStep, PTL DEF Spec
<1> QED BY <1>2, PTL DEF RowInv
-----------------------------------------------------------------------------
(* The row of a person with a photo that shows none is waiting for it, and  *)
(* for no other, unless its load failed or the photo failed for good before: *)
(* the part of PhotosArrive that needs no fairness.                         *)
PhotoShownOrComing ==
    \A c \in Cells : person[c] \in photographed =>
        \/ view[c].shown = person[c]
        \/ view[c].loading = person[c]
        \/ c \in failed
        \/ person[c] \in blocked

(* A row gives up its photo only to a load of another row, and LoadsForRow   *)
(* excludes that one.                                                       *)
LEMMA ComingStep == ASSUME TypeOK, RowInv, PhotoShownOrComing, [Next]_vars
                    PROVE  PhotoShownOrComing'
<1> USE CellAssumption
<1>1. ASSUME NEW c \in Cells, NEW p \in Persons, CellForItem(c, p) PROVE PhotoShownOrComing'
  <2>1. /\ person' = [person EXCEPT ![c] = p] /\ photographed' = photographed
        /\ blocked' = blocked /\ failed' = failed \ {c}
        /\ view' = [view EXCEPT ![c] = SetupCustomImageView(@, p)]
    BY <1>1 DEF CellForItem
  <2>2. \A d \in Cells : d # c => /\ person'[d] = person[d] /\ view'[d] = view[d]
                                /\ (d \in failed => d \in failed')
    BY <2>1 DEF TypeOK
  <2>3. person'[c] = p /\ view'[c] = SetupCustomImageView(view[c], p)
    BY <2>1 DEF TypeOK
  <2>4. p \in photographed => \/ view'[c].shown = p \/ view'[c].loading = p \/ p \in blocked
    BY <2>3 DEF SetupCustomImageView, SetImageWithURL
  <2> QED BY <2>1, <2>2, <2>3, <2>4 DEF PhotoShownOrComing
<1>2. ASSUME NEW c \in Cells, EndDisplaying(c) PROVE PhotoShownOrComing'
  BY <1>2 DEF TypeOK, EndDisplaying, PhotoShownOrComing
<1>3. ASSUME NEW c \in Cells, PhotoLoaded(c) PROVE PhotoShownOrComing'
  <2>1. person[c] \in photographed => view[c].loading = person[c]
    BY <1>3 DEF TypeOK, PhotoLoaded, RowInv, LoadsForRow
  <2> QED BY <1>3, <2>1 DEF TypeOK, PhotoLoaded, Loaded, PhotoShownOrComing
<1>4. ASSUME NEW c \in Cells, PhotoFailed(c) PROVE PhotoShownOrComing'
  <2>1. /\ UNCHANGED <<photographed, person>> /\ blocked \subseteq blocked'
        /\ failed' = failed \cup {c}
        /\ \A d \in Cells : d # c => view'[d] = view[d]
    BY <1>4 DEF TypeOK, PhotoFailed
  <2> QED BY <2>1 DEF PhotoShownOrComing
<1>5. ASSUME NEW p \in Persons, Purge(p) PROVE PhotoShownOrComing'
  BY <1>5 DEF Purge, PhotoShownOrComing
<1>6. CASE UNCHANGED vars
  BY <1>6 DEF vars, PhotoShownOrComing
<1> QED BY <1>1, <1>2, <1>3, <1>4, <1>5, <1>6 DEF Next

(* However a cell was used before, setupCustomImageView leaves the row of a *)
(* person with a photo showing it or waiting for it.                        *)
THEOREM PhotosShownOrComing == Spec => []PhotoShownOrComing
<1>1. Init => RowInv /\ PhotoShownOrComing
  BY CellAssumption DEF Init, RowInv, RowsShowTheirPerson, LoadsForRow, PhotoShownOrComing
<1> QED BY <1>1, TypeCorrect, RowStep, ComingStep, PTL DEF Spec
=============================================================================
