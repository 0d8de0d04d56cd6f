------------------------------ MODULE CellReuse ------------------------------
(***************************************************************************)
(* The photos in the rows of the home screen.                              *)
(*                                                                         *)
(* The collection view keeps a few cells and hands them out again for      *)
(* other rows.  A cell has no prepareForReuse: setupCustomImageView is all *)
(* that happens to its image view when it is given another person.  A      *)
(* photo may still be loading then.                                        *)
(***************************************************************************)
EXTENDS ImageView

CONSTANTS
    Persons,  \* the persons of the rows; a photo goes by the name of its person
    Cells,    \* the cells of the collection view
    NoPerson  \* a cell in the pool

ASSUME CellAssumption ==
    /\ NoPerson \notin Persons
    /\ {Blank, Default, NoLoad} \cap Persons = {}
    /\ Blank # Default

VARIABLES
    photographed,  \* persons with a photo: their urlImage is not empty
    person,        \* the row each cell is displayed for
    view,          \* the image view of each cell
    memory,        \* photos in the memory cache
    blocked,       \* photos that failed for good
    late,          \* history: what a cell was loading when it got its row
    failed         \* history: cells whose load for their row failed

vars == <<photographed, person, view, memory, blocked, late, failed>>

-----------------------------------------------------------------------------
Init ==
    /\ photographed \in SUBSET Persons
    /\ person = [c \in Cells |-> NoPerson]
    /\ view = [c \in Cells |-> NewView]
    /\ memory = {}
    /\ blocked = {}
    /\ late = [c \in Cells |-> NoLoad]
    /\ failed = {}

\* Mutants: an empty url is loaded like any other, or no load is begun beside
\* another.
SetupAlways(v, p) == SetImageWithURL(v, p, memory, blocked)
SetupIdle(v, p) ==
    IF p \notin photographed \/ v.loading # NoLoad THEN SetImage(v, Default)
    ELSE SetImageWithURL(v, p, memory, blocked)

\* setupCustomImageView, for the url of p.
SetupCustomImageView(v, p) ==
    IF p \notin photographed THEN SetImage(v, Default)
    ELSE SetImageWithURL(v, p, memory, blocked)

\* cellForItemAt: a cell of the pool is handed out for the row of p.
CellForItem(c, p) ==
    /\ person[c] = NoPerson
    /\ \A d \in Cells : person[d] # p
    /\ person' = [person EXCEPT ![c] = p]
    /\ view' = [view EXCEPT ![c] = SetupCustomImageView(@, p)]
    /\ late' = [late EXCEPT ![c] = view[c].loading]
    /\ failed' = failed \ {c}
    /\ UNCHANGED <<photographed, memory, blocked>>

\* The row is scrolled out of sight, or the view reloaded.
EndDisplaying(c) ==
    /\ person[c] # NoPerson
    /\ person' = [person EXCEPT ![c] = NoPerson]
    /\ UNCHANGED <<photographed, view, memory, blocked, late, failed>>

\* A load is answered, whatever row its cell is displayed for by now.
PhotoLoaded(c) ==
    /\ view[c].loading # NoLoad
    /\ memory' = memory \cup {view[c].loading}
    /\ view' = [view EXCEPT ![c] = Loaded(@)]
    /\ UNCHANGED <<photographed, person, blocked, late, failed>>

\* It fails, in passing or for good.
PhotoFailed(c) ==
    /\ view[c].loading # NoLoad
    /\ view' = [view EXCEPT ![c] = LoadFailed(@)]
    /\ \/ blocked' = blocked \cup {view[c].loading}
       \/ UNCHANGED blocked
    /\ failed' = failed \cup {c}
    /\ UNCHANGED <<photographed, person, memory, late>>

\* The memory cache drops a photo.
Purge(p) ==
    /\ p \in memory
    /\ memory' = memory \ {p}
    /\ UNCHANGED <<photographed, person, view, blocked, late, failed>>

Next ==
    \/ \E c \in Cells, p \in Persons : CellForItem(c, p)
    \/ \E c \in Cells : EndDisplaying(c)
    \/ \E c \in Cells : PhotoLoaded(c)
    \/ \E c \in Cells : PhotoFailed(c)
    \/ \E p \in Persons : Purge(p)

Spec == Init /\ [][Next]_vars

\* The image manager answers every load.
FairSpec == Spec /\ \A c \in Cells : WF_vars(PhotoLoaded(c) \/ PhotoFailed(c))

-----------------------------------------------------------------------------
(* Properties.                                                             *)

(* Every variable has its type; only photos that exist are loaded, kept or  *)
(* shown.                                                                   *)
TypeOK ==
    /\ photographed \subseteq Persons
    /\ person \in [Cells -> Persons \cup {NoPerson}]
    /\ view \in [Cells -> [shown : photographed \cup {Blank, Default},
                           loading : photographed \cup {NoLoad}]]
    /\ memory \subseteq photographed
    /\ blocked \subseteq photographed
    /\ late \in [Cells -> photographed \cup {NoLoad}]
    /\ failed \subseteq Cells

(* A row never shows the photo of another person, or the picture for people *)
(* without one, next to the name of a person with a photo, as               *)
(* setupCustomImageView cancels the load of the row before and clears the   *)
(* view.  In the row of a person without one, another's photo comes up only *)
(* if it was on its way when the cell was given the row, never because it   *)
(* was there before: imagem-perfil is set, but no load cancelled.           *)
RowsShowTheirPerson ==
    \A c \in Cells : person[c] # NoPerson =>
        view[c].shown \in IF person[c] \in photographed THEN {person[c], Blank}
                          ELSE {Default, late[c]}

(* A row given to a person with a photo ends up showing it, unless its own  *)
(* load fails or failed for good before: no load of an earlier row of the   *)
(* cell can keep the photo away.                                            *)
PhotosArrive ==
    \A c \in Cells, p \in Persons :
        [](person[c] = p /\ p \in photographed =>
           <>(person[c] # p \/ view[c].shown = p \/ c \in failed \/ p \in blocked))
=============================================================================
