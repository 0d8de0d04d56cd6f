----------------------------- MODULE MCCellReuse -----------------------------
(* A few cells for rows of three persons, with and without photos.          *)
EXTENDS CellReuse

CONSTANTS anna, bob, carla, top, bottom

=============================================================================
