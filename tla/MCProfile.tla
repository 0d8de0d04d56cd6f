------------------------------ MODULE MCProfile ------------------------------
(* One user, who picks up to three photos.                                  *)
EXTENDS Profile
=============================================================================
