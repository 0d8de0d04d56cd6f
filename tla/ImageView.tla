------------------------------ MODULE ImageView ------------------------------
(***************************************************************************)
(* A UIImageView with SDWebImage's sd_setImage: what it shows and the one  *)
(* load it waits for.  Requests and answers run on the main queue, and an  *)
(* answer looks for the cancellation there, so that a cancelled load never *)
(* sets an image.                                                          *)
(***************************************************************************)
CONSTANTS
    Blank,   \* no image
    NoLoad,  \* no load on its way
    Default  \* imagem-perfil

NewView == [shown |-> Blank, loading |-> NoLoad]

\* imageView.image = image: a load on its way is left alone.
SetImage(v, image) == [v EXCEPT !.shown = image]

\* Mutant: the load before is not cancelled, and the new one not begun.
SetImageWithURLKeeping(v, url, memory, blocked) ==
    [shown |-> Blank, loading |-> IF v.loading = NoLoad THEN url ELSE v.loading]

\* sd_setImage(with: url): the load before is cancelled and the image cleared
\* for want of a placeholder.  A url that once failed for good is not tried
\* again; otherwise the new image is shown at once if it is in memory.
SetImageWithURL(v, url, memory, blocked) ==
    IF url \in blocked THEN [shown |-> Blank, loading |-> NoLoad]
    ELSE IF url \in memory THEN [shown |-> url, loading |-> NoLoad]
    ELSE [shown |-> Blank, loading |-> url]

\* The load is answered with its image, or with an error, which sets nothing.
Loaded(v) == [shown |-> v.loading, loading |-> NoLoad]
LoadFailed(v) == [v EXCEPT !.loading = NoLoad]
=============================================================================
