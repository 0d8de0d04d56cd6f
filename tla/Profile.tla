------------------------------- MODULE Profile -------------------------------
(***************************************************************************)
(* The own profile: DetailUserViewController and its photo.                *)
(*                                                                         *)
(* A picked photo is shown at once and uploaded to imagens/perfil/<uid>.   *)
(* When the storage has it, its download URL is asked for, and the URL     *)
(* written to the profile document without a completion.  Nothing keeps    *)
(* the user from picking again, or from leaving, while an upload is on its *)
(* way; all uploads replace the same object.  Photos are numbered as they  *)
(* are picked, and a URL names the photo the object held when it was asked *)
(* for.                                                                    *)
(***************************************************************************)
EXTENDS Integers, Sequences, FiniteSetsExt, ImageView

CONSTANT
    MaxPicks  \* bound: photos picked

ASSUME ProfileAssumption ==
    /\ MaxPicks \in Nat \ {0}
    /\ {Blank, Default, NoLoad} \cap Nat = {}
    /\ Blank # Default

VARIABLES
    profiled, \* the profile document was stored at registration
    object,   \* storage: the photo held by imagens/perfil/<uid>.jpeg
    url,      \* the photo urlImage names in the document; 0: it has none
    picked,   \* photos picked so far
    uploads,  \* the uploads begun, by photo: how far, the URL, of this screen
    open,     \* the screen is there
    load,     \* recuperarDadosUsuario: "asked", "read" or "shown"
    dados,    \* the photo named by the document as it was read
    photo,    \* the image view imageUser
    modal,    \* what is presented: "none", "picker" or "alert"
    loose,    \* history: a load was not over when the last photo was picked
    crossed   \* history: two uploads were on their way at a time

storage == <<profiled, object, url>>
screen == <<open, load, dados, photo>>
vars == <<storage, picked, uploads, screen, modal, loose, crossed>>

-----------------------------------------------------------------------------
Photos == 1 .. MaxPicks
Picked == 1 .. picked

Quiet(i) == uploads[i].step \notin {"put", "stored", "url"}

Init ==
    /\ profiled \in BOOLEAN
    /\ object = 0
    /\ url = 0
    /\ picked = 0
    /\ uploads = << >>
    /\ open = TRUE
    /\ load = "asked"
    /\ dados = 0
    /\ photo = NewView
    /\ modal = "none"
    /\ loose = FALSE
    /\ crossed = FALSE

-----------------------------------------------------------------------------
(* Opening the screen and leaving it.                                      *)

\* viewDidLoad: a new screen asks for the document.
ViewDidLoad ==
    /\ ~open
    /\ open' = TRUE
    /\ load' = "asked"
    /\ photo' = NewView
    /\ loose' = FALSE
    /\ UNCHANGED <<storage, picked, uploads, dados, modal, crossed>>

\* actionBackButton: the uploads of the screen go on.
ActionBackButton ==
    /\ open /\ modal = "none"
    /\ open' = FALSE
    /\ uploads' = [i \in Picked |-> [uploads[i] EXCEPT !.here = FALSE]]
    /\ UNCHANGED <<storage, picked, load, dados, photo, modal, loose, crossed>>

\* The client reads the document, its own writes included.
DocumentRead ==
    /\ open /\ load = "asked" /\ profiled
    /\ load' = "read"
    /\ dados' = url
    /\ UNCHANGED <<storage, picked, uploads, open, photo, modal, loose, crossed>>

\* The document cannot be read, or has no data(): the screen stays as it is.
DocumentFailed ==
    /\ open /\ load = "asked"
    /\ load' = "shown"
    /\ UNCHANGED <<storage, picked, uploads, open, dados, photo, modal, loose, crossed>>

\* configDetailScreen, from the completion of getDocument.
ConfigDetailScreen ==
    /\ load = "read" /\ open
    /\ load' = "shown"
    /\ IF dados = 0 THEN photo' = SetImage(photo, Default)
       ELSE \E memory \in {{}, {dados}} :
              photo' = SetImageWithURL(photo, dados, memory, {})
    /\ UNCHANGED <<storage, picked, uploads, open, dados, modal, loose, crossed>>

\* The photo of the document arrives, or does not.
PhotoLoaded ==
    /\ open /\ photo.loading # NoLoad
    /\ photo' \in {Loaded(photo), LoadFailed(photo)}
    /\ UNCHANGED <<storage, picked, uploads, open, load, dados, modal, loose, crossed>>

-----------------------------------------------------------------------------
(* Picking a photo and uploading it.                                       *)

\* actionEditPhoto
ActionEditPhoto ==
    /\ open /\ modal = "none"
    /\ modal' = "picker"
    /\ UNCHANGED <<storage, picked, uploads, screen, loose, crossed>>

\* The picker is cancelled, or "Ok" tapped on the alert.
Dismiss ==
    /\ modal # "none"
    /\ modal' = "none"
    /\ UNCHANGED <<storage, picked, uploads, screen, loose, crossed>>

\* Mutant: the document is read again behind the picker.
ImagePickerReloading ==
    /\ modal = "picker" /\ picked < MaxPicks
    /\ picked' = picked + 1
    /\ photo' = SetImage(photo, picked + 1)
    /\ load' = "asked"
    /\ loose' = (load # "shown" \/ photo.loading # NoLoad)
    /\ uploads' = Append(uploads, [step |-> "put", url |-> 0, here |-> TRUE])
    /\ crossed' = (crossed \/ \E i \in Picked : ~Quiet(i))
    /\ modal' = "none"
    /\ UNCHANGED <<storage, open, dados>>

\* imagePickerController(didFinishPickingMediaWithInfo): the photo is shown,
\* its upload begun and the picker dismissed.
ImagePickerController ==
    /\ modal = "picker" /\ picked < MaxPicks
    /\ picked' = picked + 1
    /\ photo' = SetImage(photo, picked + 1)
    /\ loose' = (load # "shown" \/ photo.loading # NoLoad)
    /\ uploads' = Append(uploads, [step |-> "put", url |-> 0, here |-> TRUE])
    /\ crossed' = (crossed \/ \E i \in Picked : ~Quiet(i))
    /\ modal' = "none"
    /\ UNCHANGED <<storage, open, load, dados>>

\* putData is carried out.
PutData(i) ==
    /\ i \in Picked /\ uploads[i].step = "put"
    /\ object' = i
    /\ uploads' = [uploads EXCEPT ![i].step = "stored"]
    /\ UNCHANGED <<profiled, url, picked, screen, modal, loose, crossed>>

\* It fails, or was carried out but not confirmed: the alert is presented, unless
\* something is presented already or the screen has been left.
PutFailed(i) ==
    /\ i \in Picked /\ uploads[i].step = "put"
    /\ LET tell == modal = "none" /\ uploads[i].here IN
         /\ uploads' = [uploads EXCEPT ![i].step = IF tell THEN "told" ELSE "untold"]
         /\ modal' = IF tell THEN "alert" ELSE modal
    /\ object' \in {object, i}
    /\ UNCHANGED <<profiled, url, picked, screen, loose, crossed>>

\* Mutants: the URL is asked for along with the upload, or its lack not seen.
DownloadURLAtOnce(i) ==
    /\ i \in Picked /\ uploads[i].step = "put"
    /\ uploads' = [uploads EXCEPT ![i].step = "url", ![i].url = object]
    /\ UNCHANGED <<storage, picked, screen, modal, loose, crossed>>
DownloadURLUnchecked(i) ==
    /\ i \in Picked /\ uploads[i].step = "stored"
    /\ uploads' = [uploads EXCEPT ![i].step = "url", ![i].url = NoLoad]
    /\ UNCHANGED <<storage, picked, screen, modal, loose, crossed>>

\* downloadURL, asked for from the completion of putData.
DownloadURL(i) ==
    /\ i \in Picked /\ uploads[i].step = "stored"
    /\ uploads' = [uploads EXCEPT ![i].step = "url", ![i].url = object]
    /\ UNCHANGED <<storage, picked, screen, modal, loose, crossed>>

\* There is no URL: nothing happens.
DownloadURLFailed(i) ==
    /\ i \in Picked /\ uploads[i].step = "stored"
    /\ uploads' = [uploads EXCEPT ![i].step = "nourl"]
    /\ UNCHANGED <<storage, picked, screen, modal, loose, crossed>>

\* updateData with the URL, which reads of this device see at once.  A document
\* that does not exist is not made, and nobody told.
UpdateData(i) ==
    /\ i \in Picked /\ uploads[i].step = "url"
    /\ url' = IF profiled THEN uploads[i].url ELSE url
    /\ uploads' = [uploads EXCEPT ![i].step = IF profiled THEN "done" ELSE "refused"]
    /\ UNCHANGED <<profiled, object, picked, screen, modal, loose, crossed>>

\* The program is ended: no upload goes on without it.
Stopped ==
    /\ \E i \in Picked : ~Quiet(i)
    /\ uploads' = [i \in Picked |->
          [uploads[i] EXCEPT !.step = IF Quiet(i) THEN @ ELSE "stopped", !.here = FALSE]]
    /\ open' = FALSE
    /\ modal' = "none"
    /\ UNCHANGED <<storage, picked, load, dados, photo, loose, crossed>>

-----------------------------------------------------------------------------
Next ==
    \/ ViewDidLoad
    \/ ActionBackButton
    \/ DocumentRead
    \/ DocumentFailed
    \/ ConfigDetailScreen
    \/ PhotoLoaded
    \/ ActionEditPhoto
    \/ Dismiss
    \/ ImagePickerController
    \/ \E i \in Photos : PutData(i)
    \/ \E i \in Photos : PutFailed(i)
    \/ \E i \in Photos : DownloadURL(i)
    \/ \E i \in Photos : DownloadURLFailed(i)
    \/ \E i \in Photos : UpdateData(i)
    \/ Stopped

Spec == Init /\ [][Next]_vars

-----------------------------------------------------------------------------
(* Properties.                                                             *)

CutShort == {"told", "untold", "nourl", "refused", "stopped"}
Steps == {"put", "stored", "url", "done"} \cup CutShort

(* Every variable has its type; one upload for every photo picked, and one  *)
(* history for each.                                                        *)
TypeOK ==
    /\ profiled \in BOOLEAN
    /\ picked \in 0 .. MaxPicks
    /\ object \in 0 .. picked /\ url \in 0 .. picked /\ dados \in 0 .. picked
    /\ uploads \in Seq([step : Steps, url : 0 .. picked, here : BOOLEAN])
    /\ Len(uploads) = picked
    /\ open \in BOOLEAN
    /\ load \in {"asked", "read", "shown"}
    /\ photo \in [shown : Picked \cup {Blank, Default}, loading : Picked \cup {NoLoad}]
    /\ modal \in {"none", "picker", "alert"}
    /\ loose \in BOOLEAN /\ crossed \in BOOLEAN

(* As long as no two uploads were ever on their way at a time (nothing in   *)
(* imagePickerController waits for the one before, and the updateData of    *)
(* the two may come in either order), the document names the last photo     *)
(* whose upload went through, whatever failed in between; and, once nothing *)
(* is on its way, the photo the storage holds, unless that was put there by *)
(* an upload that did not get through updateData.                           *)
UrlIsLastSaved ==
    ~crossed =>
        /\ url = Max({0} \cup {i \in Picked : uploads[i].step = "done"})
        /\ (\A i \in Picked : Quiet(i)) =>
               url = object \/ uploads[object].step \in CutShort

(* A photo picked on this screen stays on it, unless recuperarDadosUsuario, *)
(* or the load of the photo it found, was not over when it was picked: then *)
(* the late answer puts the older photo in its place.                       *)
ScreenShowsLastPick ==
    open /\ picked > 0 /\ uploads[picked].here /\ ~loose => photo.shown = picked
=============================================================================
