---------------------------- MODULE ProfileProofs ----------------------------
(***************************************************************************)
(* Theorems about the own profile and the uploads of its photo, for any    *)
(* number of photos picked.                                                *)
(***************************************************************************)
EXTENDS Profile, TLAPS

USE ProfileAssumption

Uploads == [step : Steps, url : 0 .. picked, here : BOOLEAN]

-----------------------------------------------------------------------------
(* The inductive invariant.                                                *)

\* Until two uploads cross, only that of the last photo may be on its way.
Alone == ~crossed => \A i \in Picked : i # picked => Quiet(i)

\* What such an upload has put into the storage is its own photo, and so is what
\* the URL it was given names.
Owned ==
    ~crossed => \A i \in Picked :
        /\ uploads[i].step \in {"stored", "url"} => object = i
        /\ uploads[i].step = "url" => uploads[i].url = i

\* The document names a photo whose upload went through, and none went through after.
LastSaved ==
    ~crossed =>
        /\ url # 0 => url \in Picked /\ uploads[url].step = "done"
        /\ \A i \in Picked : uploads[i].step = "done" => i <= url

\* The storage holds the photo the document names, or one whose upload has still to
\* get through updateData or never will.
Held ==
    ~crossed => \/ url = object
                \/ /\ object \in Picked
                   /\ uploads[object].step \in {"stored", "url"} \cup CutShort

UploadsOK == Alone /\ Owned /\ LastSaved /\ Held

\* Pickers, alerts and uploads belong to a screen that is there; while the last
\* photo picked on it is to stay, neither the document nor a photo may arrive.
ScreenOK ==
    /\ modal # "none" => open
    /\ \A i \in Picked : uploads[i].here => open
    /\ open /\ picked > 0 /\ uploads[picked].here /\ ~loose =>
           photo.shown = picked /\ load = "shown" /\ photo.loading = NoLoad

ProfileInv == TypeOK /\ UploadsOK /\ ScreenOK

-----------------------------------------------------------------------------
(* The largest number of a set, given one that is as large as any other.    *)
LEMMA MaxIs ==
    ASSUME NEW S \in SUBSET Nat, NEW x \in S, \A y \in S : y <= x
    PROVE  Max(S) = x
<1>1. \E m \in S : \A y \in S : m >= y
  OBVIOUS
<1>2. Max(S) \in S /\ \A y \in S : Max(S) >= y
  <2> DEFINE P(m) == \A y \in S : m >= y
  <2>1. \E m \in S : P(m)
    BY <1>1
  <2>2. Max(S) = CHOOSE m \in S : P(m)
    BY Zenon DEF Max
  <2> HIDE DEF P
  <2>3. Max(S) \in S /\ P(Max(S))
    BY <2>1, <2>2, Zenon
  <2> QED
    BY <2>3 DEF P
<1> DEFINE m == Max(S)
<1>3. m \in Nat /\ x \in Nat /\ m >= x /\ m <= x
  BY <1>2
<1> HIDE DEF m
<1>4. m = x
  BY <1>3
<1> QED
  BY <1>4 DEF m

(* There is one record for every photo picked.                              *)
LEMMA UploadsTyped ==
    ASSUME TypeOK
    PROVE  /\ uploads \in Seq(Uploads) /\ Len(uploads) = picked
           /\ \A i \in Picked : uploads[i] \in Uploads
<1>1. uploads \in Seq(Uploads) /\ Len(uploads) = picked /\ picked \in Nat
  BY DEF TypeOK, Uploads
<1> HIDE DEF Uploads
<1> QED
  BY <1>1 DEF Picked

(* One step of one upload: its own record changes, no other.                *)
LEMMA OneStep ==
    ASSUME TypeOK, NEW i \in Picked, NEW r \in Uploads,
           uploads' = [uploads EXCEPT ![i] = r]
    PROVE  /\ uploads' \in Seq(Uploads) /\ Len(uploads') = picked
           /\ uploads'[i] = r
           /\ \A j \in Picked : j # i => uploads'[j] = uploads[j]
BY UploadsTyped DEF TypeOK, Picked

-----------------------------------------------------------------------------
(* Every action keeps the invariant.                                       *)

(* Screens and loads leave the uploads and the storage alone.               *)
LEMMA UploadsKept ==
    ASSUME UploadsOK, UNCHANGED <<storage, picked, uploads, crossed>>
    PROVE  UploadsOK'
BY Zenon DEF UploadsOK, Alone, Owned, LastSaved, Held, storage, Picked, Quiet

(* A new screen knows nothing of earlier picks; answers to it come only     *)
(* while it waits for them.                                                *)
LEMMA ScreenStep ==
    ASSUME ProfileInv,
           \/ ViewDidLoad \/ DocumentRead \/ DocumentFailed \/ ConfigDetailScreen
           \/ PhotoLoaded \/ ActionEditPhoto \/ Dismiss
    PROVE  ProfileInv'
<1> USE DEF ProfileInv
<1>1. UNCHANGED <<storage, picked, uploads, crossed>>
  BY DEF ViewDidLoad, DocumentRead, DocumentFailed, ConfigDetailScreen, PhotoLoaded,
         ActionEditPhoto, Dismiss, screen
<1>2. UploadsOK'
  BY <1>1, UploadsKept
<1>3. /\ open' \in BOOLEAN /\ load' \in {"asked", "read", "shown"}
      /\ modal' \in {"none", "picker", "alert"} /\ loose' \in BOOLEAN
      /\ dados' \in 0 .. picked
  BY DEF ViewDidLoad, DocumentRead, DocumentFailed, ConfigDetailScreen, PhotoLoaded,
         ActionEditPhoto, Dismiss, screen, TypeOK
<1>4. photo' \in [shown : Picked \cup {Blank, Default}, loading : Picked \cup {NoLoad}]
  <2>1. CASE UNCHANGED photo
    BY <2>1 DEF TypeOK
  <2>2. CASE photo' = NewView
    BY <2>2 DEF NewView
  <2>3. CASE ConfigDetailScreen
    <3>1. dados \in 0 .. picked /\ picked \in Nat
      BY DEF TypeOK
    <3>2. CASE dados = 0
      BY <2>3, <3>2 DEF ConfigDetailScreen, SetImage, TypeOK
    <3>3. CASE dados # 0
      <4>1. dados \in Picked
        BY <3>1, <3>3 DEF Picked
      <4>2. \E memory \in {{}, {dados}} : photo' = SetImageWithURL(photo, dados, memory, {})
        BY <2>3, <3>3 DEF ConfigDetailScreen
      <4> QED
        BY <4>1, <4>2 DEF SetImageWithURL
    <3> QED
      BY <3>2, <3>3
  <2>4. CASE PhotoLoaded
    BY <2>4 DEF PhotoLoaded, Loaded, LoadFailed, TypeOK
  <2> QED
    BY <2>1, <2>2, <2>3, <2>4 DEF ViewDidLoad, DocumentRead, DocumentFailed,
       ActionEditPhoto, Dismiss, screen
<1>5. TypeOK'
  BY <1>1, <1>3, <1>4 DEF TypeOK, storage, Picked
<1>6. ScreenOK'
  <2>1. \A i \in Picked' : uploads'[i].here => open'
    BY <1>1 DEF ViewDidLoad, DocumentRead, DocumentFailed, ConfigDetailScreen, PhotoLoaded,
       ActionEditPhoto, Dismiss, screen, ScreenOK, Picked
  <2>2. modal' # "none" => open'
    BY DEF ViewDidLoad, DocumentRead, DocumentFailed, ConfigDetailScreen, PhotoLoaded,
       ActionEditPhoto, Dismiss, screen, ScreenOK
  <2>3. ASSUME open', picked' > 0, uploads'[picked'].here, ~loose'
        PROVE  photo'.shown = picked' /\ load' = "shown" /\ photo'.loading = NoLoad
    <3>1. picked \in Picked /\ uploads[picked].here
      BY <1>1, <2>3 DEF TypeOK, Picked
    <3>2. open /\ ~ViewDidLoad
      BY <3>1 DEF ScreenOK, ViewDidLoad
    <3>3. ~loose
      BY <2>3, <3>2 DEF DocumentRead, DocumentFailed, ConfigDetailScreen, PhotoLoaded,
         ActionEditPhoto, Dismiss
    <3>4. photo.shown = picked /\ load = "shown" /\ photo.loading = NoLoad
      BY <1>1, <2>3, <3>1, <3>2, <3>3 DEF ScreenOK
    <3>5. UNCHANGED <<photo, load>>
      BY <3>2, <3>4 DEF DocumentRead, DocumentFailed, ConfigDetailScreen, PhotoLoaded,
         ActionEditPhoto, Dismiss, screen
    <3> QED
      BY <1>1, <3>4, <3>5
  <2> QED
    BY <2>1, <2>2, <2>3 DEF ScreenOK
<1> QED
  BY <1>2, <1>5, <1>6

(* Leaving the screen, or the program: what goes on goes on without it.     *)
LEMMA LeaveStep ==
    ASSUME ProfileInv, ActionBackButton \/ Stopped
    PROVE  ProfileInv'
<1> USE DEF ProfileInv
<1>1. /\ UNCHANGED <<storage, picked, load, dados, photo, loose, crossed>>
      /\ open' = FALSE /\ modal' = "none"
  BY DEF ActionBackButton, Stopped
<1>2. PICK s \in [Picked -> Steps] :
        /\ uploads' = [i \in Picked |-> [uploads[i] EXCEPT !.step = s[i], !.here = FALSE]]
        /\ \A i \in Picked :
             \/ s[i] = uploads[i].step
             \/ ~Quiet(i) /\ s[i] = "stopped"
  <2>0. \A i \in Picked : uploads[i] \in Uploads
    BY UploadsTyped
  <2>1. CASE ActionBackButton
    <3> DEFINE t == [i \in Picked |-> uploads[i].step]
    <3>1. t \in [Picked -> Steps]
      BY <2>0 DEF Uploads
    <3>2. \A i \in Picked : [uploads[i] EXCEPT !.here = FALSE]
                              = [uploads[i] EXCEPT !.step = t[i], !.here = FALSE]
      BY <2>0 DEF Uploads
    <3>3. uploads' = [i \in Picked |-> [uploads[i] EXCEPT !.step = t[i], !.here = FALSE]]
      BY <2>1, <3>2 DEF ActionBackButton
    <3> QED
      BY <3>1, <3>3
  <2>2. CASE Stopped
    <3> DEFINE t == [i \in Picked |-> IF Quiet(i) THEN uploads[i].step ELSE "stopped"]
    <3>1. t \in [Picked -> Steps]
      BY <2>0 DEF Uploads, Steps, CutShort
    <3>2. uploads' = [i \in Picked |-> [uploads[i] EXCEPT !.step = t[i], !.here = FALSE]]
      BY <2>2 DEF Stopped
    <3> QED
      BY <3>1, <3>2
  <2> QED
    BY <2>1, <2>2
<1>3. /\ uploads' \in Seq(Uploads) /\ Len(uploads') = picked
      /\ \A i \in Picked : /\ uploads'[i].step = s[i]
                           /\ uploads'[i].url = uploads[i].url
                           /\ uploads'[i].here = FALSE
  <2>1. \A i \in Picked : uploads[i] \in Uploads /\ s[i] \in Steps
    BY UploadsTyped
  <2>2. \A i \in Picked : [uploads[i] EXCEPT !.step = s[i], !.here = FALSE] \in Uploads
    BY <2>1 DEF Uploads
  <2>3. picked \in Nat
    BY DEF TypeOK
  <2>4. uploads' \in [1 .. picked -> Uploads]
    BY <1>2, <2>2 DEF Picked
  <2>5. uploads' \in Seq(Uploads) /\ Len(uploads') = picked
    <3> HIDE DEF Uploads
    <3> QED
      BY <2>3, <2>4
  <2> QED
    BY <1>2, <2>1, <2>5 DEF Uploads
<1>4. TypeOK'
  BY <1>1, <1>3 DEF TypeOK, Uploads, storage, Picked
<1>5. \A i \in Picked : \/ uploads'[i].step = uploads[i].step
                        \/ /\ uploads[i].step \in {"put", "stored", "url"}
                           /\ uploads'[i].step = "stopped"
  BY <1>2, <1>3 DEF Quiet
<1>6. UploadsOK'
  <2>1. Alone'
    BY <1>1, <1>5 DEF Alone, UploadsOK, Quiet, Picked
  <2>2. Owned'
    BY <1>1, <1>3, <1>5 DEF Owned, UploadsOK, storage, Picked
  <2>3. LastSaved'
    BY <1>1, <1>5 DEF LastSaved, UploadsOK, storage, Picked
  <2>4. Held'
    BY <1>1, <1>5 DEF Held, UploadsOK, storage, Picked, CutShort
  <2> QED
    BY <2>1, <2>2, <2>3, <2>4 DEF UploadsOK
<1>7. ScreenOK'
  BY <1>1, <1>3 DEF ScreenOK, Picked
<1> QED
  BY <1>4, <1>6, <1>7

(* A photo is picked: shown at once, and its upload begun whether or not    *)
(* another is on its way.                                                  *)
LEMMA PickStep ==
    ASSUME ProfileInv, ImagePickerController
    PROVE  ProfileInv'
<1> USE DEF ProfileInv
<1> DEFINE n == picked + 1
           r == [step |-> "put", url |-> 0, here |-> TRUE]
<1>1. /\ picked' = n /\ uploads' = Append(uploads, r)
      /\ photo' = SetImage(photo, n)
      /\ crossed' = (crossed \/ \E i \in Picked : ~Quiet(i))
      /\ loose' = (load # "shown" \/ photo.loading # NoLoad)
      /\ modal' = "none"
      /\ UNCHANGED <<storage, open, load, dados>>
  BY DEF ImagePickerController
<1>2. picked \in Nat /\ n \in Nat /\ n <= MaxPicks
  BY DEF ImagePickerController, TypeOK
<1>3. Picked' = Picked \cup {n} /\ n \notin Picked
  BY <1>1, <1>2 DEF Picked
<1>4. /\ uploads' \in Seq(Uploads') /\ Len(uploads') = n
      /\ uploads'[n] = r
      /\ \A i \in Picked : uploads'[i] = uploads[i]
  <2>1. r \in Uploads'
    BY <1>1, <1>2 DEF Uploads, Steps
  <2>2. uploads \in Seq(Uploads') /\ Len(uploads) = picked
    <3>1. Uploads \subseteq Uploads'
      BY <1>1, <1>2 DEF Uploads
    <3>2. uploads \in Seq(Uploads) /\ Len(uploads) = picked
      BY DEF TypeOK, Uploads
    <3> HIDE DEF Uploads
    <3> QED
      BY <3>1, <3>2
  <2> HIDE DEF r, Uploads
  <2> QED
    BY <1>1, <1>2, <2>1, <2>2 DEF Picked
<1>5. TypeOK'
  <2>1. photo' \in [shown : Picked' \cup {Blank, Default}, loading : Picked' \cup {NoLoad}]
    BY <1>1, <1>3 DEF SetImage, TypeOK
  <2>2. /\ object' \in 0 .. picked' /\ url' \in 0 .. picked' /\ dados' \in 0 .. picked'
        /\ picked' \in 0 .. MaxPicks
    BY <1>1, <1>2 DEF TypeOK, storage
  <2>3. uploads' \in Seq([step : Steps, url : 0 .. picked', here : BOOLEAN])
    BY <1>4 DEF Uploads
  <2> QED
    BY <1>1, <1>4, <2>1, <2>2, <2>3 DEF TypeOK, storage
<1>6. ~crossed' => ~crossed /\ \A i \in Picked : Quiet(i)
  BY <1>1 DEF TypeOK
<1>7. r.step = "put" /\ r.here /\ r.url = 0
  OBVIOUS
<1> HIDE DEF n, r
<1>8. UploadsOK'
  <2>1. Alone'
    BY <1>1, <1>3, <1>4, <1>6 DEF Alone, Quiet
  <2>2. Owned'
    <3> SUFFICES ASSUME ~crossed', NEW j \in Picked'
                 PROVE  /\ uploads'[j].step \in {"stored", "url"} => object' = j
                        /\ uploads'[j].step = "url" => uploads'[j].url = j
      BY DEF Owned
    <3>1. CASE j = n
      BY <1>4, <1>7, <3>1
    <3>2. CASE j # n
      BY <1>1, <1>3, <1>4, <1>6, <3>2 DEF Owned, UploadsOK, storage
    <3> QED
      BY <3>1, <3>2
  <2>3. LastSaved'
    BY <1>1, <1>3, <1>4, <1>6, <1>7 DEF LastSaved, UploadsOK, storage
  <2>4. Held'
    BY <1>1, <1>3, <1>4, <1>6 DEF Held, UploadsOK, storage
  <2> QED
    BY <2>1, <2>2, <2>3, <2>4 DEF UploadsOK
<1>9. ScreenOK'
  <2>1. open
    BY DEF ImagePickerController, ScreenOK
  <2>2. photo'.shown = n /\ photo'.loading = photo.loading
    BY <1>1 DEF SetImage, TypeOK
  <2> QED
    BY <1>1, <2>1, <2>2 DEF ScreenOK
<1> QED
  BY <1>5, <1>8, <1>9

(* A step of an upload leaves the screen as it is, but for an alert that is *)
(* presented only by the screen that began it.                             *)
LEMMA UploadScreen ==
    ASSUME ProfileInv, NEW i \in Picked, NEW r \in Uploads,
           uploads' = [uploads EXCEPT ![i] = r],
           r.here = uploads[i].here,
           UNCHANGED <<picked, screen, loose>>,
           modal' = modal \/ uploads[i].here
    PROVE  ScreenOK'
<1>1. \A j \in Picked : uploads'[j].here = uploads[j].here
  BY OneStep DEF ProfileInv
<1>2. picked > 0 => picked \in Picked
  BY DEF ProfileInv, TypeOK, Picked
<1>3. Picked' = Picked
  BY DEF Picked
<1>4. ScreenOK
  BY DEF ProfileInv
<1>5. \A j \in Picked' : uploads'[j].here => open'
  BY <1>1, <1>3, <1>4 DEF ScreenOK, screen
<1>6. modal' # "none" => open'
  BY <1>4 DEF ScreenOK, screen
<1>7. open' /\ picked' > 0 /\ uploads'[picked'].here /\ ~loose' =>
           photo'.shown = picked' /\ load' = "shown" /\ photo'.loading = NoLoad
  BY <1>1, <1>2, <1>4 DEF ScreenOK, screen
<1> QED
  BY <1>5, <1>6, <1>7 DEF ScreenOK

(* putData is carried out, or fails, carried out or not.                    *)
LEMMA PutStep ==
    ASSUME ProfileInv, NEW i \in Photos, PutData(i) \/ PutFailed(i)
    PROVE  ProfileInv'
<1> USE DEF ProfileInv
<1>1. /\ i \in Picked /\ uploads[i].step = "put" /\ object' \in {object, i}
      /\ UNCHANGED <<profiled, url, picked, screen, loose, crossed>>
  BY DEF PutData, PutFailed
<1>2. PICK s \in {"stored", "told", "untold"} :
        /\ uploads' = [uploads EXCEPT ![i].step = s]
        /\ s = "stored" => object' = i /\ modal' = modal
        /\ s = "told" => modal' = "alert" /\ modal = "none" /\ uploads[i].here
        /\ s = "untold" => modal' = modal
  <2>1. CASE PutData(i)
    <3> WITNESS "stored" \in {"stored", "told", "untold"}
    <3> QED
      BY <2>1 DEF PutData
  <2>2. CASE PutFailed(i)
    BY <2>2 DEF PutFailed
  <2> QED
    BY <2>1, <2>2
<1> DEFINE r == [uploads[i] EXCEPT !.step = s]
<1>3. uploads[i] \in Uploads
  BY <1>1, UploadsTyped
<1>4. r \in Uploads /\ r.step = s /\ r.url = uploads[i].url /\ r.here = uploads[i].here
  BY <1>3 DEF Uploads, Steps, CutShort
<1>5. uploads' = [uploads EXCEPT ![i] = r]
  BY <1>2
<1> HIDE DEF r
<1>6. /\ uploads' \in Seq(Uploads) /\ Len(uploads') = picked
      /\ uploads'[i] = r
      /\ \A j \in Picked : j # i => uploads'[j] = uploads[j]
  BY <1>1, <1>4, <1>5, OneStep
<1>7. TypeOK'
  <2>1. object' \in 0 .. picked
    BY <1>1 DEF TypeOK, Picked
  <2>2. modal' \in {"none", "picker", "alert"}
    BY <1>2 DEF TypeOK
  <2> QED
    BY <1>1, <1>6, <2>1, <2>2 DEF TypeOK, Uploads, screen, Picked
<1>8. UploadsOK'
  <2>1. Alone'
    BY <1>1, <1>4, <1>6 DEF Alone, UploadsOK, Quiet, Picked
  <2>2. Owned'
    <3> SUFFICES ASSUME ~crossed', NEW j \in Picked
                 PROVE  /\ uploads'[j].step \in {"stored", "url"} => object' = j
                        /\ uploads'[j].step = "url" => uploads'[j].url = j
      BY <1>1 DEF Owned, Picked
    <3>1. i = picked
      BY <1>1 DEF UploadsOK, Alone, Quiet
    <3>2. CASE j = i
      BY <1>2, <1>4, <1>6, <3>2
    <3>3. CASE j # i
      BY <1>1, <1>6, <3>1, <3>3 DEF UploadsOK, Alone, Quiet
    <3> QED
      BY <3>2, <3>3
  <2>3. LastSaved'
    BY <1>1, <1>4, <1>6 DEF LastSaved, UploadsOK, Picked
  <2>4. Held'
    BY <1>1, <1>2, <1>4, <1>6 DEF Held, UploadsOK, Picked, CutShort
  <2> QED
    BY <2>1, <2>2, <2>3, <2>4 DEF UploadsOK
<1>9. ScreenOK'
  <2>1. modal' = modal \/ uploads[i].here
    BY <1>2
  <2> QED
    BY <1>1, <1>4, <1>5, <2>1, UploadScreen
<1> QED
  BY <1>7, <1>8, <1>9

(* The download URL names what the storage holds, or there is none.         *)
LEMMA UrlStep ==
    ASSUME ProfileInv, NEW i \in Photos, DownloadURL(i) \/ DownloadURLFailed(i)
    PROVE  ProfileInv'
<1> USE DEF ProfileInv
<1>1. /\ i \in Picked /\ uploads[i].step = "stored"
      /\ UNCHANGED <<storage, picked, screen, modal, loose, crossed>>
  BY DEF DownloadURL, DownloadURLFailed
<1>2. uploads[i] \in Uploads
  BY <1>1, UploadsTyped
<1>3. PICK r \in Uploads :
        /\ uploads' = [uploads EXCEPT ![i] = r]
        /\ r.here = uploads[i].here
        /\ \/ r.step = "url" /\ r.url = object
           \/ r.step = "nourl"
  <2>1. CASE DownloadURL(i)
    <3> DEFINE q == [uploads[i] EXCEPT !.step = "url", !.url = object]
    <3>1. /\ q \in Uploads /\ q.here = uploads[i].here
          /\ q.step = "url" /\ q.url = object
      BY <1>2 DEF Uploads, Steps, TypeOK
    <3>2. uploads' = [uploads EXCEPT ![i] = q]
      BY <1>1, <1>2, <2>1 DEF DownloadURL, TypeOK, Picked, Uploads
    <3> QED
      BY <3>1, <3>2
  <2>2. CASE DownloadURLFailed(i)
    <3> DEFINE q == [uploads[i] EXCEPT !.step = "nourl"]
    <3>1. q \in Uploads /\ q.here = uploads[i].here /\ q.step = "nourl"
      BY <1>2 DEF Uploads, Steps, CutShort
    <3>2. uploads' = [uploads EXCEPT ![i] = q]
      BY <2>2 DEF DownloadURLFailed
    <3> QED
      BY <3>1, <3>2
  <2> QED
    BY <2>1, <2>2
<1>4. /\ uploads' \in Seq(Uploads) /\ Len(uploads') = picked
      /\ uploads'[i] = r
      /\ \A j \in Picked : j # i => uploads'[j] = uploads[j]
  BY <1>1, <1>3, OneStep
<1>5. TypeOK'
  BY <1>1, <1>4 DEF TypeOK, Uploads, screen, storage, Picked
<1>6. UploadsOK'
  <2>1. Alone'
    BY <1>1, <1>3, <1>4 DEF Alone, UploadsOK, Quiet, Picked
  <2>2. Owned'
    <3> SUFFICES ASSUME ~crossed', NEW j \in Picked
                 PROVE  /\ uploads'[j].step \in {"stored", "url"} => object' = j
                        /\ uploads'[j].step = "url" => uploads'[j].url = j
      BY <1>1 DEF Owned, Picked
    <3>1. object = i /\ ~crossed /\ object' = object
      BY <1>1 DEF UploadsOK, Owned, storage
    <3>2. CASE j = i
      BY <1>3, <1>4, <3>1, <3>2
    <3>3. CASE j # i
      BY <1>4, <3>1, <3>3 DEF UploadsOK, Owned
    <3> QED
      BY <3>2, <3>3
  <2>3. LastSaved'
    BY <1>1, <1>3, <1>4 DEF LastSaved, UploadsOK, Picked, storage
  <2>4. Held'
    BY <1>1, <1>3, <1>4 DEF Held, UploadsOK, Picked, CutShort, storage
  <2> QED
    BY <2>1, <2>2, <2>3, <2>4 DEF UploadsOK
<1>7. ScreenOK'
  BY <1>1, <1>3, UploadScreen
<1> QED
  BY <1>5, <1>6, <1>7

(* updateData names the photo in the document, if there is one.             *)
LEMMA UpdateStep ==
    ASSUME ProfileInv, NEW i \in Photos, UpdateData(i)
    PROVE  ProfileInv'
<1> USE DEF ProfileInv
<1> DEFINE s == IF profiled THEN "done" ELSE "refused"
           r == [uploads[i] EXCEPT !.step = s]
<1>1. /\ i \in Picked /\ uploads[i].step = "url"
      /\ url' = IF profiled THEN uploads[i].url ELSE url
      /\ uploads' = [uploads EXCEPT ![i] = r]
      /\ UNCHANGED <<profiled, object, picked, screen, modal, loose, crossed>>
  BY DEF UpdateData
<1>2. uploads[i] \in Uploads
  BY <1>1, UploadsTyped
<1>3. r \in Uploads /\ r.step = s /\ r.here = uploads[i].here /\ r.url = uploads[i].url
  BY <1>2 DEF Uploads, Steps, CutShort
<1>4. /\ s \in {"done", "refused"}
      /\ s = "done" => url' = uploads[i].url
      /\ s = "refused" => url' = url
  BY <1>1
<1> HIDE DEF r, s
<1>5. /\ uploads' \in Seq(Uploads) /\ Len(uploads') = picked
      /\ uploads'[i] = r
      /\ \A j \in Picked : j # i => uploads'[j] = uploads[j]
  BY <1>1, <1>3, OneStep
<1>6. TypeOK'
  <2>1. url' \in 0 .. picked
    BY <1>2, <1>4 DEF TypeOK, Uploads
  <2> QED
    BY <1>1, <1>5, <2>1 DEF TypeOK, Uploads, screen, Picked
<1>7. UploadsOK'
  <2>1. Alone'
    BY <1>1, <1>3, <1>4, <1>5 DEF Alone, UploadsOK, Quiet, Picked
  <2>2. ASSUME ~crossed' PROVE /\ ~crossed /\ i = picked /\ object = i
                               /\ uploads[i].url = i
    BY <1>1, <2>2 DEF UploadsOK, Alone, Owned, Quiet
  <2>3. Owned'
    <3> SUFFICES ASSUME ~crossed', NEW j \in Picked
                 PROVE  /\ uploads'[j].step \in {"stored", "url"} => object' = j
                        /\ uploads'[j].step = "url" => uploads'[j].url = j
      BY <1>1 DEF Owned, Picked
    <3>1. CASE j = i
      BY <1>3, <1>4, <1>5, <3>1
    <3>2. CASE j # i
      BY <1>1, <1>5, <3>2 DEF UploadsOK, Owned
    <3> QED
      BY <3>1, <3>2
  <2>4. LastSaved'
    <3> SUFFICES ASSUME ~crossed'
                 PROVE  /\ url' # 0 => url' \in Picked /\ uploads'[url'].step = "done"
                        /\ \A j \in Picked : uploads'[j].step = "done" => j <= url'
      BY <1>1 DEF LastSaved, Picked
    <3>1. CASE s = "done"
      <4>1. url' = i /\ uploads'[i].step = "done" /\ \A j \in Picked : j <= i
        BY <1>3, <1>4, <1>5, <2>2, <3>1 DEF Picked, TypeOK
      <4> QED
        BY <1>1, <4>1
    <3>2. CASE s = "refused"
      <4>1. url' = url /\ uploads'[i].step = "refused"
        BY <1>3, <1>4, <1>5, <3>2
      <4> QED
        BY <1>1, <1>5, <2>2, <4>1 DEF UploadsOK, LastSaved
    <3> QED
      BY <1>4, <3>1, <3>2
  <2>5. Held'
    <3> SUFFICES ASSUME ~crossed'
                 PROVE  \/ url' = object
                        \/ /\ object \in Picked
                           /\ uploads'[object].step \in {"stored", "url"} \cup CutShort
      BY <1>1 DEF Held, Picked
    <3> QED
      BY <1>1, <1>3, <1>4, <1>5, <2>2 DEF CutShort
  <2> QED
    BY <2>1, <2>3, <2>4, <2>5 DEF UploadsOK
<1>8. ScreenOK'
  BY <1>1, <1>3, UploadScreen
<1> QED
  BY <1>6, <1>7, <1>8

-----------------------------------------------------------------------------
(* The theorems.                                                           *)

(* Screen, uploads and document are as ProfileInv says in every state.      *)
LEMMA Invariance == Spec => []ProfileInv
<1>1. Init => ProfileInv
  <2> SUFFICES ASSUME Init PROVE ProfileInv
    OBVIOUS
  <2>1. Picked = {} /\ picked = 0
    BY DEF Init, Picked
  <2>2. TypeOK
    <3>1. uploads \in Seq([step : Steps, url : 0 .. picked, here : BOOLEAN])
      BY DEF Init
    <3>2. photo \in [shown : Picked \cup {Blank, Default}, loading : Picked \cup {NoLoad}]
      BY DEF Init, NewView
    <3>3. /\ picked \in 0 .. MaxPicks /\ Len(uploads) = picked
          /\ object \in 0 .. picked /\ url \in 0 .. picked /\ dados \in 0 .. picked
      BY DEF Init
    <3>4. /\ profiled \in BOOLEAN /\ open \in BOOLEAN /\ load \in {"asked", "read", "shown"}
          /\ modal \in {"none", "picker", "alert"} /\ loose \in BOOLEAN /\ crossed \in BOOLEAN
      BY DEF Init
    <3> QED
      BY <3>1, <3>2, <3>3, <3>4, Zenon DEF TypeOK
  <2>3. UploadsOK
    BY <2>1 DEF Init, UploadsOK, Alone, Owned, LastSaved, Held
  <2>4. ScreenOK
    BY <2>1 DEF Init, ScreenOK
  <2> QED
    BY <2>2, <2>3, <2>4 DEF ProfileInv
<1>2. ProfileInv /\ [Next]_vars => ProfileInv'
  <2> SUFFICES ASSUME ProfileInv, [Next]_vars PROVE ProfileInv'
    OBVIOUS
  <2>1. CASE UNCHANGED vars
    <3>1. TypeOK'
      BY <2>1 DEF vars, storage, screen, ProfileInv, TypeOK, Picked
    <3>2. UploadsOK'
      BY <2>1, UploadsKept DEF vars, ProfileInv
    <3>3. ScreenOK'
      BY <2>1 DEF vars, screen, ProfileInv, ScreenOK, Picked
    <3> QED
      BY <3>1, <3>2, <3>3 DEF ProfileInv
  <2>2. CASE \/ ViewDidLoad \/ DocumentRead \/ DocumentFailed \/ ConfigDetailScreen
             \/ PhotoLoaded \/ ActionEditPhoto \/ Dismiss
    BY <2>2, ScreenStep
  <2>3. CASE ActionBackButton \/ Stopped
    BY <2>3, LeaveStep
  <2>4. CASE ImagePickerController
    BY <2>4, PickStep
  <2>5. CASE \E i \in Photos : PutData(i) \/ PutFailed(i)
    BY <2>5, PutStep
  <2>6. CASE \E i \in Photos : DownloadURL(i) \/ DownloadURLFailed(i)
    BY <2>6, UrlStep
  <2>7. CASE \E i \in Photos : UpdateData(i)
    BY <2>7, UpdateStep
  <2> QED
    BY <2>1, <2>2, <2>3, <2>4, <2>5, <2>6, <2>7 DEF Next
<1> QED
  BY <1>1, <1>2, PTL DEF Spec

(* Every variable of the profile screen and its uploads keeps its type.     *)
THEOREM TypeCorrect == Spec => []TypeOK
<1>1. ProfileInv => TypeOK
  BY DEF ProfileInv
<1> QED
  BY <1>1, Invariance, PTL

(* As long as no two uploads crossed, the profile document names the last   *)
(* photo whose upload went through, whatever failed between; and, nothing   *)
(* being on its way, the photo the storage holds unless that one was cut    *)
(* short of updateData.                                                    *)
THEOREM DocumentNamesLastSaved == Spec => []UrlIsLastSaved
<1>1. ProfileInv => UrlIsLastSaved
  <2> SUFFICES ASSUME ProfileInv, ~crossed
               PROVE  /\ url = Max({0} \cup {i \in Picked : uploads[i].step = "done"})
                      /\ (\A i \in Picked : Quiet(i)) =>
                             url = object \/ uploads[object].step \in CutShort
    BY Zenon DEF UrlIsLastSaved
  <2> DEFINE S == {0} \cup {i \in Picked : uploads[i].step = "done"}
  <2>1. S \in SUBSET Nat /\ url \in S /\ \A y \in S : y <= url
    BY DEF ProfileInv, UploadsOK, LastSaved, TypeOK, Picked
  <2> HIDE DEF S
  <2>2. Max(S) = url
    BY <2>1, MaxIs
  <2>3. (\A i \in Picked : Quiet(i)) =>
             url = object \/ uploads[object].step \in CutShort
    BY DEF ProfileInv, UploadsOK, Held, Quiet
  <2> QED
    BY <2>2, <2>3 DEF S
<1> QED
  BY <1>1, Invariance, PTL

(* A photo picked on a screen stays on it unless the document or an older   *)
(* photo was still to arrive when it was picked.                            *)
THEOREM LastPickStays == Spec => []ScreenShowsLastPick
<1>1. ProfileInv => ScreenShowsLastPick
  BY DEF ProfileInv, ScreenOK, ScreenShowsLastPick
<1> QED
  BY <1>1, Invariance, PTL
=============================================================================
