------------------------------ MODULE Uploads ------------------------------
(***************************************************************************)
(* Uploaded files: a row in the database, an object in the store, and the  *)
(* stores, products and reviews that show it.  The browser puts the object *)
(* itself after a presign, and the server looks for it on complete.        *)
(***************************************************************************)
CONSTANTS
  Files,     \* ids of rows: a bound
  Owners,
  Entities,  \* what shows images: stores, products, reviews
  OwnerOf,   \* the owner of each entity
  Transfers, \* handlers that may be in flight at the same time
  Nobody

ASSUME UploadAssumption == /\ OwnerOf \in [Entities -> Owners]
                           /\ Nobody \notin Owners \cup Entities \cup Files

VARIABLES
  file,      \* UploadedFile rows
  object,    \* files whose object is in the store
  image,     \* the upload each entity shows
  hung,      \* entities that ever showed each file (history)
  transfer   \* handlers in flight

uploadVars == <<file, object, image, hung, transfer>>

-----------------------------------------------------------------------------
FileRows == [state : {"none", "PENDING", "READY"}, uploader : Owners \cup {Nobody},
             entity : Entities \cup {Nobody}]
TransferRows == [pc : {"idle", "row", "head", "ready", "show", "attach"},
                 file : Files \cup {Nobody}, who : Owners \cup {Nobody},
                 entity : Entities \cup {Nobody}]
NoTransfer == [pc |-> "idle", file |-> Nobody, who |-> Nobody, entity |-> Nobody]

UploadTypeOK ==
  /\ file \in [Files -> FileRows]
  /\ object \subseteq Files
  /\ image \in [Entities -> Files \cup {Nobody}]
  /\ hung \in [Files -> SUBSET Entities]
  /\ transfer \in [Transfers -> TransferRows]

UploadInit ==
  /\ file = [f \in Files |-> [state |-> "none", uploader |-> Nobody, entity |-> Nobody]]
  /\ object = {}
  /\ image = [e \in Entities |-> Nobody]
  /\ hung = [f \in Files |-> {}]
  /\ transfer = [x \in Transfers |-> NoTransfer]

-----------------------------------------------------------------------------
StartTransfer(x, pc, f, w, e) ==
  /\ transfer[x].pc = "idle"
  /\ transfer' = [transfer EXCEPT ![x] = [pc |-> pc, file |-> f, who |-> w, entity |-> e]]

ToCall(x, pc) == transfer' = [transfer EXCEPT ![x].pc = pc]
EndTransfer(x) == transfer' = [transfer EXCEPT ![x] = NoTransfer]

\* A fresh random key; the row is created last.
Presign(x, f, w) ==
  /\ transfer[x].pc = "idle"
  /\ file[f].state = "none" /\ f \notin object
  /\ file' = [file EXCEPT ![f] = [state |-> "PENDING", uploader |-> w, entity |-> Nobody]]
  /\ UNCHANGED <<object, image, hung, transfer>>

\* The browser, with the signed URL, before or after it completes, or never.
PutObject(f) ==
  /\ file[f].state # "none"
  /\ object' = object \cup {f}
  /\ UNCHANGED <<file, image, hung, transfer>>

\* A row that is READY is returned as it is.
Complete(x, f) ==
  /\ file[f].state = "PENDING"
  /\ StartTransfer(x, "head", f, file[f].uploader, Nobody)
  /\ UNCHANGED <<file, object, image, hung>>

\* Slip: the object is not looked for.
HeadAnything(x) ==
  /\ transfer[x].pc = "head"
  /\ ToCall(x, "ready")
  /\ UNCHANGED <<file, object, image, hung>>

HeadObject(x) ==
  /\ transfer[x].pc = "head"
  /\ IF transfer[x].file \in object THEN ToCall(x, "ready") ELSE EndTransfer(x)
  /\ UNCHANGED <<file, object, image, hung>>

MarkReady(x) ==
  /\ transfer[x].pc = "ready"
  /\ file' = [file EXCEPT ![transfer[x].file].state = "READY"]
  /\ EndTransfer(x)
  /\ UNCHANGED <<object, image, hung>>

\* The object first, then a READY row; without the row nobody finds the object.
DirectUpload(x, f, w) ==
  /\ file[f].state = "none" /\ f \notin object
  /\ \A y \in Transfers : transfer[y].file # f
  /\ object' = object \cup {f}
  /\ StartTransfer(x, "row", f, w, Nobody)
  /\ UNCHANGED <<file, image, hung>>

CreateReadyRow(x) ==
  LET q == transfer[x]
  IN /\ q.pc = "row"
     /\ file' = [file EXCEPT ![q.file] = [state |-> "READY", uploader |-> q.who,
                                          entity |-> Nobody]]
     /\ EndTransfer(x)
     /\ UNCHANGED <<object, image, hung>>

-----------------------------------------------------------------------------
(* Showing an upload: getReadyOrThrow, the entity's own write, attach.     *)

GetReady(x, f, e) ==
  /\ file[f].state = "READY"
  /\ file[f].uploader = OwnerOf[e]
  /\ StartTransfer(x, "show", f, OwnerOf[e], e)
  /\ UNCHANGED <<file, object, image, hung>>

ShowImage(x) ==
  LET q == transfer[x]
  IN /\ q.pc = "show"
     /\ image' = [image EXCEPT ![q.entity] = q.file]
     /\ hung' = [hung EXCEPT ![q.file] = @ \cup {q.entity}]
     /\ ToCall(x, "attach")
     /\ UNCHANGED <<file, object>>

\* An update by id: another entity's mark is overwritten.
Attach(x) ==
  LET q == transfer[x]
  IN /\ q.pc = "attach"
     /\ file' = [file EXCEPT ![q.file].entity = q.entity]
     /\ EndTransfer(x)
     /\ UNCHANGED <<object, image, hung>>

TransferDies(x) ==
  /\ transfer[x].pc # "idle"
  /\ EndTransfer(x)
  /\ UNCHANGED <<file, object, image, hung>>

UploadNext ==
  \/ \E x \in Transfers :
       \/ \E f \in Files : \/ Complete(x, f)
                           \/ \E w \in Owners : Presign(x, f, w) \/ DirectUpload(x, f, w)
                           \/ \E e \in Entities : GetReady(x, f, e)
       \/ HeadObject(x) \/ MarkReady(x) \/ CreateReadyRow(x)
       \/ ShowImage(x) \/ Attach(x) \/ TransferDies(x)
  \/ \E f \in Files : PutObject(f)

UploadSpec == UploadInit /\ [][UploadNext]_uploadVars

-----------------------------------------------------------------------------
\* Whatever fails in between and however calls overlap, what a page shows was
\* uploaded by its owner and is in the object store.
ImagesAreReady ==
  \A e \in Entities : image[e] # Nobody =>
    /\ file[image[e]].state = "READY"
    /\ file[image[e]].uploader = OwnerOf[e]
    /\ image[e] \in object

\* A file that is marked as an entity's was shown by it, at least once.
MarksAreTrue == \A f \in Files : file[f].entity # Nobody => file[f].entity \in hung[f]

\* What pages show and what files say of it agree with the object store.
UploadsStand == ImagesAreReady /\ MarksAreTrue

=============================================================================
