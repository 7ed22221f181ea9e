--------------------------------- MODULE Uploads ---------------------------------
(***************************************************************************)
(* Uploaded files: the images of groups, each under a name of its own, and  *)
(* the files of resources, each at the place of its resource.  A request    *)
(* changes the files before it commits what the database says of them.      *)
(*                                                                         *)
(* A name and a content is the number of the upload, from 1; 0 is a name    *)
(* that no upload has.  Two updates of one resource wait for each other at  *)
(* the flush, which comes before the file is written; those of a group do   *)
(* not.  A form may hold any name, that of a file that is gone since it was *)
(* read among them.                                                        *)
(***************************************************************************)
EXTENDS Naturals

CONSTANTS
    Groups, Resources, Workers,
    MaxUploads,    \* bound on the uploads
    None, Link     \* no url, and the url of something elsewhere

VARIABLES
    image,     \* image_url of each group: None, Link or the name of a file
    kind,      \* url_type of each resource: "link" or "upload"
    file,      \* the upload the url of a resource is of, committed
    images,    \* the files in storage/uploads/group
    stored,    \* what is stored for each resource, None without a file
    uploads,   \* the uploads so far
    pc, req,   \* of each worker
    torn,      \* objects of which a request changed the files or the row, and not both
    named,     \* history: files of groups that a request named without uploading them
    edited     \* history: resources of which a request changed the url and not the file

vars == <<image, kind, file, images, stored, uploads, pc, req, torn, named, edited>>

NoRequest == [what |-> "none"]

TypeOK ==
    /\ \A g \in Groups : image[g] \in {None, Link} \/ image[g] \in 0 .. uploads
    /\ kind \in [Resources -> {"link", "upload"}]
    /\ \A r \in Resources : file[r] = None \/ file[r] \in 0 .. uploads
    /\ images \subseteq 1 .. uploads
    /\ \A r \in Resources : stored[r] = None \/ stored[r] \in 1 .. uploads
    /\ uploads \in 0 .. MaxUploads
    /\ pc \in [Workers -> {"idle", "files", "commit"}]
    /\ torn \subseteq Groups \cup Resources
    /\ named \subseteq 0 .. uploads /\ edited \subseteq Resources

Init ==
    /\ image = [g \in Groups |-> None]
    /\ kind = [r \in Resources |-> "link"]
    /\ file = [r \in Resources |-> None]
    /\ images = {}
    /\ stored = [r \in Resources |-> None]
    /\ uploads = 0
    /\ pc = [w \in Workers |-> "idle"]
    /\ req = [w \in Workers |-> NoRequest]
    /\ torn = {} /\ named = {} /\ edited = {}

database == <<image, kind, file, named, edited>>
disk == <<images, stored>>

Start(w, q) ==
    /\ pc[w] = "idle"
    /\ pc' = [pc EXCEPT ![w] = "files"]
    /\ req' = [req EXCEPT ![w] = q]
    /\ UNCHANGED <<database, disk, torn>>
Idle(w) ==
    /\ pc' = [pc EXCEPT ![w] = "idle"]
    /\ req' = [req EXCEPT ![w] = NoRequest]
Written(w) == pc' = [pc EXCEPT ![w] = "commit"] /\ UNCHANGED <<database, uploads, torn>>

NewUpload == uploads < MaxUploads /\ uploads' = uploads + 1

-----------------------------------------------------------------------------
(***************************************************************************)
(* Images of groups.                                                       *)
(***************************************************************************)
IsUpload(url) == url \notin {None, Link}

Image(g, new, upload, clear) ==
    [what |-> "image", of |-> g, old |-> image[g], new |-> new, upload |-> upload,
     clear |-> clear, early |-> FALSE]

\* Upload.update_data_dict: a new file replaces; without one an old file stays unless
\* the form clears it, and an url is taken, whatever it names; a form that clears the file
\* and has no url changes no url.
UploadImage(w, g) == NewUpload /\ Start(w, Image(g, uploads + 1, TRUE, FALSE))
SetImage(w, g, url, clear) ==
    /\ Start(w, Image(g, IF ~ IsUpload(image[g]) \/ (clear /\ url # image[g]) THEN url
                         ELSE IF clear THEN None ELSE image[g], FALSE, clear))
    /\ UNCHANGED uploads
ClearImage(w, g) == Start(w, Image(g, image[g], FALSE, TRUE)) /\ UNCHANGED uploads

\* Only a column that differs from what was read is written.
WriteRow(q) ==
    /\ image' = IF q.new = q.old THEN image ELSE [image EXCEPT ![q.of] = q.new]
    /\ named' = IF IsUpload(q.new) /\ ~ q.upload /\ (q.clear \/ q.new # q.old)
                  THEN named \cup {q.new} ELSE named

\* group_dict_save: a request that changes the datasets of the group commits before the files.
CommitEarly(w) ==
    /\ pc[w] = "files" /\ req[w].what = "image" /\ ~ req[w].early
    /\ WriteRow(req[w])
    /\ req' = [req EXCEPT ![w].early = TRUE]
    /\ UNCHANGED <<pc, kind, file, edited, disk, uploads, torn>>

\* Mutant of WriteImage: the old file goes with every update.
WriteImageAlways(w) ==
    LET q == req[w]
    IN  /\ pc[w] = "files" /\ q.what = "image"
        /\ images' = (images \cup (IF q.upload THEN {q.new} ELSE {})) \ {q.old}
        /\ Written(w)
        /\ UNCHANGED <<stored, req>>

\* Upload.upload: the new file first, then the old one is removed.
WriteImage(w) ==
    LET q == req[w]
    IN  /\ pc[w] = "files" /\ q.what = "image"
        /\ images' = (images \cup (IF q.upload THEN {q.new} ELSE {}))
                     \ (IF q.clear \/ q.upload THEN {q.old} ELSE {})
        /\ Written(w)
        /\ UNCHANGED <<stored, req>>

CommitImage(w) ==
    /\ pc[w] = "commit" /\ req[w].what = "image"
    /\ IF req[w].early THEN UNCHANGED <<image, named>> ELSE WriteRow(req[w])
    /\ Idle(w)
    /\ UNCHANGED <<kind, file, edited, disk, uploads, torn>>

-----------------------------------------------------------------------------
(***************************************************************************)
(* Files of resources.                                                     *)
(***************************************************************************)
Unlocked(r) == \A w \in Workers : pc[w] # "idle" => req[w].of # r

Resource(r, type, new, upload, clear) ==
    [what |-> "resource", of |-> r, kind |-> type, new |-> new, upload |-> upload,
     clear |-> clear, early |-> FALSE]

\* ResourceUpload.__init__, and package_update without its commit: a file replaces, a form
\* that asks for it clears, and any other sets url and url_type as it has them, beside
\* the file.
UploadResource(w, r) ==
    Unlocked(r) /\ NewUpload /\ Start(w, Resource(r, "upload", uploads + 1, TRUE, FALSE))
LinkResource(w, r) ==
    Unlocked(r) /\ UNCHANGED uploads /\ Start(w, Resource(r, "link", None, FALSE, TRUE))
EditResource(w, r, type, url) ==
    Unlocked(r) /\ UNCHANGED uploads /\ Start(w, Resource(r, type, url, FALSE, FALSE))

\* ResourceUpload.upload: written beside and renamed over the old file, or removed.
WriteResource(w) ==
    LET q == req[w]
    IN  /\ pc[w] = "files" /\ q.what = "resource"
        /\ stored' = IF q.upload \/ q.clear THEN [stored EXCEPT ![q.of] = q.new] ELSE stored
        /\ Written(w)
        /\ UNCHANGED <<images, req>>

CommitResource(w) ==
    LET q == req[w]
    IN  /\ pc[w] = "commit" /\ q.what = "resource"
        /\ kind' = [kind EXCEPT ![q.of] = q.kind]
        /\ file' = [file EXCEPT ![q.of] = q.new]
        /\ edited' = IF q.upload \/ q.clear THEN edited \ {q.of}
                     ELSE IF q.kind = kind[q.of] /\ q.new = file[q.of] THEN edited
                     ELSE edited \cup {q.of}
        /\ Idle(w)
        /\ UNCHANGED <<image, named, disk, uploads, torn>>

-----------------------------------------------------------------------------

Changes(q) == q.upload \/ q.clear

\* The file is too large, or something else fails before the files are changed.
Refuse(w) ==
    /\ pc[w] = "files"
    /\ torn' = IF req[w].early /\ Changes(req[w]) THEN torn \cup {req[w].of} ELSE torn
    /\ Idle(w)
    /\ UNCHANGED <<database, disk, uploads>>

\* The commit fails or the worker dies: the files stay as they were changed.
Tear(w) ==
    /\ pc[w] = "commit"
    /\ torn' = IF ~ req[w].early /\ Changes(req[w]) THEN torn \cup {req[w].of} ELSE torn
    /\ Idle(w)
    /\ UNCHANGED <<database, disk, uploads>>

Next ==
    \E w \in Workers :
      \/ \E g \in Groups :
           \/ UploadImage(w, g)
           \/ ClearImage(w, g)
           \/ \E url \in {None, Link} \cup 0 .. uploads, clear \in BOOLEAN : SetImage(w, g, url, clear)
      \/ \E r \in Resources :
           \/ UploadResource(w, r)
           \/ LinkResource(w, r)
           \/ \E type \in {"link", "upload"}, url \in {None} \cup 0 .. uploads : EditResource(w, r, type, url)
      \/ CommitEarly(w)
      \/ WriteImage(w)
      \/ CommitImage(w)
      \/ WriteResource(w)
      \/ CommitResource(w)
      \/ Refuse(w)
      \/ Tear(w)

Spec == Init /\ [][Next]_vars

-----------------------------------------------------------------------------
(***************************************************************************)
(* Properties.                                                             *)
(***************************************************************************)
\* No request is between its files and its row.
Settled(o) ==
    /\ o \notin torn
    /\ \A w \in Workers : req[w] # NoRequest /\ req[w].of = o =>
         IF req[w].early THEN pc[w] = "commit" ELSE pc[w] = "files"

\* The image that a group names is there, whatever updates of groups crossed, unless a
\* request named the file that did not upload it; and what is stored for a resource is the
\* upload that its url is of, nothing when the url is a link, since the last request that
\* uploaded or cleared it; unless an update changed the files and did not commit.
FilesAreThere ==
    /\ \A g \in Groups :
         Settled(g) /\ IsUpload(image[g]) /\ image[g] \notin named => image[g] \in images
    /\ \A r \in Resources : Settled(r) /\ r \notin edited =>
         stored[r] = IF kind[r] = "upload" THEN file[r] ELSE None
=============================================================================
