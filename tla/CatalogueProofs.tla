---------------------------- MODULE CatalogueProofs ----------------------------
(***************************************************************************)
(* Proofs about Catalogue, for any accounts, datasets, groups, resources    *)
(* and workers: a behaviour of Catalogue is one of each of its components,  *)
(* so that what is proved of a component holds of it.                       *)
(***************************************************************************)
EXTENDS Catalogue, FiniteSetTheorems, TLAPS

-----------------------------------------------------------------------------
(***************************************************************************)
(* Uploads.                                                                *)
(***************************************************************************)
LEMMA CatalogueRunsFiles == CatalogueSpec => Files!Spec
<1>1. CatalogueInit => Files!Init
  BY DEF CatalogueInit
<1>2. [CatalogueNext]_all => [Files!Next]_Files!vars
  BY DEF CatalogueNext, all, fileVars, Files!vars
<1> QED BY <1>1, <1>2, PTL DEF CatalogueSpec, Files!Spec

Urls == Nat \cup {None, Link}
ImageRequests ==
    [what : {"image"}, of : Groups, old : Urls, new : Urls, upload : BOOLEAN, clear : BOOLEAN,
     early : BOOLEAN]
ResourceRequests ==
    [what : {"resource"}, of : Resources, kind : {"link", "upload"}, new : Nat \cup {None},
     upload : BOOLEAN, clear : BOOLEAN, early : {FALSE}]

FilesTyped ==
    /\ image \in [Groups -> Urls]
    /\ kind \in [Resources -> {"link", "upload"}]
    /\ file \in [Resources -> Nat \cup {None}] /\ stored \in [Resources -> Nat \cup {None}]
    /\ images \subseteq Nat /\ uploads \in Nat /\ named \subseteq Nat
    /\ filePc \in [Workers -> {"idle", "files", "commit"}]
    /\ fileReq \in [Workers -> ImageRequests \cup ResourceRequests \cup {Files!NoRequest}]
    /\ \A w \in Workers : filePc[w] # "idle" => fileReq[w] \in ImageRequests \cup ResourceRequests

\* A worker at an image, and one at the file of a resource.
AtImage(w) == filePc[w] # "idle" /\ fileReq[w].what = "image"
AtResource(w) == filePc[w] # "idle" /\ fileReq[w].what = "resource"

\* No request has changed the file of a resource that it has yet to commit.
Still(r) ==
    \A w \in Workers : AtResource(w) /\ filePc[w] = "commit" /\ fileReq[w].of = r
      => ~ Files!Changes(fileReq[w])

\* What is stored for a resource is what its row says, or what the only request at work
\* on it is about to commit.
ResourcesFollow ==
    /\ \A v, w \in Workers : AtResource(v) /\ AtResource(w) /\ fileReq[v].of = fileReq[w].of => v = w
    /\ \A w \in Workers : AtResource(w) =>
         /\ fileReq[w].upload => fileReq[w].kind = "upload"
         /\ ~ fileReq[w].upload /\ fileReq[w].clear => fileReq[w].kind = "link" /\ fileReq[w].new = None
         /\ filePc[w] = "commit" /\ Files!Changes(fileReq[w]) => stored[fileReq[w].of] = fileReq[w].new
    /\ \A r \in Resources : r \notin torn /\ r \notin edited /\ Still(r) =>
         stored[r] = IF kind[r] = "upload" THEN file[r] ELSE None

\* A worker with an upload that no row has yet.
Pending(w) == AtImage(w) /\ fileReq[w].upload /\ ~ fileReq[w].early

\* The upload of a request is nobody else's until it commits, unless it was named.
Fresh ==
    /\ \A v, w \in Workers : AtImage(v) /\ AtImage(w) /\ fileReq[v].upload /\ fileReq[w].upload
                             /\ fileReq[v].new = fileReq[w].new => v = w
    /\ \A w \in Workers : AtImage(w) /\ fileReq[w].upload => fileReq[w].new \in Nat
    /\ \A w \in Workers : Pending(w) /\ fileReq[w].new \notin named =>
         /\ \A g \in Groups : image[g] # fileReq[w].new
         /\ \A v \in Workers : AtImage(v) => fileReq[v].old # fileReq[w].new

\* Names are of the uploads so far.
NamesBounded ==
    /\ \A g \in Groups : image[g] \in Nat => image[g] =< uploads
    /\ \A n \in named : n =< uploads
    /\ \A w \in Workers : AtImage(w) =>
         /\ fileReq[w].old \in Nat => fileReq[w].old =< uploads
         /\ fileReq[w].new \in Nat => fileReq[w].new =< uploads

\* An image that nobody named belongs to one group, and a request removes that of its own
\* group only: what no group has any more, if its row is committed already.
ImagesApart ==
    /\ \A g, h \in Groups : image[g] \in Nat \ named /\ image[g] = image[h] => g = h
    /\ \A w \in Workers : AtImage(w) /\ fileReq[w].old \in Nat \ named =>
         /\ \A h \in Groups : image[h] = fileReq[w].old => h = fileReq[w].of
         /\ fileReq[w].early /\ Files!Changes(fileReq[w]) =>
              \A h \in Groups : image[h] # fileReq[w].old

\* A worker that has removed the image of g, and is about to commit another; one that has
\* committed the image of g, and is about to write it.
Removes(w, g) ==
    /\ AtImage(w) /\ filePc[w] = "commit"
    /\ fileReq[w].of = g /\ fileReq[w].old = image[g]
    /\ Files!Changes(fileReq[w])
Brings(w, g) ==
    /\ AtImage(w) /\ filePc[w] = "files"
    /\ fileReq[w].of = g /\ fileReq[w].new = image[g]
    /\ fileReq[w].upload /\ fileReq[w].early

\* An image that is named is there, or about to be replaced or written.
ImagesFollow ==
    /\ \A w \in Workers : Pending(w) /\ filePc[w] = "commit" /\ fileReq[w].new \notin named =>
         fileReq[w].new \in images
    /\ \A g \in Groups : g \notin torn /\ image[g] \in Nat \ named =>
         image[g] \in images \/ \E w \in Workers : Removes(w, g) \/ Brings(w, g)

FilesInv == FilesTyped /\ ResourcesFollow /\ Fresh /\ NamesBounded /\ ImagesApart /\ ImagesFollow

\* What the parts of the invariant are made of.
USE DEF AtImage, AtResource, Pending, Files!Changes

LEMMA FilesInit == Files!Init => FilesInv
  BY FilesAssumption
  DEF Files!Init, FilesInv, FilesTyped, ResourcesFollow, Still, Fresh, NamesBounded, ImagesApart,
      ImagesFollow, Urls

\* A url is that of a file when it is neither empty nor a link.
LEMMA UploadsAreNumbers == \A url \in Urls : Files!IsUpload(url) <=> url \in Nat
  BY FilesAssumption DEF Files!IsUpload, Urls

\* The part of the invariant about groups does not look at resources, nor the other way.
ImageVars == <<image, images, named>>
ResourceVars == <<kind, file, stored, edited>>

\* A new request of a worker, on an image or a resource.
LEMMA StartFiles ==
    ASSUME FilesInv, NEW w \in Workers, NEW q \in ImageRequests \cup ResourceRequests,
           filePc[w] = "idle", filePc' = [filePc EXCEPT ![w] = "files"],
           fileReq' = [fileReq EXCEPT ![w] = q],
           UNCHANGED <<ImageVars, ResourceVars, torn>>,
           uploads' \in {uploads, uploads + 1}, ~ q.early,
           q.what = "image" => q.old = image[q.of] /\ (q.new \in Nat => q.new =< uploads'),
           q.what = "image" /\ q.upload => q.new = uploads + 1 /\ uploads' = uploads + 1,
           q.what = "resource" =>
             /\ \A v \in Workers : filePc[v] # "idle" => fileReq[v].of # q.of
             /\ q.upload => q.kind = "upload"
             /\ ~ q.upload /\ q.clear => q.kind = "link" /\ q.new = None
    PROVE  FilesInv'
<1> /\ UNCHANGED <<image, images, named, kind, file, stored, edited, torn>>
    /\ uploads \in Nat /\ uploads' \in Nat
  BY DEF ImageVars, ResourceVars, FilesInv, FilesTyped
<1>1. FilesTyped'
  BY DEF FilesInv, FilesTyped
<1>2. /\ \A v \in Workers \ {w} : fileReq'[v] = fileReq[v] /\ filePc'[v] = filePc[v]
      /\ fileReq'[w] = q /\ filePc'[w] = "files"
  BY DEF FilesInv, FilesTyped
<1>3. ResourcesFollow'
  BY <1>2 DEF FilesInv, ResourcesFollow, Still, ImageRequests, ResourceRequests
<1>4. q.what = "image" => q \in ImageRequests
  BY DEF ImageRequests, ResourceRequests
<1>5. \A n \in Nat : n =< uploads => n =< uploads'
  OBVIOUS
<1>6. NamesBounded'
  BY <1>1, <1>2, <1>4, <1>5 DEF FilesInv, FilesTyped, NamesBounded, ImageRequests
<1>7. uploads + 1 \notin named /\ (\A g \in Groups : image[g] # uploads + 1)
      /\ \A v \in Workers : AtImage(v) => fileReq[v].old # uploads + 1 /\ fileReq[v].new # uploads + 1
  BY DEF FilesInv, FilesTyped, NamesBounded
<1>8. Fresh'
  <2>1. ASSUME NEW u \in Workers, NEW v \in Workers, AtImage(u)', AtImage(v)',
               fileReq'[u].upload, fileReq'[v].upload, fileReq'[u].new = fileReq'[v].new
        PROVE  u = v
    BY <1>2, <1>7, <2>1 DEF FilesInv, Fresh
  <2>2. ASSUME NEW u \in Workers, AtImage(u)', fileReq'[u].upload
        PROVE  fileReq'[u].new \in Nat
    BY <1>2, <2>2 DEF FilesInv, Fresh
  <2>3. ASSUME NEW u \in Workers, Pending(u)', fileReq'[u].new \notin named
        PROVE  /\ \A g \in Groups : image[g] # fileReq'[u].new
               /\ \A v \in Workers : AtImage(v)' => fileReq'[v].old # fileReq'[u].new
    <3>1. CASE u = w
      BY <1>2, <1>4, <1>7, <2>3, <3>1 DEF ImageRequests
    <3>2. CASE u # w
      BY <1>2, <1>4, <2>3, <3>2 DEF FilesInv, Fresh, ImageRequests
    <3> QED BY <3>1, <3>2
  <2> QED BY <2>1, <2>2, <2>3 DEF Fresh
<1>9. ImagesApart'
  BY <1>2, <1>4 DEF FilesInv, ImagesApart, ImageRequests
<1>10. ImagesFollow'
  <2>1. \A u \in Workers, g \in Groups : /\ Removes(u, g) => Removes(u, g)'
                                         /\ Brings(u, g) => Brings(u, g)'
    BY <1>2 DEF Removes, Brings
  <2> QED BY <1>2, <2>1 DEF FilesInv, ImagesFollow
<1> QED BY <1>1, <1>3, <1>6, <1>8, <1>9, <1>10 DEF FilesInv

LEMMA StartImage ==
    ASSUME FilesInv, NEW w \in Workers, NEW g \in Groups,
           \/ Files!UploadImage(w, g)
           \/ Files!ClearImage(w, g)
           \/ \E url \in {None, Link} \cup 0 .. uploads, clear \in BOOLEAN : Files!SetImage(w, g, url, clear)
    PROVE  FilesInv'
<1>1. uploads \in Nat /\ image[g] \in Urls /\ (image[g] \in Nat => image[g] =< uploads)
  BY DEF FilesInv, FilesTyped, NamesBounded
<1>2. ASSUME NEW new \in Urls, NEW up \in BOOLEAN, NEW clear \in BOOLEAN,
             Files!Start(w, Files!Image(g, new, up, clear)),
             new \in Nat => new =< uploads',
             \/ up /\ new = uploads + 1 /\ uploads' = uploads + 1
             \/ ~ up /\ uploads' = uploads
      PROVE  FilesInv'
  <2> DEFINE q == Files!Image(g, new, up, clear)
  <2>1. /\ filePc[w] = "idle" /\ filePc' = [filePc EXCEPT ![w] = "files"]
        /\ fileReq' = [fileReq EXCEPT ![w] = q]
        /\ UNCHANGED <<ImageVars, ResourceVars, torn>>
    BY <1>2 DEF Files!Start, Files!database, Files!disk, ImageVars, ResourceVars
  <2>2. /\ q \in ImageRequests /\ q.what = "image" /\ ~ q.early /\ q.of = g
        /\ q.old = image[g] /\ q.new = new /\ q.upload = up
    BY <1>1 DEF Files!Image, ImageRequests
  <2> HIDE DEF q
  <2> QED BY <1>2, <2>1, <2>2, StartFiles
<1>3. CASE Files!UploadImage(w, g)
  <2>1. Files!Start(w, Files!Image(g, uploads + 1, TRUE, FALSE)) /\ uploads' = uploads + 1
    BY <1>3 DEF Files!UploadImage, Files!NewUpload
  <2>2. uploads + 1 \in Urls /\ uploads + 1 =< uploads'
    BY <1>1, <2>1 DEF Urls
  <2> QED BY <1>2, <2>1, <2>2
<1>4. CASE Files!ClearImage(w, g)
  <2>1. Files!Start(w, Files!Image(g, image[g], FALSE, TRUE)) /\ uploads' = uploads
    BY <1>4 DEF Files!ClearImage
  <2> QED BY <1>1, <1>2, <2>1
<1>5. ASSUME NEW url \in {None, Link} \cup 0 .. uploads, NEW clear \in BOOLEAN,
             Files!SetImage(w, g, url, clear)
      PROVE  FilesInv'
  <2> DEFINE new == IF ~ Files!IsUpload(image[g]) \/ (clear /\ url # image[g]) THEN url
                    ELSE IF clear THEN None ELSE image[g]
  <2>1. Files!Start(w, Files!Image(g, new, FALSE, clear)) /\ uploads' = uploads
    BY <1>5 DEF Files!SetImage
  <2>2. new \in Urls /\ (new \in Nat => new =< uploads)
    BY <1>1, FilesAssumption DEF Urls
  <2> HIDE DEF new
  <2> QED BY <1>2, <2>1, <2>2
<1> QED BY <1>3, <1>4, <1>5

LEMMA StartResource ==
    ASSUME FilesInv, NEW w \in Workers, NEW r \in Resources,
           \/ Files!UploadResource(w, r) \/ Files!LinkResource(w, r)
           \/ \E type \in {"link", "upload"}, url \in {None} \cup 0 .. uploads :
                Files!EditResource(w, r, type, url)
    PROVE  FilesInv'
<1>1. uploads \in Nat
  BY DEF FilesInv, FilesTyped
<1>2. PICK type \in {"link", "upload"}, new \in Nat \cup {None}, up \in BOOLEAN, clear \in BOOLEAN :
        /\ Files!Start(w, Files!Resource(r, type, new, up, clear)) /\ Files!Unlocked(r)
        /\ uploads' \in {uploads, uploads + 1}
        /\ up => type = "upload"
        /\ ~ up /\ clear => type = "link" /\ new = None
  <2>1. CASE Files!UploadResource(w, r)
    <3>1. /\ Files!Start(w, Files!Resource(r, "upload", uploads + 1, TRUE, FALSE))
          /\ Files!Unlocked(r) /\ uploads' = uploads + 1
      BY <2>1 DEF Files!UploadResource, Files!NewUpload
    <3>2. uploads + 1 \in Nat
      BY <1>1
    <3> QED BY <3>1, <3>2
  <2>2. CASE Files!LinkResource(w, r)
    BY <2>2 DEF Files!LinkResource
  <2>3. ASSUME NEW type \in {"link", "upload"}, NEW url \in {None} \cup 0 .. uploads,
               Files!EditResource(w, r, type, url)
        PROVE  \E new \in Nat \cup {None} :
                 /\ Files!Start(w, Files!Resource(r, type, new, FALSE, FALSE)) /\ Files!Unlocked(r)
                 /\ uploads' = uploads
    <3>1. url \in Nat \cup {None}
      BY <1>1
    <3> QED BY <2>3, <3>1 DEF Files!EditResource
  <2> QED BY <2>1, <2>2, <2>3
<1> DEFINE q == Files!Resource(r, type, new, up, clear)
<1>3. /\ filePc[w] = "idle" /\ filePc' = [filePc EXCEPT ![w] = "files"]
      /\ fileReq' = [fileReq EXCEPT ![w] = q]
      /\ UNCHANGED <<ImageVars, ResourceVars, torn>>
  BY <1>2 DEF Files!Start, Files!database, Files!disk, ImageVars, ResourceVars
<1>4. /\ q \in ResourceRequests /\ q.what = "resource" /\ ~ q.early /\ q.of = r
      /\ q.kind = type /\ q.new = new /\ q.upload = up /\ q.clear = clear
  BY DEF Files!Resource, ResourceRequests
<1>5. \A v \in Workers : filePc[v] # "idle" => fileReq[v].of # r
  BY <1>2 DEF Files!Unlocked
<1> HIDE DEF q
<1> QED BY <1>2, <1>3, <1>4, <1>5, StartFiles

LEMMA WriteFiles ==
    ASSUME FilesInv, NEW w \in Workers, Files!WriteResource(w)
    PROVE  FilesInv'
<1> DEFINE q == fileReq[w]
<1>1. /\ AtResource(w) /\ filePc[w] = "files" /\ filePc' = [filePc EXCEPT ![w] = "commit"]
      /\ stored' = IF q.upload \/ q.clear THEN [stored EXCEPT ![q.of] = q.new] ELSE stored
      /\ UNCHANGED <<image, kind, file, images, uploads, torn, fileReq, named, edited>>
  BY DEF Files!WriteResource, Files!Written, Files!database
<1>2. q \in ResourceRequests
  BY <1>1 DEF FilesInv, FilesTyped, ImageRequests, ResourceRequests
<1>3. FilesTyped'
  BY <1>1, <1>2 DEF FilesInv, FilesTyped, ResourceRequests
<1>4. /\ \A r \in Resources : stored'[r] = IF Files!Changes(q) /\ r = q.of THEN q.new ELSE stored[r]
      /\ \A v \in Workers : filePc'[v] = IF v = w THEN "commit" ELSE filePc[v]
  BY <1>1, <1>2 DEF FilesInv, FilesTyped, ResourceRequests
<1>5. ResourcesFollow'
  <2>1. ASSUME NEW r \in Resources, Still(r)', r \notin torn, r \notin edited
        PROVE  stored'[r] = IF kind[r] = "upload" THEN file[r] ELSE None
    <3>1. Still(r) /\ ~ (r = q.of /\ Files!Changes(q))
      BY <1>1, <1>4, <2>1 DEF Still
    <3> QED BY <1>4, <2>1, <3>1 DEF FilesInv, ResourcesFollow
  <2>2. ASSUME NEW v \in Workers, AtResource(v)', filePc'[v] = "commit", Files!Changes(fileReq'[v])
        PROVE  stored'[fileReq'[v].of] = fileReq'[v].new
    <3>1. CASE v = w
      <4>1. fileReq'[v] = q /\ q.of \in Resources /\ Files!Changes(q)
        BY <1>1, <1>2, <2>2, <3>1 DEF ResourceRequests
      <4>2. stored'[q.of] = q.new
        BY <1>4, <4>1
      <4> QED BY <4>1, <4>2
    <3>2. CASE v # w
      <4>1. AtResource(v) /\ filePc[v] = "commit" /\ fileReq'[v] = fileReq[v]
        BY <1>1, <1>4, <2>2, <3>2
      <4>2. fileReq[v].of # q.of /\ stored[fileReq[v].of] = fileReq[v].new
        BY <1>1, <2>2, <3>2, <4>1 DEF FilesInv, ResourcesFollow
      <4>3. fileReq[v].of \in Resources
        BY <4>1 DEF FilesInv, FilesTyped, ImageRequests, ResourceRequests
      <4> QED BY <1>4, <4>1, <4>2, <4>3
    <3> QED BY <3>1, <3>2
  <2> QED BY <1>1, <1>4, <2>1, <2>2 DEF FilesInv, ResourcesFollow
<1>6. Fresh' /\ NamesBounded' /\ ImagesApart'
  BY <1>1, <1>4 DEF FilesInv, Fresh, NamesBounded, ImagesApart
<1>7. ImagesFollow'
  BY <1>1, <1>4 DEF FilesInv, ImagesFollow, Removes, Brings
<1> QED BY <1>3, <1>5, <1>6, <1>7 DEF FilesInv

LEMMA CommitFiles ==
    ASSUME FilesInv, NEW w \in Workers, Files!CommitResource(w)
    PROVE  FilesInv'
<1> DEFINE q == fileReq[w]
<1>1. /\ AtResource(w) /\ filePc[w] = "commit" /\ Files!Idle(w)
      /\ kind' = [kind EXCEPT ![q.of] = q.kind]
      /\ file' = [file EXCEPT ![q.of] = q.new]
      /\ edited' = IF q.upload \/ q.clear THEN edited \ {q.of}
                   ELSE IF q.kind = kind[q.of] /\ q.new = file[q.of] THEN edited
                   ELSE edited \cup {q.of}
      /\ UNCHANGED <<image, images, stored, uploads, torn, named>>
  BY DEF Files!CommitResource, Files!disk
<1>2. q \in ResourceRequests
  BY <1>1 DEF FilesInv, FilesTyped, ImageRequests, ResourceRequests
<1>3. FilesTyped'
  BY <1>1, <1>2 DEF FilesInv, FilesTyped, ResourceRequests, Files!Idle
<1>4. /\ \A v \in Workers \ {w} : fileReq'[v] = fileReq[v] /\ filePc'[v] = filePc[v]
      /\ filePc'[w] = "idle"
      /\ \A r \in Resources : /\ kind'[r] = IF r = q.of THEN q.kind ELSE kind[r]
                              /\ file'[r] = IF r = q.of THEN q.new ELSE file[r]
  BY <1>1, <1>2 DEF FilesInv, FilesTyped, ResourceRequests, Files!Idle
<1>5. ResourcesFollow'
  <2>1. ASSUME NEW r \in Resources, r \notin torn, r \notin edited', Still(r)'
        PROVE  stored[r] = IF kind'[r] = "upload" THEN file'[r] ELSE None
    <3>1. CASE r = q.of /\ Files!Changes(q)
      BY <1>1, <1>2, <1>4, <3>1 DEF FilesInv, ResourcesFollow
    <3>2. CASE r = q.of /\ ~ Files!Changes(q)
      <4>1. Still(r)
        BY <1>1, <1>4, <3>2 DEF Still, FilesInv, ResourcesFollow
      <4>2. r \notin edited /\ q.kind = kind[r] /\ q.new = file[r]
        BY <1>1, <2>1, <3>2
      <4> QED BY <1>4, <2>1, <3>2, <4>1, <4>2 DEF FilesInv, ResourcesFollow
    <3>3. CASE r # q.of
      <4>1. Still(r)
        BY <1>1, <1>4, <2>1, <3>3 DEF Still
      <4>2. r \notin edited
        BY <1>1, <2>1, <3>3
      <4> QED BY <1>4, <2>1, <3>3, <4>1, <4>2 DEF FilesInv, ResourcesFollow
    <3> QED BY <3>1, <3>2, <3>3
  <2> QED BY <1>1, <1>4, <2>1 DEF FilesInv, ResourcesFollow
<1>6. Fresh' /\ NamesBounded' /\ ImagesApart'
  BY <1>1, <1>4 DEF FilesInv, Fresh, NamesBounded, ImagesApart
<1>7. ImagesFollow'
  BY <1>1, <1>4 DEF FilesInv, ImagesFollow, Removes, Brings
<1> QED BY <1>3, <1>5, <1>6, <1>7 DEF FilesInv

LEMMA WriteImages ==
    ASSUME FilesInv, NEW w \in Workers, Files!WriteImage(w)
    PROVE  FilesInv'
<1> DEFINE q == fileReq[w]
           gone == IF q.clear \/ q.upload THEN {q.old} ELSE {}
<1>1. /\ AtImage(w) /\ filePc[w] = "files" /\ filePc' = [filePc EXCEPT ![w] = "commit"]
      /\ images' = (images \cup (IF q.upload THEN {q.new} ELSE {})) \ gone
      /\ UNCHANGED <<image, kind, file, stored, uploads, torn, named, edited, fileReq>>
  BY DEF Files!WriteImage, Files!Written, Files!database
<1>2. q \in ImageRequests
  BY <1>1 DEF FilesInv, FilesTyped, ImageRequests, ResourceRequests
<1>3. /\ \A v \in Workers \ {w} : filePc'[v] = filePc[v]
      /\ filePc'[w] = "commit"
  BY <1>1 DEF FilesInv, FilesTyped
<1>4. FilesTyped'
  <2>1. images' \subseteq Nat
    BY <1>1 DEF FilesInv, FilesTyped, Fresh
  <2> QED BY <1>1, <2>1 DEF FilesInv, FilesTyped
<1>5. ResourcesFollow'
  BY <1>1, <1>3 DEF FilesInv, ResourcesFollow, Still
<1>6. Fresh' /\ NamesBounded' /\ ImagesApart'
  BY <1>1, <1>3 DEF FilesInv, Fresh, NamesBounded, ImagesApart
<1>7. ASSUME NEW v \in Workers, Pending(v)', filePc'[v] = "commit", fileReq[v].new \notin named
      PROVE  fileReq[v].new \in images'
  <2>1. fileReq[v].new # q.old
    BY <1>1, <1>3, <1>7 DEF FilesInv, Fresh
  <2>2. CASE v = w
    BY <1>1, <1>7, <2>1, <2>2
  <2>3. CASE v # w
    BY <1>1, <1>3, <1>7, <2>1, <2>3 DEF FilesInv, ImagesFollow
  <2> QED BY <2>2, <2>3
<1>8. ASSUME NEW g \in Groups, g \notin torn, image[g] \in Nat \ named
      PROVE  image[g] \in images' \/ \E v \in Workers : Removes(v, g)' \/ Brings(v, g)'
  <2>1. CASE image[g] \in gone
    BY <1>1, <1>2, <1>3, <1>8, <2>1 DEF FilesInv, ImagesApart, Removes
  <2>2. CASE image[g] \in images /\ image[g] \notin gone
    BY <1>1, <2>2
  <2>3. ASSUME NEW v \in Workers, Removes(v, g)
        PROVE  Removes(v, g)'
    BY <1>1, <1>3, <2>3 DEF Removes
  <2>4. ASSUME NEW v \in Workers, Brings(v, g), image[g] \notin gone
        PROVE  Brings(v, g)' \/ image[g] \in images'
    BY <1>1, <1>3, <2>4 DEF Brings
  <2> QED BY <1>8, <2>1, <2>2, <2>3, <2>4 DEF FilesInv, ImagesFollow
<1>9. ImagesFollow'
  BY <1>1, <1>7, <1>8 DEF ImagesFollow
<1> QED BY <1>4, <1>5, <1>6, <1>9 DEF FilesInv

\* The row of a group is written: by the last commit of its request, or by an early one.
LEMMA RowKeeps ==
    ASSUME FilesInv, NEW w \in Workers, AtImage(w), ~ fileReq[w].early, Files!WriteRow(fileReq[w]),
           \A v \in Workers \ {w} : fileReq'[v] = fileReq[v] /\ filePc'[v] = filePc[v],
           \/ filePc[w] = "commit" /\ filePc'[w] = "idle"
           \/ /\ filePc[w] = "files" /\ filePc'[w] = "files"
              /\ fileReq'[w] = [fileReq[w] EXCEPT !.early = TRUE],
           UNCHANGED <<images, uploads, torn>>
    PROVE  Fresh' /\ NamesBounded' /\ ImagesApart' /\ ImagesFollow'
<1> DEFINE q == fileReq[w]
<1>1. q \in ImageRequests
  BY DEF FilesInv, FilesTyped, ImageRequests, ResourceRequests
<1>2. \A g \in Groups : image'[g] = IF g = q.of /\ q.new # q.old THEN q.new ELSE image[g]
  BY <1>1 DEF Files!WriteRow, FilesInv, FilesTyped
<1>3. /\ named \subseteq named' /\ named' \subseteq named \cup {q.new}
      /\ \A n \in named' : n \in Nat /\ n =< uploads
      /\ q.upload => named' = named
      /\ q.new \in Nat /\ ~ q.upload /\ (q.clear \/ q.new # q.old) => q.new \in named'
  BY <1>1, UploadsAreNumbers DEF Files!WriteRow, FilesInv, FilesTyped, NamesBounded, ImageRequests
<1>4. /\ \A v \in Workers : AtImage(v)' =>
           /\ AtImage(v) /\ fileReq'[v].of = fileReq[v].of /\ fileReq'[v].old = fileReq[v].old
           /\ fileReq'[v].new = fileReq[v].new /\ fileReq'[v].upload = fileReq[v].upload
           /\ fileReq'[v].clear = fileReq[v].clear
           /\ v # w => fileReq'[v] = fileReq[v] /\ filePc'[v] = filePc[v]
           /\ v = w => fileReq'[v].early /\ filePc'[v] = "files"
  BY <1>1 DEF ImageRequests
<1>5. ASSUME NEW v \in Workers, v # w, Pending(v), fileReq[v].new \notin named
      PROVE  fileReq[v].new # q.new \/ ~ q.upload
  BY <1>5 DEF FilesInv, Fresh
<1>6. Fresh'
  <2>1. ASSUME NEW v \in Workers, Pending(v)', fileReq'[v].new \notin named'
        PROVE  /\ \A g \in Groups : image'[g] # fileReq'[v].new
               /\ \A u \in Workers : AtImage(u)' => fileReq'[u].old # fileReq'[v].new
    <3>1. v # w /\ Pending(v) /\ fileReq[v].new \notin named /\ fileReq'[v].new = fileReq[v].new
      BY <1>3, <1>4, <2>1
    <3>2. fileReq[v].new \in Nat
      BY <3>1 DEF FilesInv, Fresh
    <3>3. q.new # q.old => q.new # fileReq[v].new
      BY <1>3, <1>5, <2>1, <3>1, <3>2
    <3> QED BY <1>2, <1>4, <3>1, <3>3 DEF FilesInv, Fresh
  <2>2. \A u, v \in Workers : AtImage(u)' /\ AtImage(v)' /\ fileReq'[u].upload /\ fileReq'[v].upload
                              /\ fileReq'[u].new = fileReq'[v].new => u = v
    BY <1>4 DEF FilesInv, Fresh
  <2>3. \A v \in Workers : AtImage(v)' /\ fileReq'[v].upload => fileReq'[v].new \in Nat
    BY <1>4 DEF FilesInv, Fresh
  <2> QED BY <2>1, <2>2, <2>3 DEF Fresh
<1>7. NamesBounded'
  BY <1>1, <1>2, <1>3, <1>4 DEF FilesInv, NamesBounded
<1>8. ImagesApart'
  <2>1. q.new \in Nat \ named' /\ q.new # q.old => q.upload
    BY <1>1, <1>3 DEF ImageRequests
  <2>2. q.new \in Nat \ named' /\ q.new # q.old =>
          /\ \A g \in Groups : image[g] # q.new
          /\ \A v \in Workers : AtImage(v) => fileReq[v].old # q.new
    BY <1>3, <2>1 DEF FilesInv, Fresh
  <2>3. \A g, h \in Groups : image'[g] \in Nat \ named' /\ image'[g] = image'[h] => g = h
    BY <1>2, <1>3, <2>2 DEF FilesInv, ImagesApart
  <2>4. ASSUME NEW v \in Workers, AtImage(v)', fileReq'[v].old \in Nat \ named'
        PROVE  /\ \A h \in Groups : image'[h] = fileReq'[v].old => h = fileReq'[v].of
               /\ fileReq'[v].early /\ Files!Changes(fileReq'[v]) =>
                    \A h \in Groups : image'[h] # fileReq'[v].old
    <3>1. \A h \in Groups : image'[h] = fileReq[v].old => image[h] = fileReq[v].old
      BY <1>2, <1>3, <1>4, <2>2, <2>4
    <3>2. CASE v # w
      BY <1>3, <1>4, <2>4, <3>1, <3>2 DEF FilesInv, ImagesApart
    <3>3. CASE v = w
      <4>1. \A h \in Groups : image[h] = q.old => h = q.of
        BY <1>3, <1>4, <2>4, <3>3 DEF FilesInv, ImagesApart
      <4>2. Files!Changes(q) => q.new # q.old
        <5>1. CASE q.upload
          BY <1>3, <1>4, <2>4, <3>3, <5>1 DEF FilesInv, Fresh
        <5>2. CASE ~ q.upload
          BY <1>3, <1>4, <2>4, <3>3, <5>2
        <5> QED BY <5>1, <5>2
      <4>3. Files!Changes(q) => \A h \in Groups : image'[h] # q.old
        BY <1>2, <3>1, <3>3, <4>1, <4>2
      <4> QED BY <1>4, <2>4, <3>1, <3>3, <4>1, <4>3
    <3> QED BY <3>2, <3>3
  <2> QED BY <2>3, <2>4 DEF ImagesApart
<1>9. ImagesFollow'
  <2>1. ASSUME NEW v \in Workers, Pending(v)', filePc'[v] = "commit", fileReq'[v].new \notin named'
        PROVE  fileReq'[v].new \in images
    BY <1>3, <1>4, <2>1 DEF FilesInv, ImagesFollow
  <2>2. ASSUME NEW g \in Groups, g \notin torn, image'[g] \in Nat \ named'
        PROVE  image'[g] \in images \/ \E v \in Workers : Removes(v, g)' \/ Brings(v, g)'
    <3>1. CASE g = q.of /\ q.new # q.old
      <4>1. image'[g] = q.new /\ q.upload /\ q.new \notin named
        BY <1>1, <1>2, <1>3, <2>2, <3>1 DEF ImageRequests
      <4>2. CASE filePc[w] = "commit"
        BY <4>1, <4>2 DEF FilesInv, ImagesFollow
      <4>3. CASE filePc[w] = "files"
        <5>1. AtImage(w)' /\ filePc'[w] = "files"
          BY <1>1, <4>3 DEF ImageRequests
        <5>2. Brings(w, g)'
          BY <1>4, <3>1, <4>1, <5>1 DEF Brings
        <5> QED BY <5>2
      <4> QED BY <4>2, <4>3
    <3>2. CASE ~ (g = q.of /\ q.new # q.old)
      <4>1. image'[g] = image[g] /\ image[g] \in Nat \ named
        BY <1>2, <1>3, <2>2, <3>2
      <4>2. ~ Removes(w, g)
        <5> SUFFICES ASSUME Removes(w, g)
                     PROVE  FALSE
          OBVIOUS
        <5>1. q.of = g /\ q.old = image[g] /\ Files!Changes(q) /\ q.new = q.old
          BY <3>2 DEF Removes
        <5>2. CASE q.upload
          BY <4>1, <5>1, <5>2 DEF FilesInv, Fresh
        <5>3. CASE ~ q.upload
          BY <1>3, <2>2, <4>1, <5>1, <5>3
        <5> QED BY <5>2, <5>3
      <4>3. ~ Brings(w, g)
        BY DEF Brings
      <4>4. ASSUME NEW v \in Workers, v # w
            PROVE  (Removes(v, g) => Removes(v, g)') /\ (Brings(v, g) => Brings(v, g)')
        BY <4>1, <4>4 DEF Removes, Brings
      <4> QED BY <2>2, <4>1, <4>2, <4>3, <4>4 DEF FilesInv, ImagesFollow
    <3> QED BY <3>1, <3>2
  <2> QED BY <2>1, <2>2 DEF ImagesFollow
<1> QED BY <1>6, <1>7, <1>8, <1>9

LEMMA RowTyped ==
    ASSUME FilesInv, NEW w \in Workers, AtImage(w), Files!WriteRow(fileReq[w])
    PROVE  image' \in [Groups -> Urls] /\ named' \subseteq Nat
<1>1. fileReq[w] \in ImageRequests
  BY DEF FilesInv, FilesTyped, ImageRequests, ResourceRequests
<1> QED BY <1>1, UploadsAreNumbers DEF Files!WriteRow, FilesInv, FilesTyped, ImageRequests

LEMMA CommitImagesEarly ==
    ASSUME FilesInv, NEW w \in Workers, Files!CommitEarly(w)
    PROVE  FilesInv'
<1>1. /\ AtImage(w) /\ filePc[w] = "files" /\ ~ fileReq[w].early /\ Files!WriteRow(fileReq[w])
      /\ fileReq' = [fileReq EXCEPT ![w].early = TRUE]
      /\ UNCHANGED <<filePc, kind, file, edited, stored, images, uploads, torn>>
  BY DEF Files!CommitEarly, Files!disk
<1>2. fileReq[w] \in ImageRequests
  BY <1>1 DEF FilesInv, FilesTyped, ImageRequests, ResourceRequests
<1>3. /\ fileReq'[w] = [fileReq[w] EXCEPT !.early = TRUE]
      /\ \A v \in Workers \ {w} : fileReq'[v] = fileReq[v] /\ filePc'[v] = filePc[v]
  BY <1>1 DEF FilesInv, FilesTyped
<1>4. FilesTyped'
  BY <1>1, <1>2, RowTyped DEF FilesInv, FilesTyped, ImageRequests
<1>5. ResourcesFollow'
  BY <1>1, <1>2, <1>3 DEF FilesInv, ResourcesFollow, Still, ImageRequests
<1> QED BY <1>1, <1>3, <1>4, <1>5, RowKeeps DEF FilesInv

LEMMA CommitImages ==
    ASSUME FilesInv, NEW w \in Workers, Files!CommitImage(w)
    PROVE  FilesInv'
<1>1. /\ AtImage(w) /\ filePc[w] = "commit" /\ Files!Idle(w)
      /\ IF fileReq[w].early THEN image' = image /\ named' = named ELSE Files!WriteRow(fileReq[w])
      /\ UNCHANGED <<kind, file, edited, stored, images, uploads, torn>>
  BY DEF Files!CommitImage, Files!disk
<1>2. /\ \A v \in Workers \ {w} : fileReq'[v] = fileReq[v] /\ filePc'[v] = filePc[v]
      /\ filePc'[w] = "idle"
  BY <1>1 DEF FilesInv, FilesTyped, Files!Idle
<1>3. FilesTyped'
  BY <1>1, RowTyped DEF FilesInv, FilesTyped, Files!Idle
<1>4. ResourcesFollow'
  BY <1>1, <1>2 DEF FilesInv, ResourcesFollow, Still
<1>5. Fresh' /\ NamesBounded' /\ ImagesApart' /\ ImagesFollow'
  <2>1. CASE ~ fileReq[w].early
    BY <1>1, <1>2, <2>1, RowKeeps
  <2>2. CASE fileReq[w].early
    <3>1. Fresh' /\ NamesBounded' /\ ImagesApart'
      BY <1>1, <1>2, <2>2 DEF FilesInv, Fresh, NamesBounded, ImagesApart
    <3>2. \A g \in Groups : image[g] \in Nat \ named => ~ Removes(w, g) /\ ~ Brings(w, g)
      BY <1>1, <2>2 DEF FilesInv, ImagesApart, Removes, Brings
    <3>3. ImagesFollow'
      BY <1>1, <1>2, <2>2, <3>2 DEF FilesInv, ImagesFollow, Removes, Brings
    <3> QED BY <3>1, <3>3
  <2> QED BY <2>1, <2>2
<1> QED BY <1>3, <1>4, <1>5 DEF FilesInv

\* A request ends without its commit: it is refused, or its worker dies.
LEMMA TearFiles ==
    ASSUME FilesInv, NEW w \in Workers, Files!Refuse(w) \/ Files!Tear(w)
    PROVE  FilesInv'
<1>1. /\ filePc[w] # "idle" /\ Files!Idle(w)
      /\ torn' = IF Files!Changes(fileReq[w]) /\ (fileReq[w].early <=> filePc[w] = "files")
                   THEN torn \cup {fileReq[w].of} ELSE torn
      /\ UNCHANGED <<image, kind, file, images, stored, uploads, named, edited>>
  <2>1. CASE Files!Refuse(w)
    BY <2>1, Zenon DEF Files!Refuse, Files!disk, Files!database
  <2>2. CASE Files!Tear(w)
    BY <2>2, Zenon DEF Files!Tear, Files!disk, Files!database
  <2> QED BY <2>1, <2>2
<1>2. /\ \A v \in Workers \ {w} : fileReq'[v] = fileReq[v] /\ filePc'[v] = filePc[v]
      /\ filePc'[w] = "idle" /\ filePc[w] \in {"files", "commit"}
  BY <1>1 DEF FilesInv, FilesTyped, Files!Idle
<1>3. FilesTyped'
  BY <1>1 DEF FilesInv, FilesTyped, Files!Idle
<1>4. fileReq[w] \in ImageRequests \cup ResourceRequests
  BY <1>1 DEF FilesInv, FilesTyped
<1>5. ResourcesFollow'
  <2>1. ASSUME NEW r \in Resources, r \notin torn', Still(r)'
        PROVE  Still(r)
    BY <1>1, <1>2, <1>4, <2>1 DEF Still, ResourceRequests, ImageRequests
  <2> QED BY <1>1, <1>2, <2>1 DEF FilesInv, ResourcesFollow
<1>6. Fresh' /\ NamesBounded' /\ ImagesApart'
  BY <1>1, <1>2 DEF FilesInv, Fresh, NamesBounded, ImagesApart
<1>7. \A g \in Groups : g \notin torn' /\ image[g] \in Nat \ named => ~ Removes(w, g) /\ ~ Brings(w, g)
  BY <1>1, <1>2 DEF FilesInv, ImagesApart, Removes, Brings
<1>8. ImagesFollow'
  BY <1>1, <1>2, <1>7 DEF FilesInv, ImagesFollow, Removes, Brings
<1> QED BY <1>3, <1>5, <1>6, <1>8 DEF FilesInv

LEMMA FilesStep == FilesInv /\ [Files!Next]_Files!vars => FilesInv'
<1> SUFFICES ASSUME FilesInv, [Files!Next]_Files!vars
             PROVE  FilesInv'
  OBVIOUS
<1>1. CASE UNCHANGED Files!vars
  BY <1>1 DEF Files!vars, FilesInv, FilesTyped, ResourcesFollow, Still, Fresh, NamesBounded, ImagesApart,
     ImagesFollow, Removes, Brings
<1> QED
  BY <1>1, StartImage, StartResource, WriteImages, CommitImages, CommitImagesEarly, WriteFiles,
     CommitFiles, TearFiles
  DEF Files!Next

\* Whatever updates of groups and resources run at the same time, the image that a group
\* names is there unless a request named it that did not upload it, and what is stored for a
\* resource is the upload that its url is of, unless a request changed the url beside it: for
\* any groups, resources and workers, except where an update changed files and did not commit.
THEOREM FilesStayThere == CatalogueSpec => []FilesAreThere
<1>1. FilesInv => FilesAreThere
  <2> SUFFICES ASSUME FilesInv
               PROVE  FilesAreThere
    OBVIOUS
  <2>1. \A w \in Workers : filePc[w] # "idle" => fileReq[w] # Files!NoRequest
    <3>1. Files!NoRequest.what = "none"
      BY DEF Files!NoRequest
    <3>2. \A q \in ImageRequests \cup ResourceRequests : q.what # "none"
      BY DEF ImageRequests, ResourceRequests
    <3> QED BY <3>1, <3>2 DEF FilesInv, FilesTyped
  <2>2. ASSUME NEW g \in Groups, Files!Settled(g), image[g] \in Nat \ named
        PROVE  image[g] \in images
    <3>1. \A w \in Workers : ~ Removes(w, g) /\ ~ Brings(w, g)
      BY <2>1, <2>2 DEF Files!Settled, Removes, Brings, FilesInv, ImagesApart
    <3> QED BY <2>2, <3>1 DEF Files!Settled, FilesInv, ImagesFollow
  <2>3. ASSUME NEW r \in Resources, Files!Settled(r), r \notin edited
        PROVE  stored[r] = IF kind[r] = "upload" THEN file[r] ELSE None
    <3>1. Still(r)
      BY <2>1, <2>3 DEF Still, Files!Settled, FilesInv, FilesTyped, ResourceRequests, ImageRequests
    <3> QED BY <2>3, <3>1 DEF Files!Settled, FilesInv, ResourcesFollow
  <2>4. \A g \in Groups : Files!IsUpload(image[g]) => image[g] \in Nat
    BY UploadsAreNumbers DEF FilesInv, FilesTyped
  <2> QED BY <2>2, <2>3, <2>4 DEF FilesAreThere, Files!FilesAreThere
<1> QED BY <1>1, FilesInit, FilesStep, CatalogueRunsFiles, PTL DEF Files!Spec

-----------------------------------------------------------------------------
(***************************************************************************)
(* Pages of a stream.                                                      *)
(***************************************************************************)
LEMMA LeastNat ==
    ASSUME NEW T \in SUBSET Nat, T # {}
    PROVE  \E m \in T : \A k \in T : m =< k
<1> DEFINE R == {ss \in Nat \X Nat : ss[1] < ss[2]}
<1>1. IsWellFoundedOn(R, Nat)
  BY NatLessThanWellFounded DEF OpToRel
<1> HIDE DEF R
<1>2. PICK m \in T : \A k \in T : <<k, m>> \notin R
  BY <1>1, WFMin
<1>3. ASSUME NEW k \in T PROVE m =< k
  <2>1. k \in Nat /\ m \in Nat /\ <<k, m>> \in Nat \X Nat
    OBVIOUS
  <2> QED BY <1>2, <2>1 DEF R
<1> QED BY <1>3

\* A finite set of activities, as the streams are that the queries select from.
Stamped(S) == IsFiniteSet(S) /\ \A a \in S : a.time \in Nat

LEMMA StampedSubset ==
    ASSUME NEW S, Stamped(S), NEW T \in SUBSET S
    PROVE  Stamped(T)
  BY FS_Subset DEF Stamped

LEMMA NewerRank ==
    ASSUME NEW S, Stamped(S), NEW a
    PROVE  IsFiniteSet(Newer(a, S)) /\ Cardinality(Newer(a, S)) \in Nat
<1>1. Newer(a, S) \in SUBSET S
  BY DEF Newer
<1> QED BY <1>1, FS_Subset, FS_CardinalityType DEF Stamped

LEMMA RankGrows ==
    ASSUME NEW S, Stamped(S), NEW a, NEW b, NEW T, Newer(b, T) \subseteq Newer(a, S)
    PROVE  /\ Cardinality(Newer(b, T)) =< Cardinality(Newer(a, S))
           /\ Cardinality(Newer(b, T)) \in Nat /\ Cardinality(Newer(a, S)) \in Nat
<1>1. IsFiniteSet(Newer(a, S)) /\ Cardinality(Newer(a, S)) \in Nat
  BY NewerRank
<1>2. IsFiniteSet(Newer(b, T))
  BY <1>1, FS_Subset
<1> QED BY <1>1, <1>2, FS_Subset, FS_CardinalityType

\* Of a set of activities, a newest one.
LEMMA NewestOne ==
    ASSUME NEW S, S # {}, NEW n \in Nat, \A a \in S : a.time \in 0 .. n
    PROVE  \E b \in S : \A c \in S : c.time =< b.time
<1> DEFINE T == {n - a.time : a \in S}
<1>1. T \in SUBSET Nat /\ T # {}
  OBVIOUS
<1>2. PICK m \in T : \A k \in T : m =< k
  BY <1>1, LeastNat
<1>3. PICK b \in S : m = n - b.time
  BY <1>2
<1>4. ASSUME NEW c \in S PROVE c.time =< b.time
  <2>1. n - b.time =< n - c.time
    BY <1>2, <1>3
  <2> QED BY <2>1
<1> QED BY <1>4

\* What is among the first of a set is among the first of its part.
LEMMA FirstOfPart ==
    ASSUME NEW S, Stamped(S), NEW T \in SUBSET S, NEW n \in Nat
    PROVE  First(S, n) \cap T \subseteq First(T, n)
<1> SUFFICES ASSUME NEW a \in First(S, n) \cap T PROVE a \in First(T, n)
  OBVIOUS
<1>1. Newer(a, T) \subseteq Newer(a, S)
  BY DEF Newer
<1>2. Cardinality(Newer(a, T)) =< Cardinality(Newer(a, S)) /\ Cardinality(Newer(a, T)) \in Nat
  BY <1>1, RankGrows
<1>3. Cardinality(Newer(a, S)) < n /\ Cardinality(Newer(a, S)) \in Nat
  BY NewerRank DEF First, Limited
<1> QED BY <1>2, <1>3 DEF First, Limited

\* A page is the same of the whole and of any part that has its first activities: the ones
\* before the page and those on it.
LEMMA PageOfPart ==
    ASSUME NEW S, Stamped(S), NEW n \in Nat, \A a \in S : a.time \in 0 .. n,
           NEW limit \in Nat, NEW offset \in Nat,
           NEW Q \in SUBSET S, First(S, limit + offset) \subseteq Q
    PROVE  Limited(Q, limit, offset) = Limited(S, limit, offset)
<1> DEFINE m == limit + offset
           Rank(a, T) == Cardinality(Newer(a, T))
<1>0. m \in Nat /\ offset + limit = m
  OBVIOUS
<1>1. \A a : Rank(a, S) \in Nat /\ Rank(a, Q) \in Nat
  BY NewerRank, StampedSubset
<1> HIDE DEF m
<1>2. \A a \in S : a \in First(S, m) <=> Rank(a, S) < m
  BY <1>0, <1>1 DEF First, Limited
<1>3. ASSUME NEW a \in S, Rank(a, S) < m PROVE a \in Q /\ Rank(a, Q) = Rank(a, S)
  <2>1. ASSUME NEW b \in Newer(a, S) PROVE b \in Q
    <3>1. b \in S /\ Newer(b, S) \subseteq Newer(a, S)
      BY DEF Newer, Stamped
    <3>2. Rank(b, S) =< Rank(a, S)
      BY <3>1, RankGrows
    <3> QED BY <1>0, <1>1, <1>2, <1>3, <3>1, <3>2 DEF m
  <2>2. Newer(a, Q) = Newer(a, S)
    BY <2>1 DEF Newer
  <2> QED BY <1>2, <1>3, <2>2 DEF m
<1>4. ASSUME NEW a \in S, ~ (Rank(a, S) < m) PROVE ~ (Rank(a, Q) < m)
  <2> DEFINE T == {c \in S : ~ (Rank(c, S) < m)}
  <2>1. PICK b \in T : \A c \in T : c.time =< b.time
    <3>1. T # {} /\ \A c \in T : c.time \in 0 .. n
      BY <1>4
    <3> HIDE DEF T
    <3> QED BY <3>1, NewestOne
  <2>2. ASSUME NEW c \in Newer(b, S) PROVE c \in Newer(a, Q)
    <3>1. c \in S /\ c.time > b.time /\ c.time \in Nat /\ b.time \in Nat /\ a.time \in Nat
      BY DEF Newer, Stamped
    <3>2. c \in Q
      BY <1>2, <2>1, <3>1 DEF m
    <3>3. a.time =< b.time
      BY <1>4, <2>1
    <3> QED BY <3>1, <3>2, <3>3 DEF Newer
  <2>3. Rank(b, S) =< Rank(a, Q)
    <3>1. Newer(b, S) \subseteq Newer(a, Q) /\ Stamped(Q)
      BY <2>2, StampedSubset
    <3> QED BY <3>1, RankGrows
  <2> QED BY <1>0, <1>1, <2>1, <2>3
<1>5. ASSUME NEW a PROVE a \in Limited(Q, limit, offset) <=> a \in Limited(S, limit, offset)
  <2>1. a \in Limited(S, limit, offset) <=> a \in S /\ offset =< Rank(a, S) /\ Rank(a, S) < m
    BY <1>0 DEF Limited
  <2>2. a \in Limited(Q, limit, offset) <=> a \in Q /\ offset =< Rank(a, Q) /\ Rank(a, Q) < m
    BY <1>0 DEF Limited
  <2> QED BY <1>3, <1>4, <2>1, <2>2
<1> QED BY <1>5

-----------------------------------------------------------------------------
(***************************************************************************)
(* The activity stream: what is committed, and what the requests at work    *)
(* are about to.                                                           *)
(***************************************************************************)
LEMMA CatalogueRunsStreams == CatalogueSpec => Spec
<1>1. CatalogueInit => Init
  BY DEF CatalogueInit
<1>2. [CatalogueNext]_all => [Next]_vars
  BY DEF CatalogueNext, all, vars
<1> QED BY <1>1, <1>2, PTL DEF CatalogueSpec, Spec

Saves(w, o) == pc[w] = "commit" /\ req[w].kind = "save" /\ req[w].object = o
Marks(w, u) == pc[w] = "commit" /\ req[w].kind = "mark" /\ req[w].user = u

StreamsTyped ==
    /\ clock \in 0 .. MaxTime
    /\ acts \subseteq Activities /\ IsFiniteSet(acts)
    /\ state \in [Objects -> {None, "active", "deleted"}]
    /\ private \in [Packages -> BOOLEAN]
    /\ follows \subseteq Followers \X Objects /\ IsFiniteSet(follows)
    /\ viewed \in [Users -> Nat \cup {None}]
    /\ pc \in [Workers -> {"idle", "commit"}]
    /\ DOMAIN req = Workers /\ DOMAIN pend = Workers

RequestsTyped ==
    \A w \in Workers :
      /\ pc[w] = "idle" => req[w] = NoRequest /\ pend[w] = NoChange
      /\ pc[w] = "commit" => /\ req[w].kind \in {"save", "follow", "unfollow", "mark", "open"}
                             /\ req[w].user \in Users /\ req[w].object \in Objects
      /\ pend[w].acts \subseteq Activities
      /\ \A o \in Objects : Saves(w, o) => /\ pend[w].state \in {"active", "deleted"}
                                           /\ pend[w].private \in BOOLEAN
      /\ req[w].kind \in {"follow", "unfollow"} => /\ req[w].user \in Followers
                                                   /\ state[req[w].object] # None
      /\ req[w].kind \in {"mark", "open"} => pend[w].viewed \in Nat
      /\ req[w].kind # "save" => pend[w].acts = {}

\* One request at a time saves an object, and says what it makes of it in one activity.
SavesFit ==
    \A w \in Workers, o \in Objects : Saves(w, o) =>
      /\ \A v \in Workers : Saves(v, o) => v = w
      /\ IF o \in Packages /\ pend[w].private THEN pend[w].acts = {}
         ELSE \E a \in pend[w].acts :
                /\ pend[w].acts = {a} /\ a.object = o /\ a.user = req[w].user
                /\ a.kind = "new" => state[o] = None
                /\ a.kind = "deleted" <=> pend[w].state = "deleted"
                /\ o \in Packages => {d \in a.details : d.part # "package"} = req[w].details

\* Every activity has a time of its own, and the next one of an object is its newest.
TimesApart ==
    /\ \A a \in acts : a.time < clock
    /\ \A a, b \in acts : a.time = b.time => a = b
    /\ \A w \in Workers : \A a \in pend[w].acts :
         /\ a.time < clock
         /\ \A b \in acts : a.time # b.time
         /\ \A v \in Workers \ {w} : \A b \in pend[v].acts : a.time # b.time
         /\ \A b \in About(a.object) : b.time < a.time

\* An object that one follows or that has a history has been made.
MadeFirst == /\ \A a \in acts : state[a.object] # None
             /\ \A f \in follows : state[f[2]] # None

StreamsInv == StreamsTyped /\ RequestsTyped /\ SavesFit /\ TimesApart /\ MadeFirst /\ FirstAndLast

LEMMA StreamsInit == Init => StreamsInv
<1> SUFFICES ASSUME Init PROVE StreamsInv
  OBVIOUS
<1>1. StreamsTyped
  BY FS_EmptySet, BoundAssumption DEF Init, StreamsTyped
<1>2. RequestsTyped /\ SavesFit /\ TimesApart /\ MadeFirst /\ FirstAndLast
  BY DEF Init, RequestsTyped, SavesFit, TimesApart, MadeFirst, FirstAndLast, Saves, About,
         NoRequest, NoChange
<1> QED BY <1>1, <1>2 DEF StreamsInv

\* What is asked for, whatever it is, by a worker that has nothing to do.
LEMMA Starting ==
    ASSUME StreamsInv, NEW w \in Workers, NEW r, NEW c, Start(w, r, c)
    PROVE  /\ pc[w] = "idle" /\ pc'[w] = "commit" /\ req'[w] = r /\ pend'[w] = c
           /\ \A v \in Workers \ {w} : pc'[v] = pc[v] /\ req'[v] = req[v] /\ pend'[v] = pend[v]
           /\ pc' \in [Workers -> {"idle", "commit"}] /\ DOMAIN req' = Workers /\ DOMAIN pend' = Workers
           /\ UNCHANGED <<acts, state, private, follows, viewed>>
  BY DEF Start, StreamsInv, StreamsTyped, tables

\* Asking for a change of an object that no other request is changing.
LEMMA SaveKeeps ==
    ASSUME StreamsInv, NEW w \in Workers, NEW o \in Objects, NEW r, NEW c, Start(w, r, c), Tick, Free(o),
           r.kind = "save", r.object = o, r.user \in Users,
           c.acts \subseteq Activities, c.state \in {"active", "deleted"}, c.private \in BOOLEAN,
           \A a \in c.acts : a.time = clock /\ a.object = o,
           IF o \in Packages /\ c.private THEN c.acts = {}
           ELSE \E a \in c.acts :
                  /\ c.acts = {a} /\ a.object = o /\ a.user = r.user
                  /\ a.kind = "new" => state[o] = None
                  /\ a.kind = "deleted" <=> c.state = "deleted"
                  /\ o \in Packages => {d \in a.details : d.part # "package"} = r.details
    PROVE  StreamsInv'
<1>1. clock \in Nat /\ clock' = clock + 1 /\ clock' \in 0 .. MaxTime
  BY BoundAssumption DEF Tick, StreamsInv, StreamsTyped
<1>2. StreamsTyped'
  BY <1>1, Starting DEF StreamsInv, StreamsTyped
<1>3. \A v \in Workers, x \in Objects : Saves(v, x)' <=> IF v = w THEN x = o ELSE Saves(v, x)
  BY Starting DEF Saves
<1>4. RequestsTyped'
  BY <1>3, Starting DEF StreamsInv, RequestsTyped, Saves
<1>5. \A v \in Workers : ~ Saves(v, o)
  BY DEF Free, Saves
<1>6. SavesFit'
  <2> SUFFICES ASSUME NEW v \in Workers, NEW x \in Objects, Saves(v, x)'
               PROVE  /\ \A u \in Workers : Saves(u, x)' => u = v
                      /\ IF x \in Packages /\ pend'[v].private THEN pend'[v].acts = {}
                         ELSE \E a \in pend'[v].acts :
                                /\ pend'[v].acts = {a} /\ a.object = x /\ a.user = req'[v].user
                                /\ a.kind = "new" => state'[x] = None
                                /\ a.kind = "deleted" <=> pend'[v].state = "deleted"
                                /\ x \in Packages => {d \in a.details : d.part # "package"} = req'[v].details
    BY DEF SavesFit
  <2>1. CASE v = w
    <3>1. x = o
      BY <1>3, <2>1
    <3>2. \A u \in Workers : Saves(u, x)' => u = v
      BY <1>3, <1>5, <2>1, <3>1
    <3> QED BY <2>1, <3>1, <3>2, Starting
  <2>2. CASE v # w
    <3>1. Saves(v, x) /\ x # o
      BY <1>3, <1>5, <2>2
    <3>2. \A u \in Workers : Saves(u, x)' => u = v
      BY <1>3, <3>1 DEF StreamsInv, SavesFit
    <3>3. IF x \in Packages /\ pend[v].private THEN pend[v].acts = {}
          ELSE \E a \in pend[v].acts :
                 /\ pend[v].acts = {a} /\ a.object = x /\ a.user = req[v].user
                 /\ a.kind = "new" => state[x] = None
                 /\ a.kind = "deleted" <=> pend[v].state = "deleted"
                 /\ x \in Packages => {d \in a.details : d.part # "package"} = req[v].details
      BY <3>1 DEF StreamsInv, SavesFit
    <3> QED BY <2>2, <3>2, <3>3, Starting
  <2> QED BY <2>1, <2>2
<1>7. TimesApart'
  <2>1. \A a \in acts : a.time \in Nat /\ a.time < clock
    BY DEF StreamsInv, StreamsTyped, TimesApart, Activities
  <2>2. \A v \in Workers \ {w} : pend'[v] = pend[v] /\ \A a \in pend[v].acts : a.time \in Nat /\ a.time < clock
    BY Starting DEF StreamsInv, RequestsTyped, TimesApart, Activities
  <2>3. acts' = acts /\ pend'[w].acts = c.acts /\ \A a \in c.acts : a.time = clock
    BY Starting
  <2>4. \A a, b \in acts' : a.time = b.time => a = b
    BY <2>3 DEF StreamsInv, TimesApart
  <2>5. ASSUME NEW v \in Workers, NEW a \in pend'[v].acts
        PROVE  /\ a.time < clock'
               /\ \A b \in acts' : a.time # b.time
               /\ \A u \in Workers \ {v} : \A b \in pend'[u].acts : a.time # b.time
               /\ \A b \in About(a.object)' : b.time < a.time
    <3>1. CASE v = w
      BY <1>1, <2>1, <2>2, <2>3, <2>5, <3>1 DEF About
    <3>2. CASE v # w
      <4>1. /\ a \in pend[v].acts
            /\ a.time < clock
            /\ \A b \in acts : a.time # b.time
            /\ \A u \in Workers \ {v} : \A b \in pend[u].acts : a.time # b.time
            /\ \A b \in acts : b.object = a.object => b.time < a.time
        BY <2>2, <2>5, <3>2 DEF StreamsInv, TimesApart, About
      <4>2. a.time \in Nat /\ a.time # clock
        BY <1>1, <2>2, <3>2, <4>1
      <4> QED BY <1>1, <2>2, <2>3, <4>1, <4>2 DEF About
    <3> QED BY <3>1, <3>2
  <2>6. \A a \in acts' : a.time < clock'
    BY <1>1, <2>1, <2>3
  <2> QED BY <2>4, <2>5, <2>6 DEF TimesApart
<1>8. MadeFirst' /\ FirstAndLast'
  BY Starting DEF StreamsInv, MadeFirst, FirstAndLast, About, Newer
<1> QED BY <1>2, <1>4, <1>6, <1>7, <1>8 DEF StreamsInv

\* Asking for what changes no object.
LEMMA StartKeeps ==
    ASSUME StreamsInv, NEW w \in Workers, NEW r, NEW c, Start(w, r, c),
           clock' \in {clock, clock + 1} \cap 0 .. MaxTime,
           r.kind \in {"follow", "unfollow", "mark", "open"}, r.user \in Users, r.object \in Objects,
           r.kind \in {"follow", "unfollow"} => r.user \in Followers /\ state[r.object] # None,
           r.kind \in {"mark", "open"} => c.viewed \in Nat, c.acts = {}
    PROVE  StreamsInv'
<1>1. clock \in Nat /\ clock' >= clock /\ clock' \in 0 .. MaxTime
  BY BoundAssumption DEF StreamsInv, StreamsTyped
<1>2. StreamsTyped'
  BY <1>1, Starting DEF StreamsInv, StreamsTyped
<1>3. \A v \in Workers, x \in Objects : Saves(v, x)' <=> Saves(v, x)
  BY Starting DEF Saves
<1>4. RequestsTyped'
  BY <1>3, Starting DEF StreamsInv, RequestsTyped, Saves
<1>5. SavesFit'
  BY <1>3, Starting DEF StreamsInv, SavesFit, Saves
<1>6. TimesApart'
  <2>1. \A a \in acts : a.time \in Nat /\ a.time < clock
    BY DEF StreamsInv, StreamsTyped, TimesApart, Activities
  <2>2. \A v \in Workers : \A a \in pend[v].acts : a.time \in Nat /\ a.time < clock
    BY DEF StreamsInv, RequestsTyped, TimesApart, Activities
  <2>3. \A v \in Workers : pend'[v].acts \subseteq pend[v].acts
    BY Starting
  <2> QED BY <1>1, <2>1, <2>2, <2>3, Starting DEF StreamsInv, TimesApart, About
<1>7. MadeFirst' /\ FirstAndLast'
  BY Starting DEF StreamsInv, MadeFirst, FirstAndLast, About, Newer
<1> QED BY <1>2, <1>4, <1>5, <1>6, <1>7 DEF StreamsInv

LEMMA Ending ==
    ASSUME StreamsInv, NEW w \in Workers, pc[w] = "commit", Done(w)
    PROVE  /\ pc'[w] = "idle" /\ req'[w] = NoRequest /\ pend'[w] = NoChange /\ clock' = clock
           /\ \A v \in Workers \ {w} : pc'[v] = pc[v] /\ req'[v] = req[v] /\ pend'[v] = pend[v]
           /\ pc' \in [Workers -> {"idle", "commit"}] /\ DOMAIN req' = Workers /\ DOMAIN pend' = Workers
           /\ \A v \in Workers, o \in Objects : Saves(v, o)' <=> v # w /\ Saves(v, o)
  BY DEF Done, StreamsInv, StreamsTyped, Saves

LEMMA EndTyped ==
    ASSUME StreamsInv, NEW w \in Workers, pc[w] = "commit", Done(w),
           \A o \in Objects : state[o] # None => state'[o] # None
    PROVE  RequestsTyped'
<1> SUFFICES ASSUME NEW v \in Workers
             PROVE  /\ pc'[v] = "idle" => req'[v] = NoRequest /\ pend'[v] = NoChange
                    /\ pc'[v] = "commit" => /\ req'[v].kind \in {"save", "follow", "unfollow", "mark", "open"}
                                            /\ req'[v].user \in Users /\ req'[v].object \in Objects
                    /\ pend'[v].acts \subseteq Activities
                    /\ \A o \in Objects : Saves(v, o)' => /\ pend'[v].state \in {"active", "deleted"}
                                                          /\ pend'[v].private \in BOOLEAN
                    /\ req'[v].kind \in {"follow", "unfollow"} => /\ req'[v].user \in Followers
                                                                  /\ state'[req'[v].object] # None
                    /\ req'[v].kind \in {"mark", "open"} => pend'[v].viewed \in Nat
                    /\ req'[v].kind # "save" => pend'[v].acts = {}
  BY DEF RequestsTyped
<1>1. CASE v = w
  <2>1. pc'[v] = "idle" /\ req'[v] = NoRequest /\ pend'[v] = NoChange /\ \A o \in Objects : ~ Saves(v, o)'
    BY <1>1, Ending
  <2>2. NoRequest.kind = "none" /\ NoChange.acts = {}
    BY DEF NoRequest, NoChange
  <2> QED BY <2>1, <2>2
<1>2. CASE v # w
  <2>1. req'[v] = req[v] /\ pend'[v] = pend[v] /\ pc'[v] = pc[v]
    BY <1>2, Ending
  <2>2. \A o \in Objects : Saves(v, o)' => Saves(v, o)
    BY Ending
  <2>3. req[v].kind \in {"follow", "unfollow"} => req[v].object \in Objects
    BY DEF StreamsInv, StreamsTyped, RequestsTyped, NoRequest
  <2> QED BY <2>1, <2>2, <2>3 DEF StreamsInv, RequestsTyped
<1> QED BY <1>1, <1>2

\* A request that ends and commits no change of an object.
LEMMA EndKeeps ==
    ASSUME StreamsInv, NEW w \in Workers, pc[w] = "commit", Done(w), UNCHANGED <<acts, state, private>>,
           viewed' \in [Users -> Nat \cup {None}],
           follows' \subseteq Followers \X Objects, IsFiniteSet(follows'),
           \A f \in follows' : state[f[2]] # None
    PROVE  StreamsInv'
<1>1. StreamsTyped'
  BY Ending DEF StreamsInv, StreamsTyped
<1>2. RequestsTyped'
  BY Ending, EndTyped DEF StreamsInv, RequestsTyped
<1>3. SavesFit'
  BY Ending DEF StreamsInv, SavesFit
<1>4. TimesApart'
  <2>1. \A v \in Workers : pend'[v].acts \subseteq pend[v].acts
    BY Ending DEF NoChange
  <2> QED BY <2>1, Ending DEF StreamsInv, TimesApart, About
<1>5. MadeFirst' /\ FirstAndLast'
  BY DEF StreamsInv, MadeFirst, FirstAndLast, About, Newer
<1> QED BY <1>1, <1>2, <1>3, <1>4, <1>5 DEF StreamsInv

LEMMA CommitSaveKeeps ==
    ASSUME StreamsInv, NEW w \in Workers, pc[w] = "commit", Done(w), CommitSave(w)
    PROVE  StreamsInv'
<1>o. PICK o \in Objects : o = req[w].object
  BY DEF StreamsInv, RequestsTyped
<1>s. Saves(w, o)
  BY <1>o DEF Saves, CommitSave
<1> DEFINE new == pend[w].acts
<1>1. /\ acts' = acts \cup new
      /\ state' = [state EXCEPT ![o] = pend[w].state]
      /\ private' = [p \in Packages |-> IF p = o THEN pend[w].private ELSE private[p]]
      /\ UNCHANGED <<follows, viewed>>
  BY <1>o DEF CommitSave
<1>2. /\ new \subseteq Activities /\ pend[w].state \in {"active", "deleted"} /\ pend[w].private \in BOOLEAN
      /\ None \notin {"active", "deleted"}
  BY <1>s, NoneAssumption DEF StreamsInv, RequestsTyped
<1>3. /\ IsFiniteSet(new) /\ \A a, b \in new : a = b
      /\ \A a \in new : /\ a.object = o
                        /\ a.kind = "new" => state[o] = None
                        /\ a.kind = "deleted" <=> pend[w].state = "deleted"
      /\ new = {} => o \in Packages /\ pend[w].private
  <2>1. CASE o \in Packages /\ pend[w].private
    BY <1>s, <2>1, FS_EmptySet DEF StreamsInv, SavesFit
  <2>2. CASE ~ (o \in Packages /\ pend[w].private)
    <3>1. PICK a \in new : /\ new = {a} /\ a.object = o
                           /\ a.kind = "new" => state[o] = None
                           /\ a.kind = "deleted" <=> pend[w].state = "deleted"
      BY <1>s, <2>2 DEF StreamsInv, SavesFit
    <3>2. IsFiniteSet({a})
      BY FS_Singleton
    <3> QED BY <2>2, <3>1, <3>2
  <2> QED BY <2>1, <2>2
<1>4. \A a \in new : /\ a.time < clock /\ \A b \in acts : a.time # b.time
                     /\ \A v \in Workers \ {w} : \A b \in pend[v].acts : a.time # b.time
                     /\ \A b \in About(o) : b.time < a.time
  <2>1. \A a \in pend[w].acts : /\ a.time < clock /\ \A b \in acts : a.time # b.time
                                /\ \A v \in Workers \ {w} : \A b \in pend[v].acts : a.time # b.time
                                /\ \A b \in About(a.object) : b.time < a.time
    BY DEF StreamsInv, TimesApart
  <2> QED BY <1>3, <2>1
<1>5. /\ \A a \in acts \cup new : a.time \in Nat /\ a.object \in Objects
      /\ \A v \in Workers : \A a \in pend[v].acts : a.time \in Nat
  BY <1>2 DEF StreamsInv, StreamsTyped, RequestsTyped, Activities
<1>6. /\ state'[o] = pend[w].state /\ \A x \in Objects \ {o} : state'[x] = state[x]
      /\ o \in Packages => private'[o] = pend[w].private
      /\ \A x \in Packages \ {o} : private'[x] = private[x]
  BY <1>1 DEF StreamsInv, StreamsTyped
<1> HIDE DEF new
<1>7. StreamsTyped'
  <2>1. IsFiniteSet(acts')
    BY <1>1, <1>3, FS_Union DEF StreamsInv, StreamsTyped
  <2> QED BY <1>1, <1>2, <2>1, Ending DEF StreamsInv, StreamsTyped
<1>8. \A x \in Objects : state[x] # None => state'[x] # None
  BY <1>2, <1>6
<1>9. RequestsTyped'
  BY <1>8, EndTyped
<1>10. SavesFit'
  <2> SUFFICES ASSUME NEW v \in Workers, NEW x \in Objects, v # w, Saves(v, x)
               PROVE  /\ \A u \in Workers : u # w /\ Saves(u, x) => u = v
                      /\ IF x \in Packages /\ pend[v].private THEN pend[v].acts = {}
                         ELSE \E a \in pend[v].acts :
                                /\ pend[v].acts = {a} /\ a.object = x /\ a.user = req[v].user
                                /\ a.kind = "new" => state'[x] = None
                                /\ a.kind = "deleted" <=> pend[v].state = "deleted"
                                /\ x \in Packages => {d \in a.details : d.part # "package"} = req[v].details
    BY Ending DEF SavesFit
  <2>1. x # o
    BY <1>s DEF StreamsInv, SavesFit
  <2> QED BY <1>6, <2>1 DEF StreamsInv, SavesFit
<1>11. TimesApart'
  <2>1. /\ \A v \in Workers : pend'[v].acts \subseteq pend[v].acts
        /\ pend'[w].acts = {} /\ clock' = clock
    BY Ending DEF NoChange
  <2>2. ASSUME NEW v \in Workers \ {w}, NEW a \in pend[v].acts
        PROVE  /\ a.time < clock /\ \A b \in acts \cup new : a.time # b.time
               /\ \A u \in Workers \ {v} : \A b \in pend[u].acts : a.time # b.time
               /\ \A b \in acts \cup new : b.object = a.object => b.time < a.time
    <3>1. /\ a.time < clock /\ \A b \in acts : a.time # b.time
          /\ \A u \in Workers \ {v} : \A b \in pend[u].acts : a.time # b.time
          /\ \A b \in acts : b.object = a.object => b.time < a.time
      BY DEF StreamsInv, TimesApart, About
    <3>2. \E x \in Objects : Saves(v, x) /\ a.object = x
      <4>1. req[v].kind = "save" /\ pc[v] = "commit" /\ req[v].object \in Objects
        BY DEF StreamsInv, StreamsTyped, RequestsTyped, NoRequest, NoChange
      <4> QED BY <4>1 DEF Saves, StreamsInv, SavesFit
    <3>3. a.object # o
      BY <1>s, <3>2 DEF StreamsInv, SavesFit
    <3>4. \A b \in new : a.time # b.time /\ b.object # a.object
      BY <1>3, <1>4, <3>3
    <3> QED BY <3>1, <3>4
  <2>3. \A a \in acts \cup new : a.time < clock
    BY <1>4 DEF StreamsInv, TimesApart
  <2>4. \A a, b \in acts \cup new : a.time = b.time => a = b
    BY <1>3, <1>4 DEF StreamsInv, TimesApart
  <2> QED BY <1>1, <2>1, <2>2, <2>3, <2>4 DEF TimesApart, About
<1>12. MadeFirst'
  <2>1. \A a \in acts : a.object \in Objects /\ state[a.object] # None
    BY <1>5 DEF StreamsInv, MadeFirst
  <2>2. \A a \in new : a.object = o /\ state'[o] # None
    BY <1>2, <1>3, <1>6
  <2>3. \A f \in follows : f[2] \in Objects /\ state[f[2]] # None
    BY DEF StreamsInv, StreamsTyped, MadeFirst
  <2> QED BY <1>1, <1>8, <2>1, <2>2, <2>3 DEF MadeFirst
<1>13. FirstAndLast'
  <2> SUFFICES ASSUME NEW x \in Objects, NEW a \in acts \cup new, a.object = x
               PROVE  /\ \A b \in acts \cup new : b.object = x /\ b.kind = "new" => b.time =< a.time
                      /\ (\A b \in acts \cup new : b.object = x => ~ (b.time > a.time))
                           /\ (x \in Packages => ~ private'[x])
                           => (a.kind = "deleted" <=> state'[x] = "deleted")
    BY <1>1 DEF FirstAndLast, About, Newer
  <2>1. CASE x # o
    <3>1. a \in acts /\ \A b \in acts \cup new : b.object = x => b \in acts
      BY <1>3, <2>1
    <3>2. state'[x] = state[x] /\ (x \in Packages => private'[x] = private[x])
      BY <1>6, <2>1
    <3>3. /\ \A b \in acts : b.object = x /\ b.kind = "new" => b.time =< a.time
          /\ (\A b \in acts : b.object = x => ~ (b.time > a.time)) /\ (x \in Packages => ~ private[x])
               => (a.kind = "deleted" <=> state[x] = "deleted")
      BY <3>1 DEF StreamsInv, FirstAndLast, About, Newer
    <3> QED BY <3>1, <3>2, <3>3
  <2>2. CASE x = o
    <3>1. CASE a \in new
      <4>1. \A b \in acts \cup new : b.object = x => b.time =< a.time
        BY <1>3, <1>4, <1>5, <2>2, <3>1 DEF About
      <4> QED BY <1>3, <1>6, <2>2, <3>1, <4>1
    <3>2. CASE a \notin new
      <4>1. a \in acts /\ state[o] # None
        BY <2>2, <3>2 DEF StreamsInv, MadeFirst
      <4>2. \A b \in acts \cup new : b.object = x /\ b.kind = "new" => b.time =< a.time
        BY <1>3, <2>2, <4>1 DEF StreamsInv, FirstAndLast, About
      <4>3. new # {} => \E b \in new : b.object = x /\ b.time > a.time
        BY <1>3, <1>4, <1>5, <2>2, <4>1 DEF About
      <4>4. CASE new = {}
        BY <1>3, <1>6, <2>2, <4>2, <4>4
      <4>5. CASE new # {}
        BY <4>2, <4>3, <4>5
      <4> QED BY <4>4, <4>5
    <3> QED BY <3>1, <3>2
  <2> QED BY <2>1, <2>2
<1> QED BY <1>7, <1>9, <1>10, <1>11, <1>12, <1>13 DEF StreamsInv

LEMMA SavePackageKeeps ==
    ASSUME StreamsInv, NEW w \in Workers, NEW u \in Users, NEW p \in Packages, NEW s \in {"active", "deleted"},
           NEW hidden \in BOOLEAN, NEW details \in Edits, SavePackage(w, u, p, s, hidden, details)
    PROVE  StreamsInv'
<1>k. PICK how \in {"new", "changed"} : how = IF state[p] = None THEN "new" ELSE "changed"
  OBVIOUS
<1> DEFINE logs == PackageActivities(u, p, how, s, hidden, details)
           r == [kind |-> "save", user |-> u, object |-> p, details |-> details]
           c == [acts |-> logs, state |-> s, private |-> hidden, viewed |-> 0]
           said == ItemKind(how, s)
           a == Activity(u, p, said, details \cup {[part |-> "package", kind |-> said]})
<1>1. Free(p) /\ Start(w, r, c) /\ Tick /\ (how = "new" => s = "active")
  BY <1>k DEF SavePackage
<1>2. said \in Kinds /\ (said = "new" => state[p] = None) /\ (said = "deleted" <=> s = "deleted")
  BY <1>k, <1>1 DEF ItemKind, Kinds
<1>3. details \subseteq {d \in Details : d.part # "package"}
  BY EditsAssumption
<1> HIDE DEF said
<1>4. /\ a \in Activities /\ a.time = clock /\ a.object = p /\ a.user = u /\ a.kind = said
      /\ {d \in a.details : d.part # "package"} = details
  <2>1. [part |-> "package", kind |-> said] \in Details
    BY <1>2 DEF Details
  <2>2. clock \in Nat /\ p \in Objects
    BY BoundAssumption DEF StreamsInv, StreamsTyped, Objects
  <2>3. a.details = details \cup {[part |-> "package", kind |-> said]}
    BY DEF Activity
  <2>4. {d \in a.details : d.part # "package"} = details
    BY <1>3, <2>3
  <2> QED BY <1>2, <1>3, <2>1, <2>2, <2>4 DEF Activity, Activities
<1>5. logs = IF hidden THEN {} ELSE {a}
  BY DEF PackageActivities, said
<1> HIDE DEF logs, a
<1>6. p \in Objects
  BY DEF Objects
<1>7. r.kind = "save" /\ r.object = p /\ r.user = u /\ r.details = details
  OBVIOUS
<1>8. c.acts = logs /\ c.state = s /\ c.private = hidden
  OBVIOUS
<1> HIDE DEF r, c
<1>9. c.acts \subseteq Activities /\ \A b \in c.acts : b.time = clock /\ b.object = p
  BY <1>4, <1>5, <1>8
<1>10. IF p \in Packages /\ c.private THEN c.acts = {}
       ELSE \E b \in c.acts :
              /\ c.acts = {b} /\ b.object = p /\ b.user = r.user
              /\ b.kind = "new" => state[p] = None
              /\ b.kind = "deleted" <=> c.state = "deleted"
              /\ p \in Packages => {d \in b.details : d.part # "package"} = r.details
  BY <1>2, <1>4, <1>5, <1>7, <1>8
<1> QED BY <1>1, <1>6, <1>7, <1>8, <1>9, <1>10, SaveKeeps

LEMMA SaveOtherKeeps ==
    ASSUME StreamsInv, NEW w \in Workers, NEW u \in Users, NEW o \in Users \cup Groups,
           NEW s \in {"active", "deleted"}, SaveOther(w, u, o, s)
    PROVE  StreamsInv'
<1> DEFINE a == Activity(u, o, ItemKind("changed", s), {})
           r == [kind |-> "save", user |-> u, object |-> o]
           c == [acts |-> {a}, state |-> s, private |-> FALSE, viewed |-> 0]
<1>1. Free(o) /\ Start(w, r, c) /\ Tick /\ o \in Objects /\ o \notin Packages
  BY ObjectsAssumption DEF SaveOther, Objects
<1>2. /\ a \in Activities /\ a.time = clock /\ a.object = o /\ a.user = u
      /\ a.kind # "new" /\ (a.kind = "deleted" <=> s = "deleted")
  BY <1>1, BoundAssumption
     DEF Activity, Activities, ItemKind, Kinds, StreamsInv, StreamsTyped
<1> HIDE DEF a
<1>3. r.kind = "save" /\ r.object = o /\ r.user = u /\ c.acts = {a} /\ c.state = s /\ c.private = FALSE
  OBVIOUS
<1> HIDE DEF r, c
<1> QED BY <1>1, <1>2, <1>3, SaveKeeps

LEMMA CommitFollowKeeps ==
    ASSUME StreamsInv, NEW w \in Workers, pc[w] = "commit", Done(w), CommitFollow(w)
    PROVE  StreamsInv'
<1> DEFINE row == <<req[w].user, req[w].object>>
<1>1. row \in Followers \X Objects /\ row[2] = req[w].object /\ state[row[2]] # None
  BY DEF CommitFollow, StreamsInv, RequestsTyped
<1>2. follows' \in {follows \cup {row}, follows \ {row}} /\ UNCHANGED <<acts, state, private, viewed>>
  BY DEF CommitFollow
<1> HIDE DEF row
<1>3. IsFiniteSet(follows')
  BY <1>2, FS_AddElement, FS_RemoveElement DEF StreamsInv, StreamsTyped
<1>4. follows' \subseteq Followers \X Objects /\ \A f \in follows' : state[f[2]] # None
  BY <1>1, <1>2 DEF StreamsInv, StreamsTyped, MadeFirst
<1>5. viewed' \in [Users -> Nat \cup {None}]
  BY <1>2 DEF StreamsInv, StreamsTyped
<1> QED BY <1>2, <1>3, <1>4, <1>5, EndKeeps

LEMMA StreamsStep == StreamsInv /\ [Next]_vars => StreamsInv'
<1> SUFFICES ASSUME StreamsInv, [Next]_vars PROVE StreamsInv'
  OBVIOUS
<1>0. clock \in 0 .. MaxTime /\ clock \in Nat /\ (Tick => clock' = clock + 1 /\ clock' \in 0 .. MaxTime)
  BY BoundAssumption DEF StreamsInv, StreamsTyped, Tick
<1>1. ASSUME NEW w \in Workers, NEW u \in Users, NEW o \in Groups, NEW s \in {"active", "deleted"},
             SaveOther(w, u, o, s)
      PROVE  StreamsInv'
  BY <1>1, SaveOtherKeeps
<1>2. ASSUME NEW w \in Workers, NEW u \in Users, SaveOther(w, u, u, "active")
      PROVE  StreamsInv'
  BY <1>2, SaveOtherKeeps
<1>3. ASSUME NEW w \in Workers, NEW u \in Followers, NEW o \in Objects, Follow(w, u, o) \/ Unfollow(w, u, o)
      PROVE  StreamsInv'
  <2>1. state[o] # None
    BY <1>3 DEF Follow, Unfollow, Follows, Followees, StreamsInv, MadeFirst
  <2>2. PICK k \in {"follow", "unfollow"} : Start(w, [kind |-> k, user |-> u, object |-> o], NoChange)
    BY <1>3 DEF Follow, Unfollow
  <2>3. clock' = clock /\ u \in Users /\ NoChange.acts = {}
    BY <1>3, ObjectsAssumption DEF Follow, Unfollow, NoChange
  <2> QED BY <1>0, <2>1, <2>2, <2>3, StartKeeps
<1>4. ASSUME NEW w \in Workers, NEW u \in Followers, MarkOld(w, u) \/ OpenDashboard(w, u)
      PROVE  StreamsInv'
  <2> DEFINE c == [NoChange EXCEPT !.viewed = clock]
  <2>1. PICK k \in {"mark", "open"} : Start(w, [kind |-> k, user |-> u, object |-> u], c)
    BY <1>4 DEF MarkOld, OpenDashboard
  <2>2. Tick /\ u \in Users /\ u \in Objects /\ c.acts = {} /\ c.viewed = clock
    BY <1>4, ObjectsAssumption DEF MarkOld, OpenDashboard, NoChange, Objects
  <2> HIDE DEF c
  <2> QED BY <1>0, <2>1, <2>2, StartKeeps
<1>5. ASSUME NEW w \in Workers, Commit(w) PROVE StreamsInv'
  <2>1. pc[w] = "commit" /\ Done(w) /\ (CommitSave(w) \/ CommitFollow(w) \/ CommitViewed(w))
    BY <1>5 DEF Commit
  <2>2. ASSUME CommitViewed(w) PROVE StreamsInv'
    <3>1. pend[w].viewed \in Nat
      BY <2>2 DEF CommitViewed, StreamsInv, RequestsTyped
    <3>2. viewed' \in [Users -> Nat \cup {None}]
      BY <2>2, <3>1 DEF CommitViewed, StreamsInv, StreamsTyped
    <3>3. /\ UNCHANGED <<acts, state, private>>
          /\ follows' \subseteq Followers \X Objects /\ IsFiniteSet(follows')
          /\ \A f \in follows' : state[f[2]] # None
      BY <2>2 DEF CommitViewed, StreamsInv, StreamsTyped, MadeFirst
    <3> QED BY <2>1, <3>2, <3>3, EndKeeps
  <2> QED BY <2>1, <2>2, CommitSaveKeeps, CommitFollowKeeps
<1>6. ASSUME NEW w \in Workers, Abort(w) PROVE StreamsInv'
  <2>1. pc[w] = "commit" /\ Done(w) /\ UNCHANGED <<acts, state, private, follows, viewed>>
    BY <1>6 DEF Abort, tables
  <2>2. /\ viewed' \in [Users -> Nat \cup {None}]
        /\ follows' \subseteq Followers \X Objects /\ IsFiniteSet(follows')
        /\ \A f \in follows' : state[f[2]] # None
    BY <2>1 DEF StreamsInv, StreamsTyped, MadeFirst
  <2> QED BY <2>1, <2>2, EndKeeps
<1>7. CASE UNCHANGED vars
  BY <1>7 DEF vars, StreamsInv, StreamsTyped, RequestsTyped, SavesFit, TimesApart, MadeFirst,
              FirstAndLast, Saves, About, Newer
<1> QED BY <1>1, <1>2, <1>3, <1>4, <1>5, <1>6, <1>7, SavePackageKeeps DEF Next

LEMMA StreamsHold == CatalogueSpec => []StreamsInv
  BY CatalogueRunsStreams, StreamsInit, StreamsStep, PTL DEF Spec

\* Whatever else happens, an edit of a dataset that leaves it public adds one activity, with
\* a detail for each row that it changed, and one that leaves it private adds none.
THEOREM EveryEditIsLogged == CatalogueSpec => EditsAreLogged
<1>1. ASSUME StreamsInv, NEW w \in Workers, req[w].kind = "save", CommitSave(w),
             NEW p \in Packages \cap {req[w].object}
      PROVE  LET new == acts' \ acts
             IN  IF private'[p] THEN new = {}
                 ELSE \E a \in new : /\ new = {a} /\ a.object = p /\ a.user = req[w].user
                                     /\ {d \in a.details : d.part # "package"} = req[w].details
  <2>1. Saves(w, p) /\ p \in Objects
    BY <1>1, ObjectsAssumption DEF Saves, Objects, StreamsInv, StreamsTyped, RequestsTyped, NoRequest
  <2>2. acts' = acts \cup pend[w].acts /\ private'[p] = pend[w].private
    BY <1>1 DEF CommitSave
  <2>3. \A a \in pend[w].acts : a \notin acts
    BY <1>1 DEF StreamsInv, TimesApart
  <2> QED BY <1>1, <2>1, <2>2, <2>3 DEF StreamsInv, SavesFit
<1>2. StreamsInv => [\A w \in Workers : req[w].kind = "save" /\ CommitSave(w) =>
         \A p \in Packages \cap {req[w].object} :
           LET new == acts' \ acts
           IN  IF private'[p] THEN new = {}
               ELSE \E a \in new : /\ new = {a} /\ a.object = p /\ a.user = req[w].user
                                   /\ {d \in a.details : d.part # "package"} = req[w].details]_vars
  BY <1>1
<1> QED BY <1>2, StreamsHold, PTL DEF EditsAreLogged

\* A request that marks a dashboard moves its time forward; no user has two of them.
ViewsForward ==
    /\ \A u \in Users : viewed[u] # None => viewed[u] =< clock
    /\ \A w \in Workers : req[w].kind \in {"mark", "open"} => pend[w].viewed =< clock
    /\ \A w \in Workers, u \in Users : Marks(w, u) =>
         /\ viewed[u] # None /\ viewed[u] =< pend[w].viewed
         /\ \A v \in Workers : Marks(v, u) => v = w

ViewsKept(u) == viewed[u] # None => viewed'[u] # None /\ viewed'[u] >= viewed[u]

LEMMA ViewsStep ==
    ASSUME ~ Crossing, StreamsInv, ViewsForward, [Next]_vars
    PROVE  ViewsForward' /\ \A u \in Users : ViewsKept(u)
<1>0. /\ clock \in Nat /\ \A u \in Users : viewed[u] \in Nat \cup {None}
      /\ \A w \in Workers : req[w].kind \in {"mark", "open"} => pend[w].viewed \in Nat
      /\ \A w \in Workers, u \in Users : Marks(w, u) => pend[w].viewed \in Nat
      /\ \A w \in Workers : pc[w] = "idle" => req[w] = NoRequest
      /\ None \notin Nat
  BY BoundAssumption, NoneAssumption DEF StreamsInv, StreamsTyped, RequestsTyped, Marks
\* A request that starts.
<1>1. ASSUME NEW w \in Workers, NEW r, NEW c, Start(w, r, c), clock' \in {clock, clock + 1},
             r.kind \in {"mark", "open"} => c.viewed = clock,
             \A u \in Users : r.kind = "mark" /\ r.user = u =>
               viewed[u] # None /\ \A v \in Workers : ~ Marks(v, u)
      PROVE  ViewsForward' /\ \A u \in Users : ViewsKept(u)
  <2>1. viewed' = viewed /\ clock' >= clock /\ clock' \in Nat
    BY <1>0, <1>1, Starting
  <2>2. \A v \in Workers, u \in Users :
          Marks(v, u)' <=> IF v = w THEN r.kind = "mark" /\ r.user = u ELSE Marks(v, u)
    BY <1>1, Starting DEF Marks
  <2>3. \A u \in Users : viewed'[u] # None => viewed'[u] =< clock'
    BY <1>0, <2>1 DEF ViewsForward
  <2>4. \A v \in Workers : req'[v].kind \in {"mark", "open"} => pend'[v].viewed =< clock'
    BY <1>0, <1>1, <2>1, Starting DEF ViewsForward
  <2>5. ASSUME NEW v \in Workers, NEW u \in Users, Marks(v, u)'
        PROVE  /\ viewed[u] # None /\ viewed[u] =< pend'[v].viewed
               /\ \A x \in Workers : Marks(x, u)' => x = v
    <3>1. CASE v = w
      BY <1>0, <1>1, <2>2, <2>5, <3>1, Starting DEF ViewsForward
    <3>2. CASE v # w
      BY <1>1, <2>2, <2>5, <3>2, Starting DEF ViewsForward
    <3> QED BY <3>1, <3>2
  <2>6. \A u \in Users : ViewsKept(u)
    BY <1>0, <2>1 DEF ViewsKept
  <2> QED BY <2>1, <2>3, <2>4, <2>5, <2>6 DEF ViewsForward
\* A request that ends, and sets the time of the dashboard it is about.
<1>2. ASSUME NEW w \in Workers, pc[w] = "commit", Done(w), viewed' = viewed \/ CommitViewed(w)
      PROVE  ViewsForward' /\ \A u \in Users : ViewsKept(u)
  <2>1. \A v \in Workers, u \in Users : Marks(v, u)' => v # w /\ Marks(v, u)
    BY <1>2, Ending DEF Marks, NoRequest
  <2>2. \A u \in Users : \/ viewed'[u] = viewed[u]
                         \/ viewed'[u] = pend[w].viewed /\ Marks(w, u)
                         \/ viewed'[u] = pend[w].viewed /\ viewed[u] = None /\ req[w].kind = "open"
    BY <1>2 DEF CommitViewed, Marks, StreamsInv, StreamsTyped
  <2>3. \A u \in Users : ViewsKept(u)
    BY <1>0, <2>2 DEF ViewsKept, ViewsForward
  <2>4. \A u \in Users : viewed'[u] # None => viewed'[u] =< clock'
    BY <1>0, <1>2, <2>2, Ending DEF ViewsForward, Marks
  <2>5. \A v \in Workers : req'[v].kind \in {"mark", "open"} => pend'[v].viewed =< clock'
    BY <1>2, Ending DEF ViewsForward, NoRequest
  <2>6. ASSUME NEW v \in Workers, NEW u \in Users, Marks(v, u)'
        PROVE  viewed'[u] # None /\ viewed'[u] =< pend'[v].viewed
    <3>1. v # w /\ Marks(v, u) /\ pend'[v] = pend[v]
      BY <1>2, <2>1, <2>6, Ending
    <3>2. viewed'[u] = viewed[u]
      BY <2>2, <3>1 DEF ViewsForward
    <3> QED BY <3>1, <3>2 DEF ViewsForward
  <2> QED BY <2>1, <2>3, <2>4, <2>5, <2>6 DEF ViewsForward
<1>3. ASSUME NEW w \in Workers, NEW r, NEW c, Start(w, r, c), clock' \in {clock, clock + 1},
             r.kind \in {"save", "follow", "unfollow"}
      PROVE  ViewsForward' /\ \A u \in Users : ViewsKept(u)
  BY <1>1, <1>3
<1>4. ASSUME NEW w \in Workers, NEW u \in Users, NEW o \in Objects, NEW s, NEW hidden, NEW details,
             SavePackage(w, u, o, s, hidden, details) \/ SaveOther(w, u, o, s)
      PROVE  ViewsForward' /\ \A x \in Users : ViewsKept(x)
  <2>1. \E r, c : Start(w, r, c) /\ r.kind = "save"
    <3>1. CASE SavePackage(w, u, o, s, hidden, details)
      <4> DEFINE r == [kind |-> "save", user |-> u, object |-> o, details |-> details]
      <4>1. r.kind = "save" /\ \E c : Start(w, r, c)
        BY <3>1 DEF SavePackage
      <4> HIDE DEF r
      <4> QED BY <4>1
    <3>2. CASE SaveOther(w, u, o, s)
      <4> DEFINE r == [kind |-> "save", user |-> u, object |-> o]
      <4>1. r.kind = "save" /\ \E c : Start(w, r, c)
        BY <3>2 DEF SaveOther
      <4> HIDE DEF r
      <4> QED BY <4>1
    <3> QED BY <1>4, <3>1, <3>2
  <2>2. clock' = clock + 1
    BY <1>4 DEF SavePackage, SaveOther, Tick
  <2> QED BY <1>3, <2>1, <2>2
<1>5. ASSUME NEW w \in Workers, NEW u \in Followers, NEW o \in Objects, Follow(w, u, o) \/ Unfollow(w, u, o)
      PROVE  ViewsForward' /\ \A x \in Users : ViewsKept(x)
  <2>1. PICK k \in {"follow", "unfollow"} : Start(w, [kind |-> k, user |-> u, object |-> o], NoChange)
    BY <1>5 DEF Follow, Unfollow
  <2>2. clock' = clock
    BY <1>5 DEF Follow, Unfollow
  <2> QED BY <1>3, <2>1, <2>2
<1>6. ASSUME NEW w \in Workers, NEW u \in Followers, MarkOld(w, u) \/ OpenDashboard(w, u)
      PROVE  ViewsForward' /\ \A x \in Users : ViewsKept(x)
  <2> DEFINE c == [NoChange EXCEPT !.viewed = clock]
  <2>1. c.viewed = clock /\ clock' = clock + 1
    BY <1>6 DEF NoChange, MarkOld, OpenDashboard, Tick
  <2>2. CASE OpenDashboard(w, u)
    <3>1. Start(w, [kind |-> "open", user |-> u, object |-> u], c)
      BY <2>2 DEF OpenDashboard
    <3> HIDE DEF c
    <3> QED BY <1>1, <2>1, <3>1
  <2>3. CASE MarkOld(w, u)
    <3>1. Start(w, [kind |-> "mark", user |-> u, object |-> u], c)
      BY <2>3 DEF MarkOld
    <3>2. viewed[u] # None /\ \A v \in Workers : ~ Marks(v, u)
      BY <2>3 DEF MarkOld, Marks
    <3> HIDE DEF c
    <3> QED BY <1>1, <2>1, <3>1, <3>2
  <2> QED BY <1>6, <2>2, <2>3
<1>7. ASSUME NEW w \in Workers, Commit(w) \/ Abort(w)
      PROVE  ViewsForward' /\ \A x \in Users : ViewsKept(x)
  BY <1>2, <1>7 DEF Commit, Abort, CommitSave, CommitFollow, tables
<1>8. CASE UNCHANGED vars
  BY <1>0, <1>8 DEF vars, ViewsForward, ViewsKept, Marks
<1>9. /\ \A w \in Workers, u \in Users, p \in Packages, s \in {"active", "deleted"}, hidden \in BOOLEAN,
            details \in Edits : SavePackage(w, u, p, s, hidden, details) =>
              ViewsForward' /\ \A x \in Users : ViewsKept(x)
      /\ \A w \in Workers, u \in Users, o \in Users \cup Groups : \A s : SaveOther(w, u, o, s) =>
           ViewsForward' /\ \A x \in Users : ViewsKept(x)
  BY <1>4 DEF Objects
<1> QED BY <1>5, <1>6, <1>7, <1>8, <1>9 DEF Next

\* What a user has been shown as old does not come back as new, when no user marks a
\* dashboard in two requests at once: dashboard_mark_activities_old takes the time at the
\* beginning of its request and writes it at the end.
THEOREM OldStaysOldThere == ~ Crossing => (CatalogueSpec => OldStaysOld)
<1> SUFFICES ASSUME ~ Crossing PROVE CatalogueSpec => OldStaysOld
  OBVIOUS
<1>1. Init => ViewsForward
  BY DEF Init, ViewsForward, Marks, NoRequest
<1>2. StreamsInv /\ ViewsForward /\ [Next]_vars => ViewsForward'
  BY ViewsStep
<1>3. StreamsInv /\ ViewsForward /\ [Next]_vars =>
        [\A u \in Users, a \in acts : viewed[u] # None /\ ~ IsNew(a, u) => ~ IsNew(a, u)']_vars
  <2> SUFFICES ASSUME StreamsInv, ViewsForward, [Next]_vars, NEW u \in Users, NEW a \in acts,
                      viewed[u] # None, ~ IsNew(a, u)
               PROVE  ~ IsNew(a, u)'
    OBVIOUS
  <2>1. ViewsKept(u) /\ viewed[u] \in Nat /\ a.time \in Nat
    BY ViewsStep DEF StreamsInv, StreamsTyped, Activities
  <2>2. ViewsKept(u) /\ (StreamsTyped)'
    BY ViewsStep, StreamsStep DEF StreamsInv
  <2>3. viewed'[u] \in Nat
    BY <2>1, <2>2 DEF StreamsTyped, ViewsKept
  <2> QED BY <2>1, <2>3 DEF IsNew, ViewsKept
<1> QED BY <1>1, <1>2, <1>3, StreamsHold, CatalogueRunsStreams, PTL DEF OldStaysOld, Spec

-----------------------------------------------------------------------------
(***************************************************************************)
(* What the queries of the streams return.                                 *)
(***************************************************************************)
LEMMA ActsStamped ==
    ASSUME StreamsInv, NEW S \in SUBSET acts
    PROVE  Stamped(S) /\ \A a \in S : a.time \in 0 .. MaxTime
<1>1. IsFiniteSet(S)
  BY FS_Subset DEF StreamsInv, StreamsTyped
<1>2. \A a \in S : a.time \in Nat /\ a.time < clock
  BY DEF StreamsInv, StreamsTyped, TimesApart, Activities
<1> QED BY <1>1, <1>2, BoundAssumption DEF Stamped, StreamsInv, StreamsTyped

LEMMA FirstIn == \A S, n : First(S, n) \subseteq S
  BY DEF First, Limited

\* A page of a stream that asks two queries for as many as the page may need.
LEMMA PageOfTwo ==
    ASSUME StreamsInv, NEW u \in Users, NEW limit \in Nat, NEW offset \in Nat
    PROVE  Limited(UserStream(u, limit + offset), limit, offset) = Limited(From(u) \cup About(u), limit, offset)
<1> DEFINE S == From(u) \cup About(u)
           n == limit + offset
<1>1. S \in SUBSET acts /\ n \in Nat
  BY DEF From, About
<1>2. Stamped(S) /\ \A a \in S : a.time \in 0 .. MaxTime
  BY <1>1, ActsStamped
<1>3. UserStream(u, n) \in SUBSET S
  BY FirstIn DEF UserStream
<1>4. From(u) \in SUBSET S /\ About(u) \in SUBSET S
  OBVIOUS
<1> HIDE DEF S, n
<1>5. First(S, n) \cap From(u) \subseteq First(From(u), n) /\ First(S, n) \cap About(u) \subseteq First(About(u), n)
  BY <1>1, <1>2, <1>4, FirstOfPart
<1>6. First(S, n) \subseteq UserStream(u, n)
  BY <1>5, FirstIn DEF UserStream, S
<1> QED BY <1>2, <1>3, <1>6, PageOfPart, BoundAssumption DEF S, n

LEMMA FollowedAreMade ==
    ASSUME StreamsInv, NEW u, NEW class, NEW o \in Followees(u, class)
    PROVE  state[o] # None
  BY DEF Followees, StreamsInv, MadeFirst

\* The dashboard asks a query of each object that is followed, and of each of them for as
\* many as the page may need.
LEMMA DashboardWithin ==
    ASSUME StreamsInv, NEW u \in Users, NEW n \in Nat
    PROVE  DashboardQuery(u, n) \subseteq Stream(u) /\ First(Stream(u), n) \subseteq DashboardQuery(u, n)
<1>1. Stream(u) \in SUBSET acts
  BY DEF Stream
<1>2. Stamped(Stream(u))
  BY <1>1, ActsStamped
<1>3. ASSUME NEW T \in SUBSET Stream(u) PROVE First(Stream(u), n) \cap T \subseteq First(T, n)
  BY <1>2, FirstOfPart
<1>4. ASSUME NEW v \in {u} \cup Followees(u, Users)
      PROVE  From(v) \subseteq Stream(u) /\ About(v) \subseteq Stream(u)
  BY DEF From, About, Stream
<1>5. ASSUME NEW p \in Followees(u, Packages) PROVE PackageStream(p) \subseteq Stream(u)
  BY DEF PackageStream, About, Stream
<1>6. ASSUME NEW g \in Followees(u, Groups)
      PROVE  /\ GroupStream(g) \subseteq Stream(u)
             /\ GroupStream(g) = About(g) \cup UNION {About(p) : p \in Shown(g)}
  <2>1. GroupStream(g) = About(g) \cup UNION {About(p) : p \in Shown(g)}
    BY FollowedAreMade DEF GroupStream
  <2> QED BY <2>1 DEF About, Stream
<1>7. DashboardQuery(u, n) \subseteq Stream(u)
  <2>1. UserStream(u, n) \subseteq Stream(u)
    BY <1>4, FirstIn DEF UserStream
  <2>2. FollowedUsers(u, n) \subseteq Stream(u)
    BY <1>4, FirstIn DEF FollowedUsers, UserStream
  <2>3. FollowedPackages(u, n) \subseteq Stream(u)
    BY <1>5, FirstIn DEF FollowedPackages
  <2>4. FollowedGroups(u, n) \subseteq Stream(u)
    BY <1>6, FirstIn DEF FollowedGroups
  <2> QED BY <2>1, <2>2, <2>3, <2>4 DEF DashboardQuery, Followed
<1>8. ASSUME NEW a \in First(Stream(u), n) PROVE a \in DashboardQuery(u, n)
  <2>1. a \in Stream(u) /\ a \in acts
    BY <1>1, FirstIn
  <2>2. CASE \E v \in {u} \cup Followees(u, Users) : a \in From(v) \cup About(v)
    <3>1. PICK v \in {u} \cup Followees(u, Users) : a \in From(v) \cup About(v)
      BY <2>2
    <3>2. a \in UserStream(v, n)
      BY <1>3, <1>4, <3>1 DEF UserStream
    <3> QED BY <3>1, <3>2 DEF DashboardQuery, Followed, FollowedUsers
  <2>3. CASE \E p \in Followees(u, Packages) : a \in PackageStream(p)
    <3>1. PICK p \in Followees(u, Packages) : a \in PackageStream(p)
      BY <2>3
    <3>2. a \in First(PackageStream(p), n)
      BY <1>3, <1>5, <3>1
    <3> QED BY <3>1, <3>2 DEF DashboardQuery, Followed, FollowedPackages
  <2>4. CASE \E g \in Followees(u, Groups) : a \in GroupStream(g)
    <3>1. PICK g \in Followees(u, Groups) : a \in GroupStream(g)
      BY <2>4
    <3>2. a \in First(GroupStream(g), n)
      BY <1>3, <1>6, <3>1
    <3> QED BY <3>1, <3>2 DEF DashboardQuery, Followed, FollowedGroups
  <2>5. \/ \E v \in {u} \cup Followees(u, Users) : a \in From(v) \cup About(v)
        \/ \E p \in Followees(u, Packages) : a \in PackageStream(p)
        \/ \E g \in Followees(u, Groups) : a \in About(g) \cup UNION {About(p) : p \in Shown(g)}
    BY <2>1 DEF Stream, From, About, PackageStream
  <2> QED BY <1>6, <2>2, <2>3, <2>4, <2>5
<1> QED BY <1>7, <1>8

LEMMA DashboardPage ==
    ASSUME StreamsInv, NEW u \in Users, NEW limit \in Nat, NEW offset \in Nat
    PROVE  Page(u, limit, offset) = Limited(Stream(u), limit, offset)
<1>1. limit + offset \in Nat
  OBVIOUS
<1>2. /\ DashboardQuery(u, limit + offset) \in SUBSET Stream(u)
      /\ First(Stream(u), limit + offset) \subseteq DashboardQuery(u, limit + offset)
  BY <1>1, DashboardWithin
<1>3. Stamped(Stream(u)) /\ \A a \in Stream(u) : a.time \in 0 .. MaxTime
  BY ActsStamped DEF Stream
<1> QED BY <1>2, <1>3, PageOfPart, BoundAssumption DEF Page

LEMMA PagesSlice == StreamsInv => PagesAreSlices
<1> SUFFICES ASSUME StreamsInv, NEW limit \in 1 .. 2, NEW offset \in 1 .. 2
             PROVE  /\ \A u \in Followers :
                         Dashboard(u, limit, offset) = Filtered(Limited(Stream(u), limit, offset))
                    /\ \A u \in Users :
                         UserActivities(u, limit, offset) =
                           Filtered(Limited(From(u) \cup About(u), limit, offset))
  BY DEF PagesAreSlices
<1>1. limit \in Nat /\ offset \in Nat /\ Followers \subseteq Users
  BY ObjectsAssumption
<1> QED BY <1>1, DashboardPage, PageOfTwo DEF Dashboard, UserActivities

LEMMA TwoPages ==
    ASSUME StreamsInv, NEW S \in SUBSET acts
    PROVE  Filtered(Limited(S, 1, 0)) \cup Filtered(Limited(S, 1, 1)) = Filtered(Limited(S, 2, 0))
<1>1. \A a \in S : Cardinality(Newer(a, S)) \in Nat
  BY ActsStamped, NewerRank
<1> QED BY <1>1 DEF Filtered, Limited

LEMMA PagesAdd == StreamsInv => PagesAddUp
<1> SUFFICES ASSUME StreamsInv, NEW g \in Groups, NEW p \in Packages
             PROVE  /\ GroupActivities(g, 1, 0) \cup GroupActivities(g, 1, 1) = GroupActivities(g, 2, 0)
                    /\ PackageActivityList(p, 1, 0) \cup PackageActivityList(p, 1, 1)
                         = PackageActivityList(p, 2, 0)
                    /\ RecentlyChanged(1, 0) \cup RecentlyChanged(1, 1) = RecentlyChanged(2, 0)
  BY DEF PagesAddUp
<1>1. GroupStream(g) \subseteq acts /\ PackageStream(p) \subseteq acts /\ {a \in acts : a.object \in Packages} \subseteq acts
  BY DEF GroupStream, PackageStream, About
<1> QED BY <1>1, TwoPages DEF GroupActivities, PackageActivityList, RecentlyChanged

LEMMA RoomForAll ==
    ASSUME StreamsInv, NEW S \in SUBSET acts
    PROVE  Limited(S, MaxTime, 0) = S
<1> SUFFICES ASSUME NEW a \in S
             PROVE  0 =< Cardinality(Newer(a, S)) /\ Cardinality(Newer(a, S)) < 0 + MaxTime
  BY DEF Limited
<1> DEFINE f == [b \in Newer(a, S) |-> b.time]
<1>1. \A b \in S : b.time \in Nat /\ b.time < clock /\ \A c \in S : b.time = c.time => b = c
  BY DEF StreamsInv, StreamsTyped, TimesApart, Activities
<1>2. clock \in 0 .. MaxTime /\ clock \in Nat /\ MaxTime \in Nat
  BY BoundAssumption DEF StreamsInv, StreamsTyped
<1>3. f \in Injection(Newer(a, S), 1 .. (clock - 1))
  <2>1. \A b \in Newer(a, S) : b \in S /\ b.time > a.time
    BY DEF Newer
  <2>2. \A b \in Newer(a, S) : b.time \in 1 .. (clock - 1)
    BY <1>1, <1>2, <2>1
  <2>3. f \in [Newer(a, S) -> 1 .. (clock - 1)]
    BY <2>2
  <2>4. \A b, c \in Newer(a, S) : f[b] = f[c] => b = c
    BY <1>1, <2>1
  <2> HIDE DEF f
  <2> QED BY <2>3, <2>4 DEF Injection, IsInjective
<1>4. clock - 1 \in Nat /\ IsFiniteSet(1 .. (clock - 1)) /\ Cardinality(1 .. (clock - 1)) = clock - 1
  <2>1. clock - 1 \in Nat /\ 1 \in Int /\ clock - 1 \in Int
    BY <1>1, <1>2
  <2>2. /\ IsFiniteSet(1 .. (clock - 1))
        /\ Cardinality(1 .. (clock - 1)) = IF 1 > clock - 1 THEN 0 ELSE (clock - 1) - 1 + 1
    BY <2>1, FS_Interval
  <2> QED BY <2>1, <2>2
<1>5. Cardinality(Newer(a, S)) =< clock - 1
  BY <1>3, <1>4, FS_Injection
<1>6. Cardinality(Newer(a, S)) \in Nat
  BY NewerRank, ActsStamped
<1> QED BY <1>2, <1>4, <1>5, <1>6

LEMMA FollowedFinite ==
    ASSUME StreamsInv, NEW u, NEW class
    PROVE  IsFiniteSet(Followees(u, class)) /\ Cardinality(Followees(u, class)) \in Nat
<1> DEFINE T == {f[2] : f \in follows}
<1>1. IsFiniteSet(T)
  <2> DEFINE g == [f \in follows |-> f[2]]
  <2>1. g \in Surjection(follows, T)
    BY DEF Surjection
  <2> QED BY <2>1, FS_Surjection DEF StreamsInv, StreamsTyped
<1>2. Followees(u, class) \subseteq T
  <2> SUFFICES ASSUME NEW o \in Followees(u, class) PROVE o \in T
    OBVIOUS
  <2>1. <<u, o>> \in follows /\ <<u, o>>[2] = o
    BY DEF Followees
  <2> QED BY <2>1
<1> QED BY <1>1, <1>2, FS_Subset, FS_CardinalityType

LEMMA Counts ==
    ASSUME NEW S, NEW T, NEW R, IsFiniteSet(S), IsFiniteSet(T), IsFiniteSet(R),
           S \cap T = {}, S \cap R = {}, T \cap R = {}
    PROVE  Cardinality(S) + Cardinality(T) + Cardinality(R) = Cardinality(S \cup T \cup R)
<1>1. IsFiniteSet(S \cup T) /\ Cardinality(S \cup T) = Cardinality(S) + Cardinality(T) - Cardinality(S \cap T)
  BY FS_Union
<1>2. Cardinality(S \cup T \cup R) = Cardinality(S \cup T) + Cardinality(R) - Cardinality((S \cup T) \cap R)
  BY <1>1, FS_Union
<1>3. Cardinality(S \cap T) = 0 /\ Cardinality((S \cup T) \cap R) = 0
  <2>1. S \cap T = {} /\ (S \cup T) \cap R = {}
    OBVIOUS
  <2> QED BY <2>1, FS_EmptySet
<1>4. Cardinality(S) \in Nat /\ Cardinality(T) \in Nat /\ Cardinality(R) \in Nat
  BY FS_CardinalityType
<1> QED BY <1>1, <1>2, <1>3, <1>4

LEMMA FollowersAgree == StreamsInv => FollowersMatch
<1> SUFFICES ASSUME StreamsInv, NEW u \in Followers
             PROVE  /\ \A o \in Objects :
                         /\ o \in FolloweeList(u) <=> u \in FollowersOf(o)
                         /\ FollowerCount(o) = Cardinality({v \in Followers : o \in FolloweeList(v)})
                    /\ FolloweeCount(u) = Cardinality(FolloweeList(u))
                    /\ viewed[u] # None =>
                         NewCount(u, MaxTime) = Cardinality({a \in Filtered(Stream(u)) : IsNew(a, u)})
  BY DEF FollowersMatch
<1>1. \A v \in Followers, o \in Objects : o \in FolloweeList(v) <=> v \in FollowersOf(o)
  BY DEF FolloweeList, FollowersOf, Followees, Objects
<1>2. ASSUME NEW o \in Objects PROVE FollowersOf(o) = {v \in Followers : o \in FolloweeList(v)}
  BY <1>1 DEF FollowersOf
<1>3. FolloweeCount(u) = Cardinality(FolloweeList(u))
  <2>1. /\ Followees(u, Users) \cap Followees(u, Packages) = {}
        /\ Followees(u, Users) \cap Followees(u, Groups) = {}
        /\ Followees(u, Packages) \cap Followees(u, Groups) = {}
    BY ObjectsAssumption DEF Followees
  <2> QED BY <2>1, FollowedFinite, Counts DEF FolloweeCount, FolloweeList
<1>4. Dashboard(u, MaxTime, 0) = Filtered(Stream(u))
  <2>1. u \in Users /\ MaxTime \in Nat /\ 0 \in Nat /\ Stream(u) \subseteq acts
    BY ObjectsAssumption, BoundAssumption DEF Stream
  <2>2. Page(u, MaxTime, 0) = Limited(Stream(u), MaxTime, 0)
    BY <2>1, DashboardPage
  <2> QED BY <2>1, <2>2, RoomForAll DEF Dashboard
<1> QED BY <1>1, <1>2, <1>3, <1>4 DEF FollowerCount, NewCount

\* The pages of every stream are slices of the whole though each sub-query is cut off, they
\* add up, the counts are those of the lists, and the history of an object begins with the
\* activity that says it is new and ends with what the object is.
THEOREM StreamsStayWhole == CatalogueSpec => []StreamsAreWhole
<1>1. StreamsInv => StreamsAreWhole
  BY PagesSlice, PagesAdd, FollowersAgree DEF StreamsAreWhole, StreamsInv
<1> QED BY <1>1, StreamsHold, PTL

-----------------------------------------------------------------------------
(***************************************************************************)
(* Vocabularies.                                                           *)
(***************************************************************************)
LEMMA CatalogueRunsVocabularies == CatalogueSpec => Vocabs!Spec
<1>1. CatalogueInit => Vocabs!Init
  BY DEF CatalogueInit
<1>2. [CatalogueNext]_all => [Vocabs!Next]_Vocabs!vars
  BY DEF CatalogueNext, all, vocabVars, Vocabs!vars
<1> QED BY <1>1, <1>2, PTL DEF CatalogueSpec, Vocabs!Spec

VocabTyped ==
    /\ tag = [i \in 1 .. MaxTags |-> tag[i]] /\ inserted \in Nat
    /\ tagged \subseteq Vocabs!Ids
    /\ vocabClean \subseteq Workers
    /\ vocabPc \in [Workers -> {"idle", "valid", "commit"}]
    /\ vocabReq = [w \in Workers |-> vocabReq[w]]

\* Tags are inserted into a vocabulary, and nothing is both dropped and attached.
ChangesFit ==
    \A w \in Workers :
      /\ vocabPc[w] = "valid" =>
           vocabReq[w].vocab \in Vocabularies /\ vocabReq[w].names \subseteq TagNames
      /\ vocabPc[w] = "commit" =>
           /\ vocabReq[w].change.insert \subseteq TagNames
           /\ vocabReq[w].change.insert # {} => vocabReq[w].change.vocab \in Vocabularies
           /\ vocabReq[w].change.attach = {} \/ vocabReq[w].change.drop = {}
           /\ vocabReq[w].kind = "dataset" => vocabReq[w].change.drop = {}

\* What an update is about to change, unless a commit came in between, are the tags that are
\* not listed and the names that are not there.
IsListed(c, v, names) ==
    /\ c.vocab = v /\ c.drop = Vocabs!TagsOf(v) \ Vocabs!Named(v, names)
    /\ c.cascade = c.drop \cap tagged /\ c.insert = names \ Vocabs!NamesOf(v)
    /\ c.attach = {} /\ c.detach = {}

UpdatesListed ==
    \A w \in Workers \cap vocabClean :
      vocabPc[w] = "commit" /\ vocabReq[w].kind = "update" /\ vocabReq[w].names # None =>
        /\ vocabReq[w].change.vocab \in Vocabularies /\ vocabReq[w].names \subseteq TagNames
        /\ IsListed(vocabReq[w].change, vocabReq[w].change.vocab, vocabReq[w].names)

VocabInv == VocabTyped /\ ChangesFit /\ UpdatesListed

LEMMA VocabulariesInitially == Vocabs!Init => VocabInv
<1> SUFFICES ASSUME Vocabs!Init PROVE VocabInv
  OBVIOUS
<1>1. VocabTyped
  BY DEF Vocabs!Init, VocabTyped
<1>2. ChangesFit /\ UpdatesListed
  BY DEF Vocabs!Init, ChangesFit, UpdatesListed
<1> QED BY <1>1, <1>2 DEF VocabInv

\* Steps that only change what one worker is about to do.
LEMMA PlanKeeps ==
    ASSUME VocabInv, NEW w \in Workers, NEW step \in {"idle", "valid", "commit"}, NEW r,
           vocabPc' = [vocabPc EXCEPT ![w] = step], vocabReq' = [vocabReq EXCEPT ![w] = r],
           UNCHANGED <<vocabulary, tag, inserted, tagged>>,
           vocabClean' \subseteq vocabClean \cup {w},
           step = "valid" => r.vocab \in Vocabularies /\ r.names \subseteq TagNames,
           step = "commit" => /\ r.change.insert \subseteq TagNames
                              /\ r.change.insert # {} => r.change.vocab \in Vocabularies
                              /\ r.change.attach = {} \/ r.change.drop = {}
                              /\ r.kind = "dataset" => r.change.drop = {},
           step = "commit" /\ r.kind = "update" /\ r.names # None =>
             /\ r.change.vocab \in Vocabularies /\ r.names \subseteq TagNames
             /\ IsListed(r.change, r.change.vocab, r.names)
    PROVE  VocabInv'
<1>1. VocabTyped'
  BY DEF VocabInv, VocabTyped, Vocabs!Ids
<1>2. /\ vocabPc'[w] = step /\ vocabReq'[w] = r
      /\ \A v \in Workers \ {w} : vocabPc'[v] = vocabPc[v] /\ vocabReq'[v] = vocabReq[v]
  BY DEF VocabInv, VocabTyped
<1>3. ChangesFit'
  BY <1>2 DEF VocabInv, ChangesFit
<1>4. \A c, v, names : IsListed(c, v, names)' = IsListed(c, v, names)
  BY DEF IsListed, Vocabs!TagsOf, Vocabs!Named, Vocabs!NamesOf, Vocabs!Ids
<1>5. ASSUME NEW x \in Workers \cap vocabClean', vocabPc'[x] = "commit",
             vocabReq'[x].kind = "update", vocabReq'[x].names # None
      PROVE  /\ vocabReq'[x].change.vocab \in Vocabularies /\ vocabReq'[x].names \subseteq TagNames
             /\ IsListed(vocabReq'[x].change, vocabReq'[x].change.vocab, vocabReq'[x].names)
  <2>1. CASE x = w
    BY <1>2, <1>5, <2>1
  <2>2. CASE x # w
    BY <1>2, <1>5, <2>2 DEF VocabInv, UpdatesListed
  <2> QED BY <2>1, <2>2
<1>6. UpdatesListed'
  BY <1>4, <1>5 DEF UpdatesListed, IsListed, Vocabs!TagsOf, Vocabs!Named, Vocabs!NamesOf, Vocabs!Ids
<1> QED BY <1>1, <1>3, <1>6 DEF VocabInv

\* What a commit leaves of the tags: those that it drops are gone, the new ones have numbers
\* of their own.
LEMMA CommitTags ==
    ASSUME VocabInv, NEW w \in Workers, Vocabs!Commit(w)
    PROVE  LET c == vocabReq[w].change IN
           /\ vocabPc[w] = "commit" /\ vocabClean' = {}
           /\ vocabPc' = [vocabPc EXCEPT ![w] = "idle"]
           /\ vocabReq' = [vocabReq EXCEPT ![w] = Vocabs!NoRequest]
           /\ tag' = [i \in 1 .. MaxTags |-> tag'[i]]
           /\ inserted \in Nat /\ inserted' \in Nat /\ inserted =< inserted'
           /\ \A i \in 1 .. inserted :
                tag'[i] = IF i \in c.drop THEN None ELSE tag[i]
           /\ \A i \in inserted + 1 .. inserted' : i \notin c.drop =>
                \E n \in c.insert : tag'[i] = [name |-> n, vocab |-> c.vocab]
           /\ \A n \in c.insert : \E i \in inserted + 1 .. inserted' :
                i \notin c.drop => tag'[i] = [name |-> n, vocab |-> c.vocab]
           /\ tagged' = (tagged \ (c.cascade \cup c.detach)) \cup c.attach
                          \cup (IF vocabReq[w].kind = "dataset"
                                THEN inserted + 1 .. inserted' ELSE {})
           /\ c.attach \subseteq Vocabs!Ids /\ tagged \cap c.drop \subseteq c.cascade
           /\ inserted' =< MaxTags
<1> DEFINE c == vocabReq[w].change
           new == inserted + 1 .. inserted + Vocabs!Cardinality(c.insert)
<1>1. \A S : Vocabs!Cardinality(S) = Cardinality(S)
  BY DEF Vocabs!Cardinality, Cardinality
<1>2. /\ vocabPc[w] = "commit" /\ vocabClean' = {}
      /\ vocabPc' = [vocabPc EXCEPT ![w] = "idle"]
      /\ vocabReq' = [vocabReq EXCEPT ![w] = Vocabs!NoRequest]
      /\ inserted' = inserted + Vocabs!Cardinality(c.insert) /\ inserted' =< MaxTags
      /\ Vocabs!Allowed(vocabReq[w].kind, c)
      /\ tagged' = (tagged \ (c.cascade \cup c.detach)) \cup c.attach
                     \cup (IF vocabReq[w].kind = "dataset" THEN new ELSE {})
  BY <1>1 DEF Vocabs!Commit
<1>3. PICK label \in [new -> c.insert] :
        /\ \A n \in c.insert : \E i \in new : label[i] = n
        /\ tag' = [i \in DOMAIN tag |->
                     IF i \in c.drop THEN None
                     ELSE IF i \in new THEN [name |-> label[i], vocab |-> c.vocab] ELSE tag[i]]
  BY DEF Vocabs!Commit
<1>4. Vocabs!Cardinality(c.insert) \in Nat /\ inserted \in Nat
  <2>1. IsFiniteSet(c.insert)
    BY <1>2, VocabulariesAssumption, FS_Subset DEF VocabInv, ChangesFit
  <2> QED BY <1>1, <2>1, FS_CardinalityType DEF VocabInv, VocabTyped
<1>5. DOMAIN tag = 1 .. MaxTags
  BY DEF VocabInv, VocabTyped
<1>6. inserted' \in Nat /\ inserted =< inserted' /\ new = inserted + 1 .. inserted'
  BY <1>2, <1>4
<1>7. \A i \in 1 .. inserted' : i \in 1 .. MaxTags
  BY <1>2, <1>6, VocabulariesAssumption
<1>8. c.attach \subseteq Vocabs!Ids /\ tagged \cap c.drop \subseteq c.cascade
  BY <1>2 DEF Vocabs!Allowed
<1> HIDE DEF c, new
<1>9. \A i \in 1 .. inserted : i \notin new /\ i \in 1 .. inserted'
  BY <1>4, <1>6
<1>10. \A i \in 1 .. inserted : tag'[i] = IF i \in c.drop THEN None ELSE tag[i]
  BY <1>3, <1>5, <1>7, <1>9
<1>11. \A i \in new : i \in 1 .. inserted'
  BY <1>4, <1>6
<1>12. \A i \in new : i \notin c.drop => tag'[i] = [name |-> label[i], vocab |-> c.vocab]
  BY <1>3, <1>5, <1>7, <1>11
<1>13. \A i \in new : i \notin c.drop => \E n \in c.insert : tag'[i] = [name |-> n, vocab |-> c.vocab]
  BY <1>3, <1>12
<1>14. \A n \in c.insert : \E i \in new :
          i \notin c.drop => tag'[i] = [name |-> n, vocab |-> c.vocab]
  BY <1>3, <1>12
<1>15. tag' = [i \in 1 .. MaxTags |-> tag'[i]]
  BY <1>3, <1>5
<1> QED BY <1>2, <1>4, <1>6, <1>8, <1>10, <1>13, <1>14, <1>15 DEF c

LEMMA CommitTagsKeeps ==
    ASSUME VocabInv, NEW w \in Workers, Vocabs!Commit(w)
    PROVE  VocabInv'
<1> DEFINE c == vocabReq[w].change
<1>1. /\ vocabPc[w] = "commit" /\ vocabClean' = {}
      /\ vocabPc' = [vocabPc EXCEPT ![w] = "idle"]
      /\ vocabReq' = [vocabReq EXCEPT ![w] = Vocabs!NoRequest]
      /\ tag' = [i \in 1 .. MaxTags |-> tag'[i]]
      /\ inserted \in Nat /\ inserted' \in Nat /\ inserted =< inserted'
      /\ \A i \in 1 .. inserted : tag'[i] = IF i \in c.drop THEN None ELSE tag[i]
      /\ \A i \in inserted + 1 .. inserted' : i \notin c.drop =>
           \E n \in c.insert : tag'[i] = [name |-> n, vocab |-> c.vocab]
      /\ tagged' = (tagged \ (c.cascade \cup c.detach)) \cup c.attach
                     \cup (IF vocabReq[w].kind = "dataset" THEN inserted + 1 .. inserted' ELSE {})
      /\ c.attach \subseteq Vocabs!Ids /\ tagged \cap c.drop \subseteq c.cascade
  BY CommitTags
<1>2. c.insert \subseteq TagNames /\ (c.insert # {} => c.vocab \in Vocabularies)
      /\ (c.attach = {} \/ c.drop = {})
  BY <1>1 DEF VocabInv, ChangesFit
<1>3. vocabReq[w].kind = "dataset" => c.drop = {}
  BY <1>1 DEF VocabInv, ChangesFit
<1> HIDE DEF c
<1>4. \A i \in 1 .. inserted : i \in 1 .. inserted'
  BY <1>1
<1>5. \A i \in tagged \cup c.attach : i \in Vocabs!Ids
  BY <1>1 DEF VocabInv, VocabTyped
<1>6. \A i \in Vocabs!Ids : i \notin c.drop => i \in Vocabs!Ids'
  BY <1>1, <1>4 DEF Vocabs!Ids
<1>7. \A i \in inserted + 1 .. inserted' : i \notin c.drop => i \in Vocabs!Ids'
  <2> SUFFICES ASSUME NEW i \in inserted + 1 .. inserted', i \notin c.drop
               PROVE  i \in Vocabs!Ids'
    OBVIOUS
  <2>1. PICK n \in c.insert : tag'[i] = [name |-> n, vocab |-> c.vocab]
    BY <1>1
  <2>2. [name |-> n, vocab |-> c.vocab] \in [name : TagNames, vocab : Vocabularies]
    BY <1>2
  <2>3. tag'[i] # None
    BY <2>1, <2>2, VocabulariesAssumption
  <2>4. i \in 1 .. inserted'
    BY <1>1
  <2> QED BY <2>3, <2>4 DEF Vocabs!Ids
<1>8. tagged' \subseteq Vocabs!Ids'
  <2> SUFFICES ASSUME NEW i \in tagged' PROVE i \in Vocabs!Ids'
    OBVIOUS
  <2>1. CASE i \in tagged \ (c.cascade \cup c.detach)
    BY <1>1, <1>5, <1>6, <2>1
  <2>2. CASE i \in c.attach
    BY <1>2, <1>5, <1>6, <2>2
  <2>3. CASE vocabReq[w].kind = "dataset" /\ i \in inserted + 1 .. inserted'
    BY <1>3, <1>7, <2>3
  <2> QED BY <1>1, <2>1, <2>2, <2>3
<1>9. VocabTyped'
  BY <1>1, <1>8 DEF VocabInv, VocabTyped
<1>10. ChangesFit' /\ UpdatesListed'
  BY <1>1 DEF VocabInv, VocabTyped, ChangesFit, UpdatesListed
<1> QED BY <1>9, <1>10 DEF VocabInv

LEMMA VocabulariesStep == VocabInv /\ [Vocabs!Next]_Vocabs!vars => VocabInv'
<1> SUFFICES ASSUME VocabInv, [Vocabs!Next]_Vocabs!vars PROVE VocabInv'
  OBVIOUS
<1>1. ASSUME NEW w \in Workers, NEW knd \in {"create", "delete", "tag"}, NEW c,
             Vocabs!Ask(w, knd, c), c.insert \subseteq TagNames,
             c.insert # {} => c.vocab \in Vocabularies, c.attach = {} \/ c.drop = {}
      PROVE  VocabInv'
  <2> DEFINE r == [kind |-> knd, change |-> c]
  <2>1. r.kind = knd /\ r.change = c
    OBVIOUS
  <2>2. /\ vocabPc' = [vocabPc EXCEPT ![w] = "commit"] /\ vocabReq' = [vocabReq EXCEPT ![w] = r]
        /\ vocabClean' \subseteq vocabClean \cup {w}
        /\ UNCHANGED <<vocabulary, tag, inserted, tagged>>
    BY <1>1 DEF Vocabs!Ask
  <2> HIDE DEF r
  <2> QED BY <1>1, <2>1, <2>2, PlanKeeps
<1>2. ASSUME NEW v \in Vocabularies, NEW names \in SUBSET TagNames
      PROVE  LET c == Vocabs!Listed(v, names) IN
             /\ IsListed(c, v, names) /\ c.insert \subseteq TagNames
             /\ DOMAIN c = {"vocab", "name", "drop", "cascade", "insert", "attach", "detach"}
  BY <1>2 DEF Vocabs!Listed, Vocabs!NoChange, IsListed, Vocabs!Named
<1>3. ASSUME NEW w \in Workers, NEW v \in Vocabularies, NEW name \in Names,
             NEW names \in SUBSET TagNames, Vocabs!VocabularyCreate(w, v, name, names)
      PROVE  VocabInv'
  <2> DEFINE c == Vocabs!Listed(v, names)
  <2>1. /\ IsListed(c, v, names) /\ c.insert \subseteq TagNames
        /\ DOMAIN c = {"vocab", "name", "drop", "cascade", "insert", "attach", "detach"}
    BY <1>2
  <2>2. Vocabs!Ask(w, "create", [c EXCEPT !.name = name])
    BY <1>3 DEF Vocabs!VocabularyCreate
  <2> HIDE DEF c
  <2> DEFINE e == [c EXCEPT !.name = name]
  <2>3. e.insert = c.insert /\ e.vocab = v /\ e.attach = {}
    BY <2>1 DEF IsListed
  <2> HIDE DEF e
  <2> QED BY <1>1, <2>1, <2>2, <2>3 DEF e
<1>4. ASSUME NEW w \in Workers, NEW v \in Vocabularies, NEW name \in Names \cup {None},
             NEW names \in (SUBSET TagNames) \cup {None},
             Vocabs!VocabularyUpdate(w, v, name, names)
      PROVE  VocabInv'
  <2> DEFINE c == IF names = None THEN [Vocabs!NoChange EXCEPT !.vocab = v]
                  ELSE Vocabs!Listed(v, names)
             to == IF name = vocabulary[v] THEN None ELSE name
             r == [kind |-> "update", names |-> names, change |-> [c EXCEPT !.name = to]]
  <2>1. /\ c.vocab = v /\ c.insert \subseteq TagNames /\ c.attach = {}
        /\ names # None => IsListed(c, v, names) /\ names \subseteq TagNames
        /\ DOMAIN c = {"vocab", "name", "drop", "cascade", "insert", "attach", "detach"}
    <3>1. CASE names = None
      BY <3>1 DEF Vocabs!NoChange
    <3>2. CASE names # None
      BY <1>2, <3>2 DEF IsListed
    <3> QED BY <3>1, <3>2
  <2>2. /\ vocabPc' = [vocabPc EXCEPT ![w] = "commit"] /\ vocabReq' = [vocabReq EXCEPT ![w] = r]
        /\ vocabClean' \subseteq vocabClean \cup {w}
        /\ UNCHANGED <<vocabulary, tag, inserted, tagged>>
    BY <1>4 DEF Vocabs!VocabularyUpdate
  <2> HIDE DEF c, to
  <2>3. /\ r.kind = "update" /\ r.names = names /\ r.change.vocab = v
        /\ r.change.insert = c.insert /\ r.change.attach = {}
        /\ names # None => IsListed(r.change, v, names)
    BY <2>1 DEF IsListed
  <2> HIDE DEF r
  <2> QED BY <2>1, <2>2, <2>3, PlanKeeps
<1>5. ASSUME NEW w \in Workers, NEW v \in Vocabularies, Vocabs!VocabularyDelete(w, v)
      PROVE  VocabInv'
  <2> DEFINE c == [Vocabs!NoChange EXCEPT !.vocab = v]
  <2>1. Vocabs!Ask(w, "delete", c)
    BY <1>5 DEF Vocabs!VocabularyDelete
  <2>2. c.insert = {} /\ c.attach = {}
    BY DEF Vocabs!NoChange
  <2> HIDE DEF c
  <2> QED BY <1>1, <2>1, <2>2
<1>6. ASSUME NEW w \in Workers, NEW v \in Vocabularies, NEW name \in TagNames,
             Vocabs!TagCreate(w, v, name)
      PROVE  VocabInv'
  <2> DEFINE c == [Vocabs!NoChange EXCEPT !.vocab = v, !.insert = {name}]
  <2>1. Vocabs!Ask(w, "tag", c)
    BY <1>6 DEF Vocabs!TagCreate
  <2>2. c.insert = {name} /\ c.attach = {} /\ c.vocab = v
    BY DEF Vocabs!NoChange
  <2> HIDE DEF c
  <2> QED BY <1>1, <2>1, <2>2
<1>7. ASSUME NEW w \in Workers, NEW v \in Vocabularies, NEW names \in SUBSET TagNames,
             Vocabs!DatasetTags(w, v, names)
      PROVE  VocabInv'
  <2> DEFINE r == [kind |-> "dataset", vocab |-> v, names |-> names]
  <2>1. /\ vocabPc' = [vocabPc EXCEPT ![w] = "valid"] /\ vocabReq' = [vocabReq EXCEPT ![w] = r]
        /\ vocabClean' \subseteq vocabClean \cup {w}
        /\ UNCHANGED <<vocabulary, tag, inserted, tagged>>
    BY <1>7 DEF Vocabs!DatasetTags
  <2>2. r.vocab = v /\ r.names = names
    OBVIOUS
  <2> HIDE DEF r
  <2> QED BY <2>1, <2>2, PlanKeeps
<1>8. ASSUME NEW w \in Workers, NEW i \in Vocabs!Ids, Vocabs!TagDelete(w, i)
      PROVE  VocabInv'
  <2> DEFINE c == [Vocabs!NoChange EXCEPT !.vocab = tag[i].vocab, !.drop = {i},
                                          !.cascade = {i} \cap tagged]
  <2>1. Vocabs!Ask(w, "tag", c)
    BY <1>8 DEF Vocabs!TagDelete
  <2>2. c.insert = {} /\ c.attach = {}
    BY DEF Vocabs!NoChange
  <2> HIDE DEF c
  <2> QED BY <1>1, <2>1, <2>2
<1>9. ASSUME NEW w \in Workers, Vocabs!SaveTags(w)
      PROVE  VocabInv'
  <2> DEFINE q == vocabReq[w]
             found == Vocabs!Named(q.vocab, q.names)
             c == [Vocabs!NoChange EXCEPT
                     !.vocab = q.vocab, !.insert = q.names \ Vocabs!NamesOf(q.vocab),
                     !.attach = found \ tagged, !.detach = tagged \ found]
             r == [kind |-> "dataset", change |-> c]
  <2>1. /\ vocabPc[w] = "valid"
        /\ vocabPc' = [vocabPc EXCEPT ![w] = "commit"] /\ vocabReq' = [vocabReq EXCEPT ![w] = r]
        /\ vocabClean' = vocabClean
        /\ UNCHANGED <<vocabulary, tag, inserted, tagged>>
    BY <1>9 DEF Vocabs!SaveTags
  <2>2. q.vocab \in Vocabularies /\ q.names \subseteq TagNames
    BY <2>1 DEF VocabInv, ChangesFit
  <2>3. /\ r.kind = "dataset" /\ r.change.insert \subseteq TagNames
        /\ r.change.vocab = q.vocab /\ r.change.drop = {}
    BY <2>2 DEF Vocabs!NoChange
  <2> HIDE DEF r
  <2> QED BY <2>1, <2>2, <2>3, PlanKeeps
<1>10. ASSUME NEW w \in Workers, Vocabs!Fail(w)
       PROVE  VocabInv'
  <2>1. /\ vocabPc' = [vocabPc EXCEPT ![w] = "idle"]
        /\ vocabReq' = [vocabReq EXCEPT ![w] = Vocabs!NoRequest]
        /\ vocabClean' \subseteq vocabClean \cup {w}
        /\ UNCHANGED <<vocabulary, tag, inserted, tagged>>
    BY <1>10 DEF Vocabs!Fail
  <2> QED BY <2>1, PlanKeeps
<1>11. CASE UNCHANGED Vocabs!vars
  BY <1>11 DEF Vocabs!vars, VocabInv, VocabTyped, ChangesFit, UpdatesListed, IsListed,
     Vocabs!TagsOf, Vocabs!Named, Vocabs!NamesOf, Vocabs!Ids
<1> QED BY <1>3, <1>4, <1>5, <1>6, <1>7, <1>8, <1>9, <1>10, <1>11, CommitTagsKeeps DEF Vocabs!Next

\* An update of a vocabulary that no commit crossed leaves it the tags listed, those it had
\* as the same rows, so that datasets keep them: for any vocabularies, names and requests
\* (vocabulary_update, vocabulary_tag_list_save).
THEOREM VocabulariesStayAsListed == CatalogueSpec => VocabularyAsListed
<1>1. ASSUME VocabInv, NEW w \in vocabClean, vocabReq[w].kind = "update", w \in Workers,
             Vocabs!Commit(w), NEW v \in {vocabReq[w].change.vocab},
             NEW names \in {vocabReq[w].names} \ {None}
      PROVE  /\ Vocabs!NamesOf(v)' = names
             /\ Vocabs!Named(v, names) \subseteq Vocabs!TagsOf(v)'
             /\ tagged' = {i \in tagged : tag[i].vocab = v => tag[i].name \in names}
  <2> DEFINE c == vocabReq[w].change
  <2>1. /\ inserted \in Nat /\ inserted' \in Nat /\ inserted =< inserted'
        /\ \A i \in 1 .. inserted : tag'[i] = IF i \in c.drop THEN None ELSE tag[i]
        /\ \A i \in inserted + 1 .. inserted' : i \notin c.drop =>
             \E n \in c.insert : tag'[i] = [name |-> n, vocab |-> c.vocab]
        /\ \A n \in c.insert : \E i \in inserted + 1 .. inserted' :
             i \notin c.drop => tag'[i] = [name |-> n, vocab |-> c.vocab]
        /\ tagged' = (tagged \ (c.cascade \cup c.detach)) \cup c.attach
        /\ vocabPc[w] = "commit"
    BY <1>1, CommitTags
  <2>2. v \in Vocabularies /\ names \subseteq TagNames /\ IsListed(c, v, names)
    BY <1>1, <2>1 DEF VocabInv, UpdatesListed
  <2> HIDE DEF c
  <2>3. /\ c.vocab = v /\ c.drop = Vocabs!TagsOf(v) \ Vocabs!Named(v, names)
        /\ c.cascade = c.drop \cap tagged /\ c.insert = names \ Vocabs!NamesOf(v)
        /\ c.attach = {} /\ c.detach = {}
    BY <2>2 DEF IsListed
  <2>4. \A i \in c.drop : i \in 1 .. inserted
    BY <2>3 DEF Vocabs!TagsOf, Vocabs!Ids
  <2>5. \A i \in inserted + 1 .. inserted' : i \notin c.drop
    BY <2>1, <2>4
  <2>6. \A n \in names : [name |-> n, vocab |-> v] # None
    BY <2>2, VocabulariesAssumption
  <2>7. \A i \in Vocabs!Ids' : i \in 1 .. inserted \/ i \in inserted + 1 .. inserted'
    BY <2>1 DEF Vocabs!Ids
  <2>8. ASSUME NEW i \in Vocabs!Named(v, names)
        PROVE  i \in Vocabs!TagsOf(v)' /\ tag'[i] = tag[i]
    <3>1. i \in 1 .. inserted /\ tag[i] # None /\ tag[i].vocab = v /\ i \notin c.drop
      BY <2>3, <2>8 DEF Vocabs!Named, Vocabs!TagsOf, Vocabs!Ids
    <3>2. tag'[i] = tag[i] /\ i \in 1 .. inserted'
      BY <2>1, <3>1
    <3> QED BY <3>1, <3>2 DEF Vocabs!TagsOf, Vocabs!Ids
  <2>9. ASSUME NEW i \in Vocabs!TagsOf(v)' PROVE tag'[i].name \in names
    <3>1. i \in Vocabs!Ids' /\ tag'[i] # None /\ tag'[i].vocab = v
      BY <2>9 DEF Vocabs!TagsOf, Vocabs!Ids
    <3>2. CASE i \in 1 .. inserted
      <4>1. i \notin c.drop /\ tag'[i] = tag[i]
        BY <2>1, <3>1, <3>2
      <4>2. i \in Vocabs!TagsOf(v)
        BY <3>1, <3>2, <4>1 DEF Vocabs!TagsOf, Vocabs!Ids
      <4> QED BY <2>3, <4>1, <4>2 DEF Vocabs!Named
    <3>3. CASE i \in inserted + 1 .. inserted'
      <4>1. PICK n \in c.insert : tag'[i] = [name |-> n, vocab |-> c.vocab]
        BY <2>1, <2>5, <3>3
      <4> QED BY <2>3, <4>1
    <3>4. i \in 1 .. inserted \/ i \in inserted + 1 .. inserted'
      BY <2>7, <3>1
    <3> QED BY <3>2, <3>3, <3>4
  <2>10. ASSUME NEW n \in names PROVE \E i \in Vocabs!TagsOf(v)' : tag'[i].name = n
    <3>1. CASE n \in Vocabs!NamesOf(v)
      <4>1. PICK i \in Vocabs!TagsOf(v) : tag[i].name = n
        BY <3>1 DEF Vocabs!NamesOf
      <4>2. i \in Vocabs!Named(v, names)
        BY <4>1 DEF Vocabs!Named
      <4> QED BY <2>8, <4>1, <4>2
    <3>2. CASE n \notin Vocabs!NamesOf(v)
      <4>1. PICK i \in inserted + 1 .. inserted' : tag'[i] = [name |-> n, vocab |-> v]
        BY <2>1, <2>3, <2>5, <3>2
      <4>2. tag'[i] # None /\ i \in 1 .. inserted'
        BY <2>1, <2>6, <4>1
      <4> QED BY <4>1, <4>2 DEF Vocabs!TagsOf, Vocabs!Ids
    <3> QED BY <3>1, <3>2
  <2>11. Vocabs!NamesOf(v)' = names
    BY <2>9, <2>10 DEF Vocabs!NamesOf
  <2>12. \A i \in tagged : i \in c.drop <=> ~ (tag[i].vocab = v => tag[i].name \in names)
    BY <1>1, <2>3 DEF VocabInv, VocabTyped, Vocabs!TagsOf, Vocabs!Named
  <2>13. tagged' = {i \in tagged : tag[i].vocab = v => tag[i].name \in names}
    BY <2>1, <2>3, <2>12
  <2> QED BY <2>8, <2>11, <2>13
<1>2. VocabInv => (\A w \in vocabClean : vocabReq[w].kind = "update" /\ Vocabs!Commit(w) =>
         \A v \in {vocabReq[w].change.vocab}, names \in {vocabReq[w].names} \ {None} :
           /\ Vocabs!NamesOf(v)' = names
           /\ Vocabs!Named(v, names) \subseteq Vocabs!TagsOf(v)'
           /\ tagged' = {i \in tagged : tag[i].vocab = v => tag[i].name \in names})
  BY <1>1 DEF VocabInv, VocabTyped
<1> QED BY <1>2, VocabulariesInitially, VocabulariesStep, CatalogueRunsVocabularies, PTL
     DEF Vocabs!Spec, VocabularyAsListed, Vocabs!VocabularyAsListed

-----------------------------------------------------------------------------
(***************************************************************************)
(* Relationships.                                                          *)
(***************************************************************************)
LEMMA CatalogueRunsRelationships == CatalogueSpec => Relations!Spec
<1>1. CatalogueInit => Relations!Init
  BY DEF CatalogueInit
<1>2. [CatalogueNext]_all => [Relations!Next]_Relations!vars
  BY DEF CatalogueNext, all, relVars, Relations!vars
<1> QED BY <1>1, <1>2, PTL DEF CatalogueSpec, Relations!Spec

RelationRows == [subject : Linked, object : Linked, type : {Relations!Forward},
                 comment : Comments, state : {"active", "deleted"}]

RelationsTyped ==
    /\ relation \in [1 .. MaxRelationships -> RelationRows \cup {None}]
    /\ relPc \in [Workers -> {"idle", "commit"}] /\ DOMAIN relReq = Workers
    /\ relClean \subseteq Workers
    /\ \A w \in relClean : relPc[w] = "commit"

\* A request names the row that it changes and what that is to be.
RelationAsked(r) ==
    /\ r.p \in Linked /\ r.q \in Linked /\ r.p # r.q /\ r.type \in Types
    /\ r.to \in RelationRows /\ r.was \in RelationRows
    /\ r.at = 0 \/ r.at \in Relations!Rows
    /\ r.kind = "create" /\ r.type = Relations!Forward =>
         r.to.subject = r.p /\ r.to.object = r.q /\ r.to.state = "active"
    /\ r.kind = "delete" => r.at # 0 /\ r.to.state = "deleted"

RelationsAsked == \A w \in Workers : relPc[w] = "commit" => RelationAsked(relReq[w])

\* What a request found is still so when nothing was committed since.
StillFound ==
    \A w \in relClean :
      /\ relReq[w].at # 0 => relReq[w].was = relation[relReq[w].at]
      /\ relReq[w].kind = "delete" =>
           relReq[w].at \in Relations!RelationshipsWith(relReq[w].p, relReq[w].q, relReq[w].type)

RelationsInv == RelationsTyped /\ RelationsAsked /\ StillFound

LEMMA RelationsInitially == Relations!Init => RelationsInv
  BY DEF Relations!Init, RelationsInv, RelationsTyped, RelationsAsked, StillFound

LEMMA AskKeeps ==
    ASSUME RelationsInv, NEW w \in Workers, NEW p \in Linked, NEW q \in Linked, p # q,
           NEW type \in Types, NEW knd, NEW i \in Relations!Rows \cup {0}, NEW to \in RelationRows,
           knd = "create" /\ type = Relations!Forward =>
             to.subject = p /\ to.object = q /\ to.state = "active",
           knd = "delete" => to.state = "deleted" /\ i \in Relations!RelationshipsWith(p, q, type),
           Relations!Ask(w, knd, p, q, type, i, to)
    PROVE  RelationsInv'
<1> DEFINE r == [kind |-> knd, p |-> p, q |-> q, type |-> type, at |-> i, to |-> to,
                 was |-> IF i = 0 THEN to ELSE relation[i]]
<1>1. /\ relPc' = [relPc EXCEPT ![w] = "commit"] /\ relReq' = [relReq EXCEPT ![w] = r]
      /\ relClean' = relClean \cup {w} /\ relation' = relation
  BY DEF Relations!Ask
<1>2. \A j \in Relations!Rows : relation[j] \in RelationRows /\ j # 0
  BY DEF RelationsInv, RelationsTyped, Relations!Rows
<1>3. \A j \in Relations!RelationshipsWith(p, q, type) : j \in Relations!Rows
  BY DEF Relations!RelationshipsWith
<1>4. RelationAsked(r)
  BY <1>2, <1>3 DEF RelationAsked
<1>5. /\ r.at # 0 => r.was = relation[r.at]
      /\ r.kind = "delete" => r.at \in Relations!RelationshipsWith(r.p, r.q, r.type)
  OBVIOUS
<1> HIDE DEF r
<1>6. /\ relReq'[w] = r /\ relPc'[w] = "commit"
      /\ \A v \in Workers \ {w} : relReq'[v] = relReq[v] /\ relPc'[v] = relPc[v]
  BY <1>1 DEF RelationsInv, RelationsTyped
<1>7. RelationsTyped'
  BY <1>1 DEF RelationsInv, RelationsTyped
<1>8. Relations!Rows' = Relations!Rows
  BY <1>1 DEF Relations!Rows
<1>9. RelationsAsked'
  BY <1>4, <1>6, <1>8 DEF RelationsInv, RelationsAsked, RelationAsked
<1>10. StillFound'
  BY <1>1, <1>5, <1>6, <1>8
     DEF RelationsInv, RelationsTyped, StillFound, Relations!RelationshipsWith, Relations!Joins
<1> QED BY <1>7, <1>9, <1>10 DEF RelationsInv

\* A commit changes one row, to what its request wanted when nothing came between.
LEMMA CommitRelation ==
    ASSUME RelationsInv, NEW w \in Workers, Relations!Commit(w)
    PROVE  \E at \in 1 .. MaxRelationships, new \in RelationRows :
             /\ relation' = [relation EXCEPT ![at] = new]
             /\ relReq[w].at # 0 => at = relReq[w].at
             /\ w \in relClean => new = relReq[w].to
<1> DEFINE r == relReq[w]
           at == IF r.at = 0 THEN Relations!Cardinality(Relations!Rows) + 1 ELSE r.at
           Written(old) == [c \in DOMAIN r.to |-> IF r.to[c] = r.was[c] THEN old[c] ELSE r.to[c]]
           new == IF r.at = 0 THEN r.to ELSE Written(relation[at])
<1>1. /\ relPc[w] = "commit" /\ at =< MaxRelationships
      /\ relation' = [relation EXCEPT ![at] = IF r.at = 0 THEN r.to ELSE Written(@)]
  BY DEF Relations!Commit
<1>2. RelationAsked(r)
  BY <1>1 DEF RelationsInv, RelationsAsked
<1>3. r.to \in RelationRows /\ r.was \in RelationRows /\ (r.at = 0 \/ r.at \in Relations!Rows)
  BY <1>2 DEF RelationAsked
<1>4. Relations!Cardinality(Relations!Rows) \in Nat
  <2>1. IsFiniteSet(Relations!Rows)
    <3>1. IsFiniteSet(1 .. MaxRelationships)
      BY RelationsAssumption, FS_Interval
    <3>2. Relations!Rows \subseteq 1 .. MaxRelationships
      BY DEF Relations!Rows
    <3> QED BY <3>1, <3>2, FS_Subset
  <2>2. \A S : Relations!Cardinality(S) = Cardinality(S)
    BY DEF Relations!Cardinality, Cardinality
  <2> QED BY <2>1, <2>2, FS_CardinalityType
<1>5. r.at # 0 => at \in 1 .. MaxRelationships /\ relation[at] \in RelationRows
  BY <1>3 DEF RelationsInv, RelationsTyped, Relations!Rows
<1>6. at \in 1 .. MaxRelationships
  BY <1>1, <1>4, <1>5, RelationsAssumption
<1>7. \A old \in RelationRows : Written(old) \in RelationRows
  BY <1>3 DEF RelationRows
<1>8. new \in RelationRows
  BY <1>3, <1>5, <1>7
<1>9. relation' = [relation EXCEPT ![at] = new]
  BY <1>1, <1>6 DEF RelationsInv, RelationsTyped
<1>10. w \in relClean => new = r.to
  <2> SUFFICES ASSUME w \in relClean, r.at # 0 PROVE Written(relation[at]) = r.to
    OBVIOUS
  <2>1. r.was = relation[at]
    BY DEF RelationsInv, StillFound
  <2>2. r.to = [c \in DOMAIN r.to |-> r.to[c]]
    BY <1>3 DEF RelationRows
  <2> QED BY <2>1, <2>2
<1> HIDE DEF new
<1> QED BY <1>6, <1>8, <1>9, <1>10

LEMMA RelationsStep == RelationsInv /\ [Relations!Next]_Relations!vars => RelationsInv'
<1> SUFFICES ASSUME RelationsInv, [Relations!Next]_Relations!vars PROVE RelationsInv'
  OBVIOUS
<1>1. \A i \in Relations!Rows : relation[i] \in RelationRows
  BY DEF RelationsInv, RelationsTyped, Relations!Rows
<1>2. ASSUME NEW w \in Workers, NEW p \in Linked, NEW q \in Linked, NEW type \in Types, p # q,
             NEW comment \in Comments, Relations!RelationshipCreate(w, p, q, type, comment)
      PROVE  RelationsInv'
  <2>1. CASE \E i \in Relations!RelationshipsWith(p, q, type) :
               Relations!Ask(w, "create", p, q, type, i, Relations!Commented(i, comment))
    <3>1. PICK i \in Relations!RelationshipsWith(p, q, type) :
            Relations!Ask(w, "create", p, q, type, i, Relations!Commented(i, comment))
      BY <2>1
    <3> DEFINE to == Relations!Commented(i, comment)
    <3>2. i \in Relations!Rows /\ relation[i] \in RelationRows /\ relation[i].state = "active"
      BY <1>1 DEF Relations!RelationshipsWith
    <3>3. type = Relations!Forward => relation[i].subject = p /\ relation[i].object = q
      BY DEF Relations!RelationshipsWith, Relations!Joins
    <3>4. /\ to \in RelationRows /\ to.state = "active"
          /\ to.subject = relation[i].subject /\ to.object = relation[i].object
      BY <3>2 DEF Relations!Commented, RelationRows
    <3> HIDE DEF to
    <3> QED BY <1>2, <3>1, <3>2, <3>3, <3>4, AskKeeps DEF to
  <2>2. CASE \E i \in Relations!Existing(p, q) :
               Relations!Ask(w, "create", p, q, type, i, Relations!Restored(i, comment))
    <3>1. PICK i \in Relations!Existing(p, q) :
            Relations!Ask(w, "create", p, q, type, i, Relations!Restored(i, comment))
      BY <2>2
    <3> DEFINE to == Relations!Restored(i, comment)
    <3>2. i \in Relations!Rows /\ relation[i] \in RelationRows
      BY <1>1 DEF Relations!Existing
    <3>3. relation[i].subject = p /\ relation[i].object = q
      BY DEF Relations!Existing, Relations!Joins
    <3>4. /\ to \in RelationRows /\ to.state = "active"
          /\ to.subject = relation[i].subject /\ to.object = relation[i].object
      BY <3>2 DEF Relations!Restored, RelationRows
    <3> HIDE DEF to
    <3> QED BY <1>2, <3>1, <3>2, <3>3, <3>4, AskKeeps DEF to
  <2>3. CASE Relations!Ask(w, "create", p, q, type, 0, Relations!NewRow(p, q, type, comment))
    <3> DEFINE to == Relations!NewRow(p, q, type, comment)
    <3>1. /\ to \in RelationRows /\ to.state = "active"
          /\ type = Relations!Forward => to.subject = p /\ to.object = q
      BY DEF Relations!NewRow, RelationRows
    <3> HIDE DEF to
    <3> QED BY <1>2, <2>3, <3>1, AskKeeps DEF to
  <2> QED BY <1>2, <2>1, <2>2, <2>3 DEF Relations!RelationshipCreate
<1>3. ASSUME NEW w \in Workers, NEW p \in Linked, NEW q \in Linked, NEW type \in Types, p # q,
             NEW comment \in Comments, Relations!RelationshipUpdate(w, p, q, type, comment)
      PROVE  RelationsInv'
  <2>1. PICK i \in Relations!RelationshipsWith(p, q, type) :
          Relations!Ask(w, "update", p, q, type, i, Relations!Commented(i, comment))
    BY <1>3 DEF Relations!RelationshipUpdate
  <2> DEFINE to == Relations!Commented(i, comment)
  <2>2. i \in Relations!Rows /\ relation[i] \in RelationRows
    BY <1>1 DEF Relations!RelationshipsWith
  <2>3. to \in RelationRows
    BY <2>2 DEF Relations!Commented, RelationRows
  <2> HIDE DEF to
  <2> QED BY <1>3, <2>1, <2>2, <2>3, AskKeeps DEF to
<1>4. ASSUME NEW w \in Workers, NEW p \in Linked, NEW q \in Linked, NEW type \in Types, p # q,
             Relations!RelationshipDelete(w, p, q, type)
      PROVE  RelationsInv'
  <2>1. PICK i \in Relations!RelationshipsWith(p, q, type) :
          Relations!Ask(w, "delete", p, q, type, i, [relation[i] EXCEPT !.state = "deleted"])
    BY <1>4 DEF Relations!RelationshipDelete
  <2> DEFINE to == [relation[i] EXCEPT !.state = "deleted"]
  <2>2. i \in Relations!Rows /\ relation[i] \in RelationRows
    BY <1>1 DEF Relations!RelationshipsWith
  <2>3. to \in RelationRows /\ to.state = "deleted"
    BY <2>2 DEF RelationRows
  <2> HIDE DEF to
  <2> QED BY <1>4, <2>1, <2>2, <2>3, AskKeeps DEF to
<1>5. ASSUME NEW w \in Workers, Relations!Commit(w)
      PROVE  RelationsInv'
  <2>1. PICK at \in 1 .. MaxRelationships, new \in RelationRows :
          relation' = [relation EXCEPT ![at] = new]
    BY <1>5, CommitRelation
  <2>2. /\ relPc' = [relPc EXCEPT ![w] = "idle"] /\ relClean' = {}
        /\ relReq' = [relReq EXCEPT ![w] = Relations!NoRequest]
    BY <1>5 DEF Relations!Commit
  <2>3. RelationsTyped' /\ StillFound'
    BY <2>1, <2>2 DEF RelationsInv, RelationsTyped, StillFound
  <2>4. new # None
    BY RelationsAssumption DEF RelationRows, Relations!Forward
  <2>5. \A i \in Relations!Rows : i \in Relations!Rows'
    BY <2>1, <2>4 DEF RelationsInv, RelationsTyped, Relations!Rows
  <2>6. RelationsAsked'
    BY <2>2, <2>5 DEF RelationsInv, RelationsTyped, RelationsAsked, RelationAsked
  <2> QED BY <2>3, <2>6 DEF RelationsInv
<1>6. ASSUME NEW w \in Workers, Relations!Fail(w)
      PROVE  RelationsInv'
  <2>1. /\ relPc' = [relPc EXCEPT ![w] = "idle"] /\ relClean' = relClean \ {w}
        /\ relReq' = [relReq EXCEPT ![w] = Relations!NoRequest] /\ relation' = relation
    BY <1>6 DEF Relations!Fail
  <2>2. \A v \in Workers \ {w} : relPc'[v] = relPc[v] /\ relReq'[v] = relReq[v]
    BY <2>1 DEF RelationsInv, RelationsTyped
  <2>3. RelationsTyped'
    BY <2>1 DEF RelationsInv, RelationsTyped
  <2>4. RelationsAsked'
    BY <2>1, <2>2 DEF RelationsInv, RelationsTyped, RelationsAsked, RelationAsked, Relations!Rows
  <2>5. StillFound'
    BY <2>1, <2>2 DEF RelationsInv, RelationsTyped, StillFound, Relations!RelationshipsWith,
                      Relations!Joins, Relations!Rows
  <2> QED BY <2>3, <2>4, <2>5 DEF RelationsInv
<1>7. CASE UNCHANGED Relations!vars
  BY <1>7 DEF Relations!vars, RelationsInv, RelationsTyped, RelationsAsked, RelationAsked, StillFound,
              Relations!RelationshipsWith, Relations!Joins, Relations!Rows
<1> QED BY <1>2, <1>3, <1>4, <1>5, <1>6, <1>7 DEF Relations!Next

\* A relationship created by its forward type is listed on both sides with its comment, and
\* one deleted on neither, unless another commit came between or it had two rows: for any
\* datasets, comments and requests (package_relationship_create, package_relationship_delete).
THEOREM RelationshipsAreForward == CatalogueSpec => ForwardAsAsked
<1>1. ASSUME RelationsInv, NEW w \in relClean, Relations!Commit(w), NEW r \in {relReq[w]}
      PROVE  /\ r.kind = "create" /\ r.type = Relations!Forward =>
                  LET dict == [subject |-> r.p, type |-> Relations!Forward, object |-> r.q,
                               comment |-> r.to.comment]
                  IN  /\ dict \in Relations!PackageRelationshipsList(r.p, r.q, {Relations!Forward})'
                      /\ [dict EXCEPT !.subject = r.q, !.object = r.p, !.type = Relations!Reverse]
                           \in Relations!PackageRelationshipsList(r.q, r.p,
                                  {Relations!Forward, Relations!Reverse})'
             /\ r.kind = "delete"
                  /\ Relations!Cardinality(Relations!RelationshipsWith(r.p, r.q, r.type)) = 1 =>
                  \A dict \in Relations!PackageRelationshipsList(r.q, r.p,
                                 {Relations!Forward, Relations!Reverse})' : dict.type = r.type
  <2>1. w \in Workers /\ relPc[w] = "commit" /\ RelationAsked(r)
    BY <1>1 DEF RelationsInv, RelationsTyped, RelationsAsked
  <2>2. PICK at \in 1 .. MaxRelationships :
          /\ relation' = [relation EXCEPT ![at] = r.to]
          /\ r.at # 0 => at = r.at
    BY <1>1, <2>1, CommitRelation
  <2>3. /\ r.to \in RelationRows /\ r.p # r.q /\ r.type \in Types
        /\ r.kind = "create" /\ r.type = Relations!Forward =>
             r.to.subject = r.p /\ r.to.object = r.q /\ r.to.state = "active"
        /\ r.kind = "delete" => r.at # 0 /\ r.to.state = "deleted"
    BY <2>1 DEF RelationAsked
  <2>4. /\ relation'[at] = r.to /\ r.to # None
        /\ \A i \in 1 .. MaxRelationships : i # at => relation'[i] = relation[i]
    <3>1. r.to # None
      BY <2>3, RelationsAssumption DEF RelationRows, Relations!Forward
    <3>2. DOMAIN relation = 1 .. MaxRelationships
      BY <1>1 DEF RelationsInv, RelationsTyped
    <3> QED BY <2>2, <3>1, <3>2
  <2>5. CASE r.kind = "create" /\ r.type = Relations!Forward
    <3>1. /\ at \in Relations!Rows' /\ relation'[at].state = "active"
          /\ relation'[at].subject = r.p /\ relation'[at].object = r.q
      BY <2>3, <2>4, <2>5 DEF Relations!Rows
    <3>2. at \in Relations!RelationshipsWith(r.p, r.q, Relations!Forward)'
      BY <3>1 DEF Relations!RelationshipsWith, Relations!Joins
    <3>3. at \in Relations!RelationshipsWith(r.q, r.p, Relations!Reverse)'
      BY <3>1 DEF Relations!RelationshipsWith, Relations!Joins, Relations!Forward, Relations!Reverse
    <3>4. /\ Relations!AsDict(at, r.p)' = [subject |-> r.p, type |-> Relations!Forward, object |-> r.q,
                                          comment |-> r.to.comment]
          /\ Relations!AsDict(at, r.q)' = [subject |-> r.q, type |-> Relations!Reverse, object |-> r.p,
                                          comment |-> r.to.comment]
      BY <2>3, <2>4, <3>1 DEF Relations!AsDict
    <3>5. Relations!AsDict(at, r.p)' \in Relations!PackageRelationshipsList(r.p, r.q, {Relations!Forward})'
      BY <3>2 DEF Relations!PackageRelationshipsList
    <3>6. Relations!AsDict(at, r.q)'
            \in Relations!PackageRelationshipsList(r.q, r.p, {Relations!Forward, Relations!Reverse})'
      BY <3>3 DEF Relations!PackageRelationshipsList
    <3>7. ~ r.kind = "delete"
      BY <2>5
    <3> DEFINE dict == [subject |-> r.p, type |-> Relations!Forward, object |-> r.q,
                        comment |-> r.to.comment]
    <3>8. [dict EXCEPT !.subject = r.q, !.object = r.p, !.type = Relations!Reverse]
            = [subject |-> r.q, type |-> Relations!Reverse, object |-> r.p, comment |-> r.to.comment]
      <4>1. dict \in [subject : {r.p}, type : {Relations!Forward}, object : {r.q},
                     comment : {r.to.comment}]
        OBVIOUS
      <4> HIDE DEF dict
      <4>2. [dict EXCEPT !.subject = r.q, !.object = r.p, !.type = Relations!Reverse]
              \in [subject : {r.q}, type : {Relations!Reverse}, object : {r.p},
                  comment : {r.to.comment}]
        BY <4>1
      <4>3. \A z \in [subject : {r.q}, type : {Relations!Reverse}, object : {r.p},
                     comment : {r.to.comment}] :
              z = [subject |-> r.q, type |-> Relations!Reverse, object |-> r.p,
                   comment |-> r.to.comment]
        OBVIOUS
      <4> QED BY <4>2, <4>3
    <3> QED BY <3>4, <3>5, <3>6, <3>7, <3>8
  <2>6. CASE /\ r.kind = "delete"
             /\ Relations!Cardinality(Relations!RelationshipsWith(r.p, r.q, r.type)) = 1
    <3>1. at \in Relations!RelationshipsWith(r.p, r.q, r.type)
      <4>0. r = relReq[w]
        OBVIOUS
      <4>1. at = r.at
        BY <2>2, <2>3, <2>6
      <4>2. relReq[w].kind = "delete" =>
              relReq[w].at \in Relations!RelationshipsWith(relReq[w].p, relReq[w].q, relReq[w].type)
        BY <1>1 DEF RelationsInv, StillFound
      <4> QED BY <2>6, <4>0, <4>1, <4>2
    <3>2. \A i \in Relations!RelationshipsWith(r.p, r.q, r.type) : i = at
      <4>1. IsFiniteSet(1 .. MaxRelationships)
        BY RelationsAssumption, FS_Interval
      <4>2. Relations!RelationshipsWith(r.p, r.q, r.type) \subseteq 1 .. MaxRelationships
        BY DEF Relations!RelationshipsWith, Relations!Rows
      <4>3. IsFiniteSet(Relations!RelationshipsWith(r.p, r.q, r.type))
        BY <4>1, <4>2, FS_Subset
      <4>4. Cardinality(Relations!RelationshipsWith(r.p, r.q, r.type)) = 1
        BY <2>6 DEF Relations!Cardinality, Cardinality
      <4> QED BY <3>1, <4>3, <4>4, FS_Singleton
    <3> SUFFICES ASSUME NEW dict \in Relations!PackageRelationshipsList(r.q, r.p,
                                       {Relations!Forward, Relations!Reverse})'
                 PROVE  dict.type = r.type
      BY <2>6
    <3>3. PICK type \in {Relations!Forward, Relations!Reverse} :
            \E i \in Relations!RelationshipsWith(r.q, r.p, type)' : dict = Relations!AsDict(i, r.q)'
      BY DEF Relations!PackageRelationshipsList
    <3>4. PICK i \in Relations!RelationshipsWith(r.q, r.p, type)' : dict = Relations!AsDict(i, r.q)'
      BY <3>3
    <3>5. /\ i \in Relations!Rows' /\ relation'[i].state = "active"
          /\ \/ relation'[i].subject = r.q /\ relation'[i].object = r.p
             \/ relation'[i].subject = r.p /\ relation'[i].object = r.q
      BY DEF Relations!RelationshipsWith, Relations!Joins
    <3>6. i # at /\ i \in Relations!Rows /\ relation'[i] = relation[i]
      BY <2>3, <2>4, <2>6, <3>5 DEF Relations!Rows
    <3>7. i \notin Relations!RelationshipsWith(r.p, r.q, r.type)
      BY <3>2, <3>6
    <3>8. ~ Relations!Joins(r.p, r.q, r.type, i)
      BY <3>5, <3>6, <3>7 DEF Relations!RelationshipsWith
    <3>9. r.type = Relations!Forward \/ r.type = Relations!Reverse
      BY <2>3, RelationsAssumption DEF Relations!Forward, Relations!Reverse
    <3>10. Relations!Forward # Relations!Reverse
      BY DEF Relations!Forward, Relations!Reverse
    <3>11. CASE r.type = Relations!Forward
      <4>1. relation'[i].object = r.p /\ r.p # r.q
        BY <2>3, <3>5, <3>6, <3>8, <3>11 DEF Relations!Joins
      <4> QED BY <3>4, <3>11, <4>1 DEF Relations!AsDict
    <3>12. CASE r.type = Relations!Reverse
      <4>1. relation'[i].object = r.q
        BY <3>5, <3>6, <3>8, <3>10, <3>12 DEF Relations!Joins
      <4> QED BY <3>4, <3>12, <4>1 DEF Relations!AsDict
    <3> QED BY <3>9, <3>11, <3>12
  <2> QED BY <2>5, <2>6
<1>2. RelationsInv => (\A w \in relClean : Relations!Commit(w) => \A r \in {relReq[w]} :
         /\ r.kind = "create" /\ r.type = Relations!Forward =>
              LET dict == [subject |-> r.p, type |-> Relations!Forward, object |-> r.q,
                           comment |-> r.to.comment]
              IN  /\ dict \in Relations!PackageRelationshipsList(r.p, r.q, {Relations!Forward})'
                  /\ [dict EXCEPT !.subject = r.q, !.object = r.p, !.type = Relations!Reverse]
                       \in Relations!PackageRelationshipsList(r.q, r.p,
                              {Relations!Forward, Relations!Reverse})'
         /\ r.kind = "delete"
              /\ Relations!Cardinality(Relations!RelationshipsWith(r.p, r.q, r.type)) = 1 =>
              \A dict \in Relations!PackageRelationshipsList(r.q, r.p,
                             {Relations!Forward, Relations!Reverse})' : dict.type = r.type)
  BY <1>1
<1> QED BY <1>2, RelationsInitially, RelationsStep, CatalogueRunsRelationships, PTL
     DEF Relations!Spec, ForwardAsAsked, Relations!ForwardAsAsked

-----------------------------------------------------------------------------
(***************************************************************************)
(* The lists of a dataset.                                                 *)
(***************************************************************************)
\* Lists without repetitions.
Listing(S) == {s \in Seq(S) : \A m, n \in DOMAIN s : s[m] = s[n] => m = n}

LEMMA UpTo ==
    ASSUME NEW k \in Nat
    PROVE  IsFiniteSet(1 .. k) /\ Cardinality(1 .. k) = k
BY FS_Interval

LEMMA ListingSize ==
    ASSUME NEW S, NEW s \in Listing(S)
    PROVE  /\ IsFiniteSet(OfDataset!ToSet(s)) /\ Cardinality(OfDataset!ToSet(s)) = Len(s)
           /\ s \in [1 .. Len(s) -> OfDataset!ToSet(s)] /\ Len(s) \in Nat
<1>1. s \in [1 .. Len(s) -> OfDataset!ToSet(s)] /\ Len(s) \in Nat /\ DOMAIN s = 1 .. Len(s)
  BY DEF Listing, OfDataset!ToSet
<1>2. s \in Bijection(1 .. Len(s), OfDataset!ToSet(s))
  BY <1>1 DEF Listing, Bijection, Injection, Surjection, IsInjective, OfDataset!ToSet
<1>3. IsFiniteSet(1 .. Len(s)) /\ Cardinality(1 .. Len(s)) = Len(s)
  <2>1. Len(s) \in Nat
    BY <1>1
  <2> QED BY <2>1, UpTo
<1>4. ExistsBijection(1 .. Len(s), OfDataset!ToSet(s))
  BY <1>2 DEF ExistsBijection
<1> QED BY <1>1, <1>3, <1>4, FS_Bijection

\* What an ordering by place has to be.
IsSorted(s, S, place) ==
    /\ s \in [1 .. Cardinality(S) -> S]
    /\ \A m, n \in 1 .. Cardinality(S) : m # n => s[m] # s[n]
    /\ \A m, n \in 1 .. Cardinality(S) : m < n => place[s[m]] =< place[s[n]]

\* Every finite set has one: the members of one place are ordered as they are counted.
LEMMA SortedExists ==
    ASSUME NEW S, IsFiniteSet(S), NEW place \in [S -> Nat]
    PROVE  \E s : IsSorted(s, S, place)
<1> DEFINE N == Cardinality(S)
<1>1. N \in Nat /\ ExistsBijection(1 .. N, S)
  BY FS_CardinalityType
<1>2. PICK f \in Bijection(1 .. N, S) : TRUE
  BY <1>1 DEF ExistsBijection
<1>3. f \in [1 .. N -> S] /\ \A i \in S : \E n \in 1 .. N : f[n] = i
  BY <1>2 DEF Bijection, Surjection, Injection
<1> DEFINE number == [i \in S |-> CHOOSE n \in 1 .. N : f[n] = i]
<1>4. number \in [S -> 1 .. N] /\ \A i \in S : f[number[i]] = i
  BY <1>3
<1> HIDE DEF number
<1> DEFINE before(i, j) == place[i] < place[j] \/ (place[i] = place[j] /\ number[i] < number[j])
           less(j) == {i \in S : before(i, j)}
           rank == [j \in S |-> Cardinality(less(j)) + 1]
<1>5. \A i, j \in S : place[i] \in Nat /\ number[i] \in Nat /\ (number[i] = number[j] => i = j)
  BY <1>1, <1>4
<1>6. \A i, j \in S : i # j => before(i, j) \/ before(j, i)
  BY <1>5
<1>7. \A i, j, k \in S : before(i, j) /\ before(j, k) => before(i, k)
  BY <1>5
<1>8. \A i \in S : ~ before(i, i)
  BY <1>5
<1> HIDE DEF before, less, rank
<1>9. \A i \in S : IsFiniteSet(less(i)) /\ Cardinality(less(i)) \in Nat /\ Cardinality(less(i)) < N
  <2> SUFFICES ASSUME NEW i \in S
               PROVE  IsFiniteSet(less(i)) /\ Cardinality(less(i)) \in Nat /\ Cardinality(less(i)) < N
    OBVIOUS
  <2>1. less(i) \in SUBSET S /\ less(i) # S
    BY <1>8 DEF less
  <2>2. IsFiniteSet(less(i)) /\ Cardinality(less(i)) =< N /\ Cardinality(less(i)) # N
    BY <2>1, FS_Subset
  <2>3. Cardinality(less(i)) \in Nat
    BY <2>2, FS_CardinalityType
  <2> QED BY <1>1, <2>2, <2>3
<1>10. \A i, j \in S : before(i, j) => Cardinality(less(i)) < Cardinality(less(j))
  <2> SUFFICES ASSUME NEW i \in S, NEW j \in S, before(i, j)
               PROVE  Cardinality(less(i)) < Cardinality(less(j))
    OBVIOUS
  <2>1. less(i) \in SUBSET less(j) /\ i \in less(j) /\ i \notin less(i)
    BY <1>7, <1>8 DEF less
  <2>2. Cardinality(less(i)) =< Cardinality(less(j)) /\ Cardinality(less(i)) # Cardinality(less(j))
    BY <1>9, <2>1, FS_Subset
  <2>3. Cardinality(less(i)) \in Nat /\ Cardinality(less(j)) \in Nat
    BY <1>9
  <2> QED BY <2>2, <2>3
<1>11. rank \in [S -> 1 .. N] /\ \A i \in S : rank[i] = Cardinality(less(i)) + 1
  <2>1. \A i \in S : Cardinality(less(i)) + 1 \in 1 .. N
    BY <1>1, <1>9
  <2> QED BY <2>1 DEF rank
<1>12. \A i, j \in S : before(i, j) => rank[i] < rank[j]
  BY <1>9, <1>10, <1>11
<1>13. \A i, j \in S : rank[i] = rank[j] => i = j
  BY <1>6, <1>11, <1>12
<1>14. rank \in Injection(S, 1 .. N)
  BY <1>11, <1>13 DEF Injection, IsInjective
<1>15. IsFiniteSet(1 .. N) /\ Cardinality(1 .. N) = N
  BY <1>1, FS_Interval
<1>16. rank \in Surjection(S, 1 .. N)
  BY <1>14, <1>15, FS_Injection
<1> DEFINE s == [n \in 1 .. N |-> CHOOSE i \in S : rank[i] = n]
<1>17. \A n \in 1 .. N : \E i \in S : rank[i] = n
  BY <1>16 DEF Surjection
<1>18. s \in [1 .. N -> S] /\ \A n \in 1 .. N : rank[s[n]] = n
  BY <1>17
<1> HIDE DEF s
<1>19. \A m, n \in 1 .. N : m # n => s[m] # s[n]
  BY <1>18
<1>20. ASSUME NEW m \in 1 .. N, NEW n \in 1 .. N, m < n PROVE place[s[m]] =< place[s[n]]
  <2>1. s[m] \in S /\ s[n] \in S /\ ~ before(s[n], s[m]) /\ s[m] # s[n]
    BY <1>12, <1>18, <1>19, <1>20
  <2>2. before(s[m], s[n])
    BY <1>6, <2>1
  <2> QED BY <1>5, <2>1, <2>2 DEF before
<1> QED BY <1>18, <1>19, <1>20 DEF IsSorted

LEMMA SortedIs ==
    ASSUME NEW S, IsFiniteSet(S), NEW place \in [S -> Nat]
    PROVE  /\ IsSorted(OfDataset!Sorted(S, place), S, place)
           /\ OfDataset!Sorted(S, place) \in Listing(S)
           /\ OfDataset!ToSet(OfDataset!Sorted(S, place)) = S
<1> DEFINE s == OfDataset!Sorted(S, place)
<1>1. \A T : OfDataset!Cardinality(T) = Cardinality(T)
  BY DEF OfDataset!Cardinality, Cardinality
<1>2. OfDataset!SetToSeqs(S) =
        {f \in [1 .. Cardinality(S) -> S] :
           \A i, j \in 1 .. Cardinality(S) : i # j => f[i] # f[j]}
  BY <1>1 DEF OfDataset!SetToSeqs
<1>3. PICK t : IsSorted(t, S, place)
  BY SortedExists
<1>4. t \in OfDataset!SetToSeqs(S) /\ \A m, n \in DOMAIN t : m < n => place[t[m]] =< place[t[n]]
  BY <1>2, <1>3 DEF IsSorted
<1>5. s \in OfDataset!SetToSeqs(S) /\ \A m, n \in DOMAIN s : m < n => place[s[m]] =< place[s[n]]
  BY <1>4 DEF OfDataset!Sorted
<1> HIDE DEF s
<1>6. IsSorted(s, S, place)
  BY <1>2, <1>5 DEF IsSorted
<1>7. Cardinality(S) \in Nat
  BY FS_CardinalityType
<1>8. s \in Listing(S) /\ DOMAIN s = 1 .. Cardinality(S)
  BY <1>6, <1>7 DEF IsSorted, Listing
<1>9. s \in Injection(1 .. Cardinality(S), S)
  BY <1>6 DEF IsSorted, Injection, IsInjective
<1>10. Cardinality(1 .. Cardinality(S)) = Cardinality(S)
  BY <1>7, FS_Interval
<1>11. s \in Surjection(1 .. Cardinality(S), S)
  BY <1>9, <1>10, FS_Injection
<1>12. OfDataset!ToSet(s) = S
  BY <1>8, <1>11 DEF Surjection, OfDataset!ToSet
<1> QED BY <1>6, <1>8, <1>12 DEF s

\* A list that is in strict order is the one that sorting gives.
LEMMA SortedOnce ==
    ASSUME NEW R, NEW list \in Listing(R), NEW place \in [OfDataset!ToSet(list) -> Nat],
           \A m, n \in 1 .. Len(list) : m < n => place[list[m]] < place[list[n]]
    PROVE  OfDataset!Sorted(OfDataset!ToSet(list), place) = list
<1> DEFINE S == OfDataset!ToSet(list)
           s == OfDataset!Sorted(S, place)
           N == Len(list)
<1>1. IsFiniteSet(S) /\ Cardinality(S) = N /\ list \in [1 .. N -> S] /\ N \in Nat
  BY ListingSize
<1>2. IsSorted(s, S, place) /\ s \in Listing(S) /\ OfDataset!ToSet(s) = S
  BY <1>1, SortedIs
<1>3. \A i \in S : \E n \in 1 .. N : list[n] = i
  BY <1>1 DEF OfDataset!ToSet
<1>4. \A m, n \in 1 .. N : list[m] = list[n] => m = n
  BY <1>1 DEF Listing
<1> HIDE DEF S, s, N
<1>5. s \in [1 .. N -> S] /\ DOMAIN s = 1 .. N
  BY <1>1, <1>2 DEF IsSorted
<1>6. \A i \in S : \E n \in 1 .. N : s[n] = i
  BY <1>2, <1>5 DEF OfDataset!ToSet
<1>7. /\ \A m, n \in 1 .. N : s[m] = s[n] => m = n
      /\ \A m, n \in 1 .. N : m < n => place[s[m]] =< place[s[n]]
  BY <1>1, <1>2 DEF IsSorted
<1> DEFINE bad == {n \in 1 .. N : s[n] # list[n]}
<1>8. bad = {}
  <2> SUFFICES ASSUME bad # {} PROVE FALSE
    OBVIOUS
  <2>1. bad \in SUBSET Nat
    BY <1>1
  <2>2. PICK n \in bad : \A k \in bad : n =< k
    BY <2>1, LeastNat
  <2>3. n \in 1 .. N /\ s[n] # list[n] /\ s[n] \in S /\ list[n] \in S
    BY <1>1, <1>5
  <2>4. PICK k \in 1 .. N : list[k] = s[n]
    BY <1>3, <2>3
  <2>5. PICK l \in 1 .. N : s[l] = list[n]
    BY <1>6, <2>3
  <2>6. \A m \in 1 .. N : m < n => s[m] = list[m]
    BY <2>2
  <2>7. n < k
    BY <1>7, <2>3, <2>4, <2>6
  <2>8. n < l
    BY <1>4, <2>3, <2>5, <2>6
  <2>9. place[s[n]] =< place[s[l]] /\ place[list[n]] < place[list[k]]
    BY <1>7, <2>3, <2>7, <2>8 DEF N
  <2>10. place[s[n]] \in Nat /\ place[list[n]] \in Nat
    BY <2>3 DEF S
  <2> QED BY <2>4, <2>5, <2>9, <2>10
<1>9. s = list
  BY <1>1, <1>5, <1>8
<1> QED BY <1>9 DEF s, S

LEMMA PlaceOf ==
    ASSUME NEW R, NEW list \in Listing(R), NEW n \in 1 .. Len(list)
    PROVE  OfDataset!Place(list, list[n]) = n - 1 /\ list[n] \in OfDataset!ToSet(list)
<1>1. DOMAIN list = 1 .. Len(list) /\ \A m \in DOMAIN list : list[m] = list[n] => m = n
  BY DEF Listing
<1> QED BY <1>1 DEF OfDataset!Place, OfDataset!ToSet

LEMMA WithoutFits ==
    ASSUME NEW R, NEW list \in Listing(R), NEW gone
    PROVE  /\ OfDataset!Without(list, gone) \in Listing(R)
           /\ OfDataset!ToSet(OfDataset!Without(list, gone)) = OfDataset!ToSet(list) \ gone
<1> DEFINE left == OfDataset!ToSet(list) \ gone
           place == [i \in left |-> OfDataset!Place(list, i)]
<1>1. IsFiniteSet(left)
  BY ListingSize, FS_Subset
<1>2. \A i \in left : \E n \in 1 .. Len(list) : i = list[n]
  BY DEF Listing, OfDataset!ToSet
<1>3. \A i \in left : OfDataset!Place(list, i) \in Nat
  <2> SUFFICES ASSUME NEW i \in left PROVE OfDataset!Place(list, i) \in Nat
    OBVIOUS
  <2>1. PICK n \in 1 .. Len(list) : i = list[n]
    BY <1>2
  <2>2. OfDataset!Place(list, i) = n - 1
    BY <2>1, PlaceOf
  <2>3. Len(list) \in Nat
    BY ListingSize
  <2> QED BY <2>2, <2>3
<1>4. place \in [left -> Nat]
  BY <1>3
<1>5. left \subseteq R
  BY DEF Listing, OfDataset!ToSet
<1> HIDE DEF left, place
<1>6. /\ OfDataset!Sorted(left, place) \in Listing(left)
      /\ OfDataset!ToSet(OfDataset!Sorted(left, place)) = left
  BY <1>1, <1>4, SortedIs
<1>7. OfDataset!Sorted(left, place) \in Listing(R)
  BY <1>5, <1>6 DEF Listing
<1> QED BY <1>6, <1>7 DEF OfDataset!Without, left, place

States == {"active", "deleted"}
ResourceRows == [state : States, position : Nat]
ExtraRows == [key : Keys, value : Values, state : States]
TagRows == [tag : Tags, state : States]

\* The columns that are to be written.
Changed(old, new) == {d \in DOMAIN new : old = None \/ old[d] # new[d]}

LEMMA NothingDiffers ==
    ASSUME NEW old, NEW new, new # None
    PROVE  /\ OfDataset!Differs(old, new) = [d \in Changed(old, new) |-> new[d]]
           /\ OfDataset!Differs(old, new) = <<>> <=> Changed(old, new) = {}
<1>1. OfDataset!Differs(old, new) = [d \in Changed(old, new) |-> new[d]]
  BY DEF OfDataset!Differs, Changed
<1>2. [d \in Changed(old, new) |-> new[d]] = <<>> <=> Changed(old, new) = {}
  OBVIOUS
<1> QED BY <1>1, <1>2

LEMMA ResourceWritten ==
    ASSUME NEW old \in ResourceRows \cup {None}, NEW new \in ResourceRows \cup {None},
           new = None => old = None
    PROVE  OfDataset!Written(old, OfDataset!Differs(old, new)) = new
<1> DEFINE D == Changed(old, new)
           c == OfDataset!Differs(old, new)
<1>1. CASE new = None
  BY <1>1 DEF OfDataset!Differs, OfDataset!Written
<1>2. CASE new # None
  <2>1. new \in ResourceRows /\ DOMAIN new = {"state", "position"}
    BY <1>2 DEF ResourceRows
  <2>2. c = [d \in D |-> new[d]] /\ (c = <<>> <=> D = {})
    BY <1>2, NothingDiffers
  <2> HIDE DEF c, D
  <2>3. CASE old = None
    <3>1. D = {"state", "position"}
      BY <2>1, <2>3 DEF D, Changed
    <3>2. c = new
      BY <2>1, <2>2, <3>1 DEF ResourceRows
    <3> QED BY <2>2, <2>3, <3>1, <3>2 DEF OfDataset!Written, c
  <2>4. CASE old # None
    <3>1. old \in ResourceRows /\ DOMAIN old = {"state", "position"}
      BY <2>4 DEF ResourceRows
    <3>2. CASE D = {}
      <4>1. old.state = new.state /\ old.position = new.position
        BY <2>1, <3>2 DEF D, Changed
      <4>2. old = new
        BY <2>1, <3>1, <4>1 DEF ResourceRows
      <4> QED BY <2>2, <3>2, <4>2 DEF OfDataset!Written, c
    <3>3. CASE D # {}
      <4>1. OfDataset!Written(old, c) =
              [d \in DOMAIN old |-> IF d \in DOMAIN c THEN c[d] ELSE old[d]]
        BY <2>2, <2>4, <3>3 DEF OfDataset!Written
      <4>2. DOMAIN c = D
        BY <2>2
      <4>3. \A d \in {"state", "position"} :
              (IF d \in DOMAIN c THEN c[d] ELSE old[d]) = new[d]
        BY <2>1, <2>2, <2>4, <4>2 DEF D, Changed
      <4>4. OfDataset!Written(old, c) = [d \in {"state", "position"} |-> new[d]]
        BY <3>1, <4>1, <4>3
      <4> QED BY <2>1, <4>4 DEF ResourceRows, c
    <3> QED BY <3>2, <3>3
  <2> QED BY <2>3, <2>4
<1> QED BY <1>1, <1>2

LEMMA StaleWritten ==
    ASSUME NEW old \in ResourceRows, NEW held \in ResourceRows, NEW new \in ResourceRows
    PROVE  OfDataset!Written(old, OfDataset!Differs(held, new)) \in ResourceRows
<1> DEFINE D == Changed(held, new)
           c == OfDataset!Differs(held, new)
<1>1. new # None /\ old # None /\ held # None
  BY ListsAssumption DEF ResourceRows, States
<1>2. c = [d \in D |-> new[d]] /\ (c = <<>> <=> D = {})
  BY <1>1, NothingDiffers
<1>3. D \subseteq {"state", "position"} /\ DOMAIN old = {"state", "position"}
  BY DEF ResourceRows, Changed
<1> HIDE DEF c, D
<1>4. CASE D = {}
  BY <1>2, <1>4 DEF OfDataset!Written, c
<1>5. CASE D # {}
  <2>1. OfDataset!Written(old, c) =
          [d \in {"state", "position"} |-> IF d \in D THEN new[d] ELSE old[d]]
    BY <1>1, <1>2, <1>3, <1>5 DEF OfDataset!Written
  <2>2. OfDataset!Written(old, c) =
          [state |-> IF "state" \in D THEN new.state ELSE old.state,
           position |-> IF "position" \in D THEN new.position ELSE old.position]
    BY <2>1
  <2> QED BY <2>2 DEF ResourceRows, c
<1> QED BY <1>4, <1>5

LEMMA ExtraWritten ==
    ASSUME NEW old \in ExtraRows, NEW new \in ExtraRows
    PROVE  OfDataset!Written(old, OfDataset!Differs(old, new)) = new
<1> DEFINE D == Changed(old, new)
           c == OfDataset!Differs(old, new)
<1>1. new # None /\ old # None
  BY ListsAssumption DEF ExtraRows, States
<1>2. c = [d \in D |-> new[d]] /\ (c = <<>> <=> D = {})
  BY <1>1, NothingDiffers
<1>3. DOMAIN old = {"key", "value", "state"} /\ DOMAIN new = {"key", "value", "state"}
  BY DEF ExtraRows
<1> HIDE DEF c, D
<1>4. CASE D = {}
  <2>1. old.key = new.key /\ old.value = new.value /\ old.state = new.state
    BY <1>3, <1>4 DEF D, Changed
  <2>2. old = new
    BY <2>1 DEF ExtraRows
  <2> QED BY <1>2, <1>4, <2>2 DEF OfDataset!Written, c
<1>5. CASE D # {}
  <2>1. \A d \in DOMAIN old : (IF d \in D THEN new[d] ELSE old[d]) = new[d]
    BY <1>1, <1>3 DEF D, Changed
  <2>2. OfDataset!Written(old, c) = [d \in DOMAIN old |-> IF d \in D THEN new[d] ELSE old[d]]
    BY <1>1, <1>2, <1>5 DEF OfDataset!Written
  <2>3. OfDataset!Written(old, c) = [d \in {"key", "value", "state"} |-> new[d]]
    BY <1>3, <2>1, <2>2
  <2> QED BY <2>3 DEF ExtraRows, c
<1> QED BY <1>4, <1>5

LEMMA TagWritten ==
    ASSUME NEW old \in TagRows, NEW new \in TagRows
    PROVE  OfDataset!Written(old, OfDataset!Differs(old, new)) = new
<1> DEFINE D == Changed(old, new)
           c == OfDataset!Differs(old, new)
<1>1. new # None /\ old # None
  BY ListsAssumption DEF TagRows, States
<1>2. c = [d \in D |-> new[d]] /\ (c = <<>> <=> D = {})
  BY <1>1, NothingDiffers
<1>3. DOMAIN old = {"tag", "state"} /\ DOMAIN new = {"tag", "state"}
  BY DEF TagRows
<1> HIDE DEF c, D
<1>4. CASE D = {}
  <2>1. old.tag = new.tag /\ old.state = new.state
    BY <1>3, <1>4 DEF D, Changed
  <2>2. old = new
    BY <2>1 DEF TagRows
  <2> QED BY <1>2, <1>4, <2>2 DEF OfDataset!Written, c
<1>5. CASE D # {}
  <2>1. \A d \in DOMAIN old : (IF d \in D THEN new[d] ELSE old[d]) = new[d]
    BY <1>1, <1>3 DEF D, Changed
  <2>2. OfDataset!Written(old, c) = [d \in DOMAIN old |-> IF d \in D THEN new[d] ELSE old[d]]
    BY <1>1, <1>2, <1>5 DEF OfDataset!Written
  <2>3. OfDataset!Written(old, c) = [d \in {"tag", "state"} |-> new[d]]
    BY <1>3, <2>1, <2>2
  <2> QED BY <2>3 DEF TagRows, c
<1> QED BY <1>4, <1>5

\* Rows of the right form, one for each key and each tag.
ListsTyped ==
    /\ resources \in [ResourceIds -> ResourceRows \cup {None}]
    /\ extras \in Seq(ExtraRows) /\ tags \in Seq(TagRows)
    /\ \A n, m \in DOMAIN extras : extras[n].key = extras[m].key => n = m
    /\ \A n, m \in DOMAIN tags : tags[n].tag = tags[m].tag => n = m
    /\ listsPc \in [Workers -> {"idle", "save", "commit"}]
    /\ listsReq = [w \in Workers |-> listsReq[w]] /\ listsClean \subseteq Workers

AskFits(ask) ==
    /\ ask.resources \in Listing(ResourceIds)
    /\ IsFiniteSet(DOMAIN ask.extras) /\ DOMAIN ask.extras \subseteq Keys
    /\ \A k \in DOMAIN ask.extras : ask.extras[k] \in Values
    /\ IsFiniteSet(ask.tags) /\ ask.tags \subseteq Tags

\* The rows that a session holds are of resources that are still there; they are the rows
\* of the table for as long as the session is clean.
HeldFits(held, isClean) ==
    \A i \in DOMAIN held :
      /\ i \in ResourceIds /\ held[i] \in ResourceRows /\ resources[i] # None
      /\ isClean => held[i] = resources[i]

\* What a request is about to write brings the rows in line with what it was asked for; a
\* session that is not clean may spoil the rows of the resources, but not their form.
WritesFit(ask, c, isClean) ==
    /\ \A i \in ResourceIds :
         /\ OfDataset!Written(resources[i], c.resources[i]) \in ResourceRows \cup {None}
         /\ resources[i] # None => OfDataset!Written(resources[i], c.resources[i]) # None
         /\ isClean =>
              OfDataset!Written(resources[i], c.resources[i]) = OfDataset!ResourceRow(ask.resources, i)
    /\ DOMAIN c.extras = DOMAIN extras
    /\ \A n \in DOMAIN extras :
         OfDataset!Written(extras[n], c.extras[n]) = OfDataset!ExtraRow(ask.extras, n)
    /\ DOMAIN c.tags = DOMAIN tags
    /\ \A n \in DOMAIN tags :
         OfDataset!Written(tags[n], c.tags[n]) = OfDataset!TagRow(ask.tags, n)
    /\ c.newExtras = OfDataset!NewExtras(ask.extras) /\ c.newTags = OfDataset!NewTags(ask.tags)

ListsFit ==
    \A w \in Workers :
      /\ listsPc[w] # "idle" => AskFits(listsReq[w].ask)
      /\ listsPc[w] = "save" => HeldFits(listsReq[w].held, w \in listsClean)
      /\ listsPc[w] = "commit" =>
           WritesFit(listsReq[w].ask, listsReq[w].changes, w \in listsClean)

\* The lock of the row of the package.
OneWrites == \A v, w \in Workers : listsPc[v] = "commit" /\ listsPc[w] = "commit" => v = w

ListsInv == ListsTyped /\ ListsFit /\ OneWrites

LEMMA ListsInitially == OfDataset!Init => ListsInv
<1> SUFFICES ASSUME OfDataset!Init PROVE ListsInv
  OBVIOUS
<1>1. /\ resources = [i \in ResourceIds |-> None] /\ extras = <<>> /\ tags = <<>>
      /\ listsPc = [w \in Workers |-> "idle"] /\ listsClean = {}
      /\ listsReq = [w \in Workers |-> OfDataset!NoRequest]
  BY DEF OfDataset!Init
<1> QED BY <1>1 DEF ListsInv, ListsTyped, ListsFit, OneWrites

LEMMA SameRows ==
    ASSUME UNCHANGED <<resources, extras, tags>>
    PROVE  \A ask, c, b : WritesFit(ask, c, b) => WritesFit(ask, c, b)'
<1>1. /\ \A l, i : OfDataset!ResourceRow(l, i)' = OfDataset!ResourceRow(l, i)
      /\ \A x, n : OfDataset!ExtraRow(x, n)' = OfDataset!ExtraRow(x, n)
      /\ \A x, n : OfDataset!TagRow(x, n)' = OfDataset!TagRow(x, n)
  BY DEF OfDataset!ResourceRow, OfDataset!ExtraRow, OfDataset!TagRow
<1>2. /\ \A x : OfDataset!NewExtras(x)' = OfDataset!NewExtras(x)
      /\ \A x : OfDataset!NewTags(x)' = OfDataset!NewTags(x)
  BY DEF OfDataset!NewExtras, OfDataset!NewTags
<1> QED BY <1>1, <1>2 DEF WritesFit

\* Steps that only change what one worker is about to do.
LEMMA PlanLists ==
    ASSUME ListsInv, NEW w \in Workers, NEW step \in {"idle", "save", "commit"}, NEW r,
           listsPc' = [listsPc EXCEPT ![w] = step], listsReq' = [listsReq EXCEPT ![w] = r],
           UNCHANGED <<resources, extras, tags>>,
           listsClean' \subseteq listsClean \cup {w},
           step # "idle" => AskFits(r.ask),
           step = "save" => HeldFits(r.held, w \in listsClean'),
           step = "commit" => WritesFit(r.ask, r.changes, w \in listsClean'),
           step = "commit" => \A v \in Workers : listsPc[v] # "commit"
    PROVE  ListsInv'
<1>1. /\ listsPc'[w] = step /\ listsReq'[w] = r
      /\ \A v \in Workers \ {w} : listsPc'[v] = listsPc[v] /\ listsReq'[v] = listsReq[v]
      /\ \A v \in Workers \ {w} : v \in listsClean' => v \in listsClean
  BY DEF ListsInv, ListsTyped
<1>2. ListsTyped'
  BY DEF ListsInv, ListsTyped
<1>3. OneWrites'
  BY <1>1 DEF ListsInv, OneWrites
<1>4. resources' = resources /\ extras' = extras /\ tags' = tags
  OBVIOUS
<1>5. ASSUME NEW v \in Workers
      PROVE  /\ listsPc'[v] # "idle" => AskFits(listsReq'[v].ask)
             /\ listsPc'[v] = "save" => HeldFits(listsReq'[v].held, v \in listsClean')
             /\ listsPc'[v] = "commit" =>
                  WritesFit(listsReq'[v].ask, listsReq'[v].changes, v \in listsClean')
  <2>1. CASE v = w
    BY <1>1, <2>1
  <2>2. CASE v # w
    <3>1. /\ listsPc[v] # "idle" => AskFits(listsReq[v].ask)
          /\ listsPc[v] = "save" => HeldFits(listsReq[v].held, v \in listsClean)
          /\ listsPc[v] = "commit" =>
               WritesFit(listsReq[v].ask, listsReq[v].changes, v \in listsClean)
      BY DEF ListsInv, ListsFit
    <3>2. \A held : HeldFits(held, v \in listsClean) => HeldFits(held, v \in listsClean')
      BY <1>1, <2>2 DEF HeldFits
    <3>3. \A ask, c : WritesFit(ask, c, v \in listsClean) => WritesFit(ask, c, v \in listsClean')
      BY <1>1, <2>2 DEF WritesFit
    <3> QED BY <1>1, <2>2, <3>1, <3>2, <3>3
  <2> QED BY <2>1, <2>2
<1>6. \A held, b : HeldFits(held, b) => HeldFits(held, b)'
  BY <1>4 DEF HeldFits
<1>7. \A ask, c, b : WritesFit(ask, c, b) => WritesFit(ask, c, b)'
  BY SameRows
<1>8. ListsFit'
  BY <1>5, <1>6, <1>7 DEF ListsFit
<1> QED BY <1>2, <1>3, <1>8 DEF ListsInv

LEMMA FiniteValues ==
    ASSUME NEW D, IsFiniteSet(D), NEW f
    PROVE  IsFiniteSet({f[n] : n \in D})
<1> DEFINE g == [n \in D |-> f[n]]
           V == {f[n] : n \in D}
<1>1. g \in [D -> V] /\ \A v \in V : \E n \in D : g[n] = v
  OBVIOUS
<1>2. g \in Surjection(D, V)
  BY <1>1 DEF Surjection
<1> QED BY <1>2, FS_Surjection

\* What package_show gives can be asked for.
LEMMA ShownFits ==
    ASSUME ListsInv
    PROVE  /\ AskFits(OfDataset!Shown)
           /\ OfDataset!ToSet(OfDataset!Shown.resources) \subseteq OfDataset!Known
<1> DEFINE shown == {i \in OfDataset!Known : OfDataset!Active(i)}
           place == [i \in shown |-> resources[i].position]
<1>1. shown \in SUBSET ResourceIds /\ \A i \in shown : resources[i] \in ResourceRows
  BY DEF ListsInv, ListsTyped, OfDataset!Known
<1>2. IsFiniteSet(shown)
  BY <1>1, ListsAssumption, FS_Subset
<1>3. place \in [shown -> Nat]
  BY <1>1 DEF ResourceRows
<1>4. shown \subseteq OfDataset!Known
  OBVIOUS
<1> HIDE DEF shown, place
<1>5. /\ OfDataset!Sorted(shown, place) \in Listing(shown)
      /\ OfDataset!ToSet(OfDataset!Sorted(shown, place)) = shown
  BY <1>2, <1>3, SortedIs
<1>6. OfDataset!Shown.resources = OfDataset!Sorted(shown, place)
  BY DEF OfDataset!Shown, OfDataset!ShownResources, shown, place
<1>7. /\ OfDataset!Shown.resources \in Listing(ResourceIds)
      /\ OfDataset!ToSet(OfDataset!Shown.resources) \subseteq OfDataset!Known
  BY <1>1, <1>4, <1>5, <1>6 DEF Listing
<1> DEFINE rows == {n \in DOMAIN extras : extras[n].state = "active"}
<1>8. OfDataset!ShownExtras = {[key |-> extras[n].key, value |-> extras[n].value] : n \in rows}
  BY DEF OfDataset!ShownExtras, OfDataset!Indexes
<1>9. \A n \in DOMAIN extras : extras[n] \in ExtraRows
  BY DEF ListsInv, ListsTyped
<1>10. \A e \in OfDataset!ShownExtras : e.key \in Keys /\ e.value \in Values
  BY <1>8, <1>9 DEF ExtraRows
<1>11. IsFiniteSet({extras[n].key : n \in DOMAIN extras})
  <2>1. IsFiniteSet(DOMAIN extras)
    <3>1. DOMAIN extras = 1 .. Len(extras) /\ Len(extras) \in Nat
      BY DEF ListsInv, ListsTyped
    <3> QED BY <3>1, FS_Interval
  <2> DEFINE f == [n \in DOMAIN extras |-> extras[n].key]
  <2>2. {f[n] : n \in DOMAIN extras} = {extras[n].key : n \in DOMAIN extras}
    OBVIOUS
  <2> HIDE DEF f
  <2> QED BY <2>1, <2>2, FiniteValues
<1>12. {e.key : e \in OfDataset!ShownExtras} \in SUBSET {extras[n].key : n \in DOMAIN extras}
  BY <1>8
<1>13. IsFiniteSet({e.key : e \in OfDataset!ShownExtras})
  BY <1>11, <1>12, FS_Subset
<1>14. IsFiniteSet({tags[n].tag : n \in DOMAIN tags})
  <2>1. IsFiniteSet(DOMAIN tags)
    <3>1. DOMAIN tags = 1 .. Len(tags) /\ Len(tags) \in Nat
      BY DEF ListsInv, ListsTyped
    <3> QED BY <3>1, FS_Interval
  <2> DEFINE f == [n \in DOMAIN tags |-> tags[n].tag]
  <2>2. {f[n] : n \in DOMAIN tags} = {tags[n].tag : n \in DOMAIN tags}
    OBVIOUS
  <2> HIDE DEF f
  <2> QED BY <2>1, <2>2, FiniteValues
<1>15. OfDataset!ShownTags \in SUBSET {tags[n].tag : n \in DOMAIN tags}
  BY DEF OfDataset!ShownTags, OfDataset!Indexes
<1>16. IsFiniteSet(OfDataset!ShownTags)
  BY <1>14, <1>15, FS_Subset
<1>17. \A n \in DOMAIN tags : tags[n].tag \in Tags
  <2>1. \A n \in DOMAIN tags : tags[n] \in TagRows
    BY DEF ListsInv, ListsTyped
  <2> QED BY <2>1 DEF TagRows
<1>18. /\ OfDataset!Shown.tags = OfDataset!ShownTags
       /\ DOMAIN OfDataset!Shown.extras = {e.key : e \in OfDataset!ShownExtras}
       /\ \A k \in DOMAIN OfDataset!Shown.extras :
            OfDataset!Shown.extras[k] = (CHOOSE e \in OfDataset!ShownExtras : e.key = k).value
  BY DEF OfDataset!Shown
<1>19. \A k \in DOMAIN OfDataset!Shown.extras : k \in Keys /\ OfDataset!Shown.extras[k] \in Values
  <2> SUFFICES ASSUME NEW k \in DOMAIN OfDataset!Shown.extras
               PROVE  k \in Keys /\ OfDataset!Shown.extras[k] \in Values
    OBVIOUS
  <2>1. \E e \in OfDataset!ShownExtras : e.key = k
    BY <1>18
  <2>2. (CHOOSE e \in OfDataset!ShownExtras : e.key = k) \in OfDataset!ShownExtras
    BY <2>1
  <2> QED BY <1>10, <1>18, <2>1, <2>2
<1> QED BY <1>7, <1>13, <1>15, <1>16, <1>17, <1>18, <1>19 DEF AskFits

\* The rows that an update is to leave.
LEMMA ResourceRowFits ==
    ASSUME ListsInv, NEW ask, AskFits(ask), NEW i \in ResourceIds
    PROVE  LET new == OfDataset!ResourceRow(ask.resources, i) IN
           /\ new \in ResourceRows \cup {None} /\ (new = None => resources[i] = None)
           /\ i \in OfDataset!ToSet(ask.resources) =>
                new = [state |-> "active", position |-> OfDataset!Place(ask.resources, i)]
           /\ i \notin OfDataset!ToSet(ask.resources) => new = None \/ new.state = "deleted"
<1> DEFINE new == OfDataset!ResourceRow(ask.resources, i)
<1>1. resources[i] \in ResourceRows \cup {None} /\ ask.resources \in Listing(ResourceIds)
  BY DEF ListsInv, ListsTyped, AskFits
<1>2. None \notin ResourceRows
  BY ListsAssumption DEF ResourceRows, States
<1>3. CASE i \in OfDataset!ToSet(ask.resources)
  <2>1. PICK n \in 1 .. Len(ask.resources) : ask.resources[n] = i
    BY <1>1, <1>3 DEF OfDataset!ToSet, Listing
  <2>2. OfDataset!Place(ask.resources, i) = n - 1 /\ Len(ask.resources) \in Nat
    BY <1>1, <2>1, PlaceOf, ListingSize
  <2>3. new = [state |-> "active", position |-> n - 1]
    BY <1>3, <2>2 DEF OfDataset!ResourceRow
  <2>4. new \in ResourceRows
    BY <2>2, <2>3 DEF ResourceRows, States
  <2> QED BY <1>2, <1>3, <2>2, <2>3, <2>4
<1>4. CASE i \notin OfDataset!ToSet(ask.resources) /\ resources[i] = None
  BY <1>4 DEF OfDataset!ResourceRow
<1>5. CASE i \notin OfDataset!ToSet(ask.resources) /\ resources[i] # None
  <2>1. new = [resources[i] EXCEPT !.state = "deleted"] /\ resources[i] \in ResourceRows
    BY <1>1, <1>5 DEF OfDataset!ResourceRow
  <2>2. new \in ResourceRows /\ new.state = "deleted"
    BY <2>1 DEF ResourceRows, States
  <2> QED BY <1>2, <1>5, <2>2
<1> QED BY <1>3, <1>4, <1>5

LEMMA ExtraRowFits ==
    ASSUME ListsInv, NEW ask, AskFits(ask), NEW n \in DOMAIN extras
    PROVE  LET new == OfDataset!ExtraRow(ask.extras, n) IN
           /\ extras[n] \in ExtraRows /\ new \in ExtraRows /\ new.key = extras[n].key
           /\ new.state = "active" <=> new.key \in DOMAIN ask.extras
           /\ new.key \in DOMAIN ask.extras => new.value = ask.extras[new.key]
<1>1. extras[n] \in ExtraRows
  BY DEF ListsInv, ListsTyped
<1>2. CASE extras[n].key \in DOMAIN ask.extras
  BY <1>1, <1>2 DEF OfDataset!ExtraRow, ExtraRows, States, AskFits
<1>3. CASE extras[n].key \notin DOMAIN ask.extras
  BY <1>1, <1>3 DEF OfDataset!ExtraRow, ExtraRows, States, AskFits
<1> QED BY <1>2, <1>3

LEMMA TagRowFits ==
    ASSUME ListsInv, NEW ask, NEW n \in DOMAIN tags
    PROVE  LET new == OfDataset!TagRow(ask.tags, n) IN
           /\ tags[n] \in TagRows /\ new \in TagRows /\ new.tag = tags[n].tag
           /\ new.state = "active" <=> new.tag \in ask.tags
<1>1. tags[n] \in TagRows
  BY DEF ListsInv, ListsTyped
<1> QED BY <1>1 DEF OfDataset!TagRow, TagRows, States

\* What a request works out from the rows it holds and the rows it reads.
LEMMA PlannedWrites ==
    ASSUME ListsInv, NEW ask, AskFits(ask), NEW held, NEW b \in BOOLEAN, HeldFits(held, b)
    PROVE  WritesFit(ask, OfDataset!Changes(ask, held), b)
<1> DEFINE c == OfDataset!Changes(ask, held)
<1>1. /\ c.resources = [i \in ResourceIds |->
                          OfDataset!Differs(IF i \in DOMAIN held THEN held[i] ELSE resources[i],
                                            OfDataset!ResourceRow(ask.resources, i))]
      /\ c.extras = [n \in DOMAIN extras |->
                       OfDataset!Differs(extras[n], OfDataset!ExtraRow(ask.extras, n))]
      /\ c.tags = [n \in DOMAIN tags |-> OfDataset!Differs(tags[n], OfDataset!TagRow(ask.tags, n))]
      /\ c.newExtras = OfDataset!NewExtras(ask.extras) /\ c.newTags = OfDataset!NewTags(ask.tags)
  BY DEF OfDataset!Changes
<1> HIDE DEF c
<1>2. ASSUME NEW i \in ResourceIds
      PROVE  /\ OfDataset!Written(resources[i], c.resources[i]) \in ResourceRows \cup {None}
             /\ resources[i] # None => OfDataset!Written(resources[i], c.resources[i]) # None
             /\ b => OfDataset!Written(resources[i], c.resources[i])
                       = OfDataset!ResourceRow(ask.resources, i)
  <2> DEFINE old == resources[i]
             new == OfDataset!ResourceRow(ask.resources, i)
  <2>1. old \in ResourceRows \cup {None}
    BY DEF ListsInv, ListsTyped
  <2>2. new \in ResourceRows \cup {None} /\ (new = None => old = None)
    BY ResourceRowFits
  <2>3. None \notin ResourceRows
    BY ListsAssumption DEF ResourceRows, States
  <2> HIDE DEF old, new
  <2>4. CASE i \in DOMAIN held /\ ~ b
    <3>1. held[i] \in ResourceRows /\ old # None
      BY <2>4 DEF HeldFits, old
    <3>2. c.resources[i] = OfDataset!Differs(held[i], new)
      BY <1>1, <2>4 DEF new
    <3>3. new \in ResourceRows /\ old \in ResourceRows
      BY <2>1, <2>2, <3>1
    <3>4. OfDataset!Written(old, OfDataset!Differs(held[i], new)) \in ResourceRows
      BY <3>1, <3>3, StaleWritten
    <3> QED BY <2>3, <2>4, <3>2, <3>4 DEF old
  <2>5. CASE i \notin DOMAIN held \/ b
    <3>1. c.resources[i] = OfDataset!Differs(old, new)
      BY <1>1, <2>5 DEF HeldFits, old, new
    <3>2. OfDataset!Written(old, OfDataset!Differs(old, new)) = new
      BY <2>1, <2>2, ResourceWritten
    <3> QED BY <2>2, <3>1, <3>2 DEF old, new
  <2> QED BY <2>4, <2>5
<1>3. ASSUME NEW n \in DOMAIN extras
      PROVE  OfDataset!Written(extras[n], c.extras[n]) = OfDataset!ExtraRow(ask.extras, n)
  <2>1. extras[n] \in ExtraRows /\ OfDataset!ExtraRow(ask.extras, n) \in ExtraRows
    BY ExtraRowFits
  <2>2. c.extras[n] = OfDataset!Differs(extras[n], OfDataset!ExtraRow(ask.extras, n))
    BY <1>1
  <2> QED BY <2>1, <2>2, ExtraWritten
<1>4. ASSUME NEW n \in DOMAIN tags
      PROVE  OfDataset!Written(tags[n], c.tags[n]) = OfDataset!TagRow(ask.tags, n)
  <2>1. tags[n] \in TagRows /\ OfDataset!TagRow(ask.tags, n) \in TagRows
    BY TagRowFits
  <2>2. c.tags[n] = OfDataset!Differs(tags[n], OfDataset!TagRow(ask.tags, n))
    BY <1>1
  <2> QED BY <2>1, <2>2, TagWritten
<1>5. DOMAIN c.extras = DOMAIN extras /\ DOMAIN c.tags = DOMAIN tags
  BY <1>1
<1>6. WritesFit(ask, c, b)
  BY <1>1, <1>2, <1>3, <1>4, <1>5 DEF WritesFit
<1> QED BY <1>6 DEF c

LEMMA EachOnce ==
    ASSUME NEW S, IsFiniteSet(S)
    PROVE  /\ OfDataset!SetToSeq(S) \in [1 .. Cardinality(S) -> S] /\ Cardinality(S) \in Nat
           /\ \A m, n \in 1 .. Cardinality(S) :
                OfDataset!SetToSeq(S)[m] = OfDataset!SetToSeq(S)[n] => m = n
           /\ \A x \in S : \E n \in 1 .. Cardinality(S) : OfDataset!SetToSeq(S)[n] = x
<1> DEFINE N == Cardinality(S)
           s == OfDataset!SetToSeq(S)
<1>1. N \in Nat /\ ExistsBijection(1 .. N, S)
  BY FS_CardinalityType
<1>2. PICK f : f \in Bijection(1 .. N, S)
  BY <1>1 DEF ExistsBijection
<1>3. \A T : OfDataset!Cardinality(T) = Cardinality(T)
  BY DEF OfDataset!Cardinality, Cardinality
<1>4. s = CHOOSE g \in [1 .. N -> S] : \A a, b \in DOMAIN g : g[a] = g[b] => a = b
  BY <1>3 DEF OfDataset!SetToSeq, OfDataset!IsInjective
<1>5. f \in [1 .. N -> S] /\ \A a, b \in DOMAIN f : f[a] = f[b] => a = b
  BY <1>2 DEF Bijection, Injection, IsInjective
<1>6. s \in [1 .. N -> S] /\ \A a, b \in DOMAIN s : s[a] = s[b] => a = b
  BY <1>4, <1>5
<1> HIDE DEF s
<1>7. s \in Injection(1 .. N, S)
  BY <1>6 DEF Injection, IsInjective
<1>8. Cardinality(1 .. N) = N
  BY <1>1, FS_Interval
<1>9. s \in Surjection(1 .. N, S)
  BY <1>7, <1>8, FS_Injection
<1>10. \A x \in S : \E n \in 1 .. N : s[n] = x
  BY <1>9 DEF Surjection
<1>11. \A m, n \in 1 .. N : s[m] = s[n] => m = n
  BY <1>6
<1> QED BY <1>1, <1>6, <1>10, <1>11 DEF s

LEMMA Joined ==
    ASSUME NEW X, NEW a \in Seq(X), NEW b \in Seq(X)
    PROVE  /\ a \o b \in Seq(X)
           /\ \A n \in DOMAIN a : n \in DOMAIN (a \o b) /\ (a \o b)[n] = a[n]
           /\ \A n \in DOMAIN b : Len(a) + n \in DOMAIN (a \o b) /\ (a \o b)[Len(a) + n] = b[n]
           /\ \A n \in DOMAIN (a \o b) :
                n \in DOMAIN a \/ \E m \in DOMAIN b : n = Len(a) + m
<1>1. \A n \in DOMAIN (a \o b) : n \notin DOMAIN a => n - Len(a) \in DOMAIN b /\ n = Len(a) + (n - Len(a))
  OBVIOUS
<1>2. /\ a \o b \in Seq(X)
      /\ \A n \in DOMAIN a : n \in DOMAIN (a \o b) /\ (a \o b)[n] = a[n]
      /\ \A n \in DOMAIN b : Len(a) + n \in DOMAIN (a \o b) /\ (a \o b)[Len(a) + n] = b[n]
  OBVIOUS
<1> QED BY <1>1, <1>2

\* The rows that an update adds: one for each key and each tag that has none.
LEMMA NewExtrasAre ==
    ASSUME ListsInv, NEW ask, AskFits(ask)
    PROVE  LET new == OfDataset!NewExtras(ask.extras) IN
           /\ new \in Seq(ExtraRows)
           /\ \A n \in DOMAIN new :
                /\ new[n].key \in DOMAIN ask.extras /\ new[n].value = ask.extras[new[n].key]
                /\ new[n].state = "active" /\ \A m \in DOMAIN extras : extras[m].key # new[n].key
           /\ \A m, n \in DOMAIN new : new[m].key = new[n].key => m = n
           /\ \A k \in DOMAIN ask.extras :
                (\A m \in DOMAIN extras : extras[m].key # k) => \E n \in DOMAIN new : new[n].key = k
<1> DEFINE new == OfDataset!NewExtras(ask.extras)
           keys == DOMAIN ask.extras \ {extras[n].key : n \in DOMAIN extras}
           s == OfDataset!SetToSeq(keys)
           N == Cardinality(keys)
<1>1. OfDataset!Cardinality(keys) = N
  BY DEF OfDataset!Cardinality, Cardinality
<1>2. new = [n \in 1 .. N |-> [key |-> s[n], value |-> ask.extras[s[n]], state |-> "active"]]
  BY <1>1 DEF OfDataset!NewExtras
<1>3. IsFiniteSet(keys)
  BY FS_Subset DEF AskFits
<1>4. \A k \in keys : k \in DOMAIN ask.extras /\ \A m \in DOMAIN extras : extras[m].key # k
  OBVIOUS
<1>5. \A k \in DOMAIN ask.extras : (\A m \in DOMAIN extras : extras[m].key # k) => k \in keys
  OBVIOUS
<1> HIDE DEF keys, s, N, new
<1>6. /\ s \in [1 .. N -> keys] /\ N \in Nat
      /\ \A m, n \in 1 .. N : s[m] = s[n] => m = n
      /\ \A k \in keys : \E n \in 1 .. N : s[n] = k
  BY <1>3, EachOnce DEF s, N
<1>7. \A n \in 1 .. N : s[n] \in keys
  BY <1>6
<1>8. \A n \in 1 .. N : s[n] \in Keys /\ ask.extras[s[n]] \in Values
  BY <1>4, <1>7 DEF AskFits
<1>9. /\ DOMAIN new = 1 .. N
      /\ \A n \in 1 .. N : new[n] = [key |-> s[n], value |-> ask.extras[s[n]], state |-> "active"]
  BY <1>2
<1>10. \A n \in 1 .. N : new[n] \in ExtraRows
  BY <1>8, <1>9 DEF ExtraRows, States
<1>11. new \in Seq(ExtraRows)
  BY <1>2, <1>6, <1>9, <1>10
<1>12. \A n \in DOMAIN new :
         /\ new[n].key \in DOMAIN ask.extras /\ new[n].value = ask.extras[new[n].key]
         /\ new[n].state = "active" /\ \A m \in DOMAIN extras : extras[m].key # new[n].key
  BY <1>4, <1>7, <1>9
<1>13. \A m, n \in DOMAIN new : new[m].key = new[n].key => m = n
  BY <1>6, <1>9
<1>14. \A k \in DOMAIN ask.extras :
         (\A m \in DOMAIN extras : extras[m].key # k) => \E n \in DOMAIN new : new[n].key = k
  BY <1>5, <1>6, <1>9
<1> QED BY <1>11, <1>12, <1>13, <1>14 DEF new

LEMMA NewTagsAre ==
    ASSUME ListsInv, NEW ask, AskFits(ask)
    PROVE  LET new == OfDataset!NewTags(ask.tags) IN
           /\ new \in Seq(TagRows)
           /\ \A n \in DOMAIN new :
                /\ new[n].tag \in ask.tags /\ new[n].state = "active"
                /\ \A m \in DOMAIN tags : tags[m].tag # new[n].tag
           /\ \A m, n \in DOMAIN new : new[m].tag = new[n].tag => m = n
           /\ \A t \in ask.tags :
                (\A m \in DOMAIN tags : tags[m].tag # t) => \E n \in DOMAIN new : new[n].tag = t
<1> DEFINE new == OfDataset!NewTags(ask.tags)
           names == ask.tags \ {tags[n].tag : n \in DOMAIN tags}
           s == OfDataset!SetToSeq(names)
           N == Cardinality(names)
<1>1. new = [n \in DOMAIN s |-> [tag |-> s[n], state |-> "active"]]
  BY DEF OfDataset!NewTags
<1>2. IsFiniteSet(names)
  BY FS_Subset DEF AskFits
<1>3. \A t \in names : t \in ask.tags /\ \A m \in DOMAIN tags : tags[m].tag # t
  OBVIOUS
<1>4. \A t \in ask.tags : (\A m \in DOMAIN tags : tags[m].tag # t) => t \in names
  OBVIOUS
<1> HIDE DEF names, s, N, new
<1>5. /\ s \in [1 .. N -> names] /\ N \in Nat
      /\ \A m, n \in 1 .. N : s[m] = s[n] => m = n
      /\ \A t \in names : \E n \in 1 .. N : s[n] = t
  BY <1>2, EachOnce DEF s, N
<1>6. \A n \in 1 .. N : s[n] \in names
  BY <1>5
<1>7. \A n \in 1 .. N : s[n] \in Tags
  BY <1>3, <1>6 DEF AskFits
<1>8. new = [n \in 1 .. N |-> [tag |-> s[n], state |-> "active"]]
  BY <1>1, <1>5
<1>9. /\ DOMAIN new = 1 .. N
      /\ \A n \in 1 .. N : new[n] = [tag |-> s[n], state |-> "active"]
  BY <1>8
<1>10. \A n \in 1 .. N : new[n] \in TagRows
  BY <1>7, <1>9 DEF TagRows, States
<1>11. new \in Seq(TagRows)
  BY <1>5, <1>8, <1>9, <1>10
<1>12. \A n \in DOMAIN new :
         /\ new[n].tag \in ask.tags /\ new[n].state = "active"
         /\ \A m \in DOMAIN tags : tags[m].tag # new[n].tag
  BY <1>3, <1>6, <1>9
<1>13. \A m, n \in DOMAIN new : new[m].tag = new[n].tag => m = n
  BY <1>5, <1>9
<1>14. \A t \in ask.tags :
         (\A m \in DOMAIN tags : tags[m].tag # t) => \E n \in DOMAIN new : new[n].tag = t
  BY <1>4, <1>5, <1>9
<1> QED BY <1>11, <1>12, <1>13, <1>14 DEF new

\* What a commit leaves.
LEMMA CommitLists ==
    ASSUME ListsInv, NEW w \in Workers, OfDataset!Commit(w)
    PROVE  LET ask == listsReq[w].ask IN
           /\ listsPc[w] = "commit" /\ AskFits(ask) /\ listsClean' = {}
           /\ listsPc' = [listsPc EXCEPT ![w] = "idle"]
           /\ listsReq' = [listsReq EXCEPT ![w] = OfDataset!NoRequest]
           /\ resources' \in [ResourceIds -> ResourceRows \cup {None}]
           /\ \A i \in ResourceIds : resources[i] # None => resources'[i] # None
           /\ w \in listsClean =>
                \A i \in ResourceIds : resources'[i] = OfDataset!ResourceRow(ask.resources, i)
           /\ extras' = [n \in 1 .. Len(extras) |-> OfDataset!ExtraRow(ask.extras, n)]
                          \o OfDataset!NewExtras(ask.extras)
           /\ tags' = [n \in 1 .. Len(tags) |-> OfDataset!TagRow(ask.tags, n)]
                        \o OfDataset!NewTags(ask.tags)
<1> DEFINE ask == listsReq[w].ask
           c == listsReq[w].changes
<1>1. /\ listsPc[w] = "commit" /\ listsClean' = {}
      /\ listsPc' = [listsPc EXCEPT ![w] = "idle"]
      /\ listsReq' = [listsReq EXCEPT ![w] = OfDataset!NoRequest]
      /\ resources' = [i \in ResourceIds |-> OfDataset!Written(resources[i], c.resources[i])]
      /\ extras' = [n \in DOMAIN extras |->
                      IF n \in DOMAIN c.extras THEN OfDataset!Written(extras[n], c.extras[n])
                      ELSE extras[n]] \o c.newExtras
      /\ tags' = [n \in DOMAIN tags |->
                    IF n \in DOMAIN c.tags THEN OfDataset!Written(tags[n], c.tags[n]) ELSE tags[n]]
                   \o c.newTags
  BY DEF OfDataset!Commit, OfDataset!Goto
<1>2. AskFits(ask) /\ WritesFit(ask, c, w \in listsClean)
  BY <1>1 DEF ListsInv, ListsFit
<1> HIDE DEF ask, c
<1>3. /\ \A i \in ResourceIds :
           /\ OfDataset!Written(resources[i], c.resources[i]) \in ResourceRows \cup {None}
           /\ resources[i] # None => OfDataset!Written(resources[i], c.resources[i]) # None
           /\ w \in listsClean =>
                OfDataset!Written(resources[i], c.resources[i])
                  = OfDataset!ResourceRow(ask.resources, i)
      /\ DOMAIN c.extras = DOMAIN extras
      /\ \A n \in DOMAIN extras :
           OfDataset!Written(extras[n], c.extras[n]) = OfDataset!ExtraRow(ask.extras, n)
      /\ DOMAIN c.tags = DOMAIN tags
      /\ \A n \in DOMAIN tags :
           OfDataset!Written(tags[n], c.tags[n]) = OfDataset!TagRow(ask.tags, n)
      /\ c.newExtras = OfDataset!NewExtras(ask.extras) /\ c.newTags = OfDataset!NewTags(ask.tags)
  BY <1>2 DEF WritesFit
<1>4. /\ resources' \in [ResourceIds -> ResourceRows \cup {None}]
      /\ \A i \in ResourceIds : resources[i] # None => resources'[i] # None
      /\ w \in listsClean =>
           \A i \in ResourceIds : resources'[i] = OfDataset!ResourceRow(ask.resources, i)
  BY <1>1, <1>3
<1>5. DOMAIN extras = 1 .. Len(extras) /\ DOMAIN tags = 1 .. Len(tags)
  BY DEF ListsInv, ListsTyped
<1>6. [n \in DOMAIN extras |->
         IF n \in DOMAIN c.extras THEN OfDataset!Written(extras[n], c.extras[n]) ELSE extras[n]]
        = [n \in 1 .. Len(extras) |-> OfDataset!ExtraRow(ask.extras, n)]
  BY <1>3, <1>5
<1>7. [n \in DOMAIN tags |->
         IF n \in DOMAIN c.tags THEN OfDataset!Written(tags[n], c.tags[n]) ELSE tags[n]]
        = [n \in 1 .. Len(tags) |-> OfDataset!TagRow(ask.tags, n)]
  BY <1>3, <1>5
<1> QED BY <1>1, <1>2, <1>3, <1>4, <1>6, <1>7 DEF ask

\* The rows of the extras after it, one for each key, and those of them that are shown.
LEMMA ExtrasAfter ==
    ASSUME ListsInv, NEW ask, AskFits(ask),
           extras' = [n \in 1 .. Len(extras) |-> OfDataset!ExtraRow(ask.extras, n)]
                       \o OfDataset!NewExtras(ask.extras)
    PROVE  /\ extras' \in Seq(ExtraRows)
           /\ \A n, m \in DOMAIN extras' : extras'[n].key = extras'[m].key => n = m
           /\ OfDataset!ShownExtras' =
                {[key |-> k, value |-> ask.extras[k]] : k \in DOMAIN ask.extras}
<1> DEFINE old == [n \in 1 .. Len(extras) |-> OfDataset!ExtraRow(ask.extras, n)]
           new == OfDataset!NewExtras(ask.extras)
           row(n) == OfDataset!ExtraRow(ask.extras, n)
<1>1. /\ new \in Seq(ExtraRows)
      /\ \A n \in DOMAIN new :
           /\ new[n].key \in DOMAIN ask.extras /\ new[n].value = ask.extras[new[n].key]
           /\ new[n].state = "active" /\ \A m \in DOMAIN extras : extras[m].key # new[n].key
      /\ \A m, n \in DOMAIN new : new[m].key = new[n].key => m = n
      /\ \A k \in DOMAIN ask.extras :
           (\A m \in DOMAIN extras : extras[m].key # k) => \E n \in DOMAIN new : new[n].key = k
  BY NewExtrasAre
<1>2. /\ DOMAIN extras = 1 .. Len(extras) /\ Len(extras) \in Nat
      /\ \A n, m \in DOMAIN extras : extras[n].key = extras[m].key => n = m
  BY DEF ListsInv, ListsTyped
<1>3. \A n \in DOMAIN extras :
        /\ row(n) \in ExtraRows /\ row(n).key = extras[n].key
        /\ row(n).state = "active" <=> row(n).key \in DOMAIN ask.extras
        /\ row(n).key \in DOMAIN ask.extras => row(n).value = ask.extras[row(n).key]
  BY ExtraRowFits
<1> HIDE DEF new, row
<1>4. old = [n \in 1 .. Len(extras) |-> row(n)]
  BY DEF row
<1> HIDE DEF old
<1>5. old \in Seq(ExtraRows) /\ DOMAIN old = DOMAIN extras /\ \A n \in DOMAIN extras : old[n] = row(n)
  BY <1>2, <1>3, <1>4
<1>6. extras' = old \o new
  BY DEF old, new
<1>7. /\ extras' \in Seq(ExtraRows)
      /\ \A n \in DOMAIN extras : n \in DOMAIN extras' /\ extras'[n] = row(n)
      /\ \A n \in DOMAIN new : \E m \in DOMAIN extras' : extras'[m] = new[n]
      /\ \A n \in DOMAIN extras' : n \notin DOMAIN extras =>
           \E m \in DOMAIN new : n = Len(old) + m /\ extras'[n] = new[m]
  <2>1. /\ old \o new \in Seq(ExtraRows)
        /\ \A n \in DOMAIN old : n \in DOMAIN (old \o new) /\ (old \o new)[n] = old[n]
        /\ \A n \in DOMAIN new :
             Len(old) + n \in DOMAIN (old \o new) /\ (old \o new)[Len(old) + n] = new[n]
        /\ \A n \in DOMAIN (old \o new) :
             n \in DOMAIN old \/ \E m \in DOMAIN new : n = Len(old) + m
    <3>1. old \in Seq(ExtraRows) /\ new \in Seq(ExtraRows)
      BY <1>1, <1>5
    <3> QED BY <3>1, Joined
  <2>2. /\ extras' \in Seq(ExtraRows)
        /\ \A n \in DOMAIN old : n \in DOMAIN extras' /\ extras'[n] = old[n]
        /\ \A n \in DOMAIN new : Len(old) + n \in DOMAIN extras' /\ extras'[Len(old) + n] = new[n]
        /\ \A n \in DOMAIN extras' : n \in DOMAIN old \/ \E m \in DOMAIN new : n = Len(old) + m
    BY <1>6, <2>1
  <2>3. \A n \in DOMAIN new : \E m \in DOMAIN extras' : extras'[m] = new[n]
    BY <2>2
  <2>4. \A n \in DOMAIN extras' : n \notin DOMAIN extras =>
          \E m \in DOMAIN new : n = Len(old) + m /\ extras'[n] = new[m]
    BY <1>5, <2>2
  <2>5. \A n \in DOMAIN extras : n \in DOMAIN extras' /\ extras'[n] = row(n)
    BY <1>5, <2>2
  <2> QED BY <2>2, <2>3, <2>4, <2>5
<1>8. ASSUME NEW n \in DOMAIN extras', NEW m \in DOMAIN extras', extras'[n].key = extras'[m].key
      PROVE  n = m
  <2>1. \A l \in DOMAIN extras : l \in DOMAIN extras' /\ extras'[l].key = extras[l].key
    BY <1>3, <1>7
  <2>2. \A l \in DOMAIN extras' : l \notin DOMAIN extras =>
          \E j \in DOMAIN new : l = Len(old) + j /\ extras'[l].key = new[j].key
    BY <1>7
  <2>3. CASE n \in DOMAIN extras /\ m \in DOMAIN extras
    BY <1>2, <1>8, <2>1, <2>3
  <2>4. CASE n \in DOMAIN extras /\ m \notin DOMAIN extras
    <3>1. PICK j \in DOMAIN new : m = Len(old) + j /\ extras'[m].key = new[j].key
      BY <2>2, <2>4
    <3>2. extras[n].key = new[j].key
      BY <1>8, <2>1, <2>4, <3>1
    <3>3. extras[n].key # new[j].key
      BY <1>1, <2>4
    <3> QED BY <3>2, <3>3
  <2>5. CASE n \notin DOMAIN extras /\ m \in DOMAIN extras
    <3>1. PICK j \in DOMAIN new : n = Len(old) + j /\ extras'[n].key = new[j].key
      BY <2>2, <2>5
    <3>2. extras[m].key = new[j].key
      BY <1>8, <2>1, <2>5, <3>1
    <3>3. extras[m].key # new[j].key
      BY <1>1, <2>5
    <3> QED BY <3>2, <3>3
  <2>6. CASE n \notin DOMAIN extras /\ m \notin DOMAIN extras
    <3>1. PICK i \in DOMAIN new : n = Len(old) + i /\ extras'[n].key = new[i].key
      BY <2>2, <2>6
    <3>2. PICK j \in DOMAIN new : m = Len(old) + j /\ extras'[m].key = new[j].key
      BY <2>2, <2>6
    <3>3. i = j
      BY <1>1, <1>8, <3>1, <3>2
    <3> QED BY <3>1, <3>2, <3>3
  <2> QED BY <2>3, <2>4, <2>5, <2>6
<1>9. OfDataset!ShownExtras' = {[key |-> extras'[n].key, value |-> extras'[n].value] :
                                  n \in {m \in DOMAIN extras' : extras'[m].state = "active"}}
  BY DEF OfDataset!ShownExtras, OfDataset!Indexes
<1>10. ASSUME NEW n \in DOMAIN extras', extras'[n].state = "active"
       PROVE  /\ extras'[n].key \in DOMAIN ask.extras
              /\ extras'[n].value = ask.extras[extras'[n].key]
  <2>1. CASE n \in DOMAIN extras
    <3>1. extras'[n] = row(n)
      BY <1>7, <2>1
    <3> QED BY <1>3, <1>10, <2>1, <3>1
  <2>2. CASE n \notin DOMAIN extras
    <3>1. PICK m \in DOMAIN new : extras'[n] = new[m]
      BY <1>7, <2>2
    <3> QED BY <1>1, <3>1
  <2> QED BY <2>1, <2>2
<1>11. ASSUME NEW k \in DOMAIN ask.extras
       PROVE  \E n \in DOMAIN extras' : extras'[n].state = "active" /\ extras'[n].key = k
  <2>1. CASE \E m \in DOMAIN extras : extras[m].key = k
    <3>1. PICK m \in DOMAIN extras : extras[m].key = k
      BY <2>1
    <3>2. m \in DOMAIN extras' /\ extras'[m] = row(m)
      BY <1>7, <3>1
    <3> QED BY <1>3, <3>1, <3>2
  <2>2. CASE \A m \in DOMAIN extras : extras[m].key # k
    <3>1. PICK n \in DOMAIN new : new[n].key = k
      BY <1>1, <2>2
    <3>2. PICK m \in DOMAIN extras' : extras'[m] = new[n]
      BY <1>7, <3>1
    <3> QED BY <1>1, <3>1, <3>2
  <2> QED BY <2>1, <2>2
<1>12. OfDataset!ShownExtras' = {[key |-> k, value |-> ask.extras[k]] : k \in DOMAIN ask.extras}
  <2>1. ASSUME NEW e \in OfDataset!ShownExtras'
        PROVE  \E k \in DOMAIN ask.extras : e = [key |-> k, value |-> ask.extras[k]]
    <3>1. PICK n \in DOMAIN extras' :
            extras'[n].state = "active" /\ e = [key |-> extras'[n].key, value |-> extras'[n].value]
      BY <1>9
    <3> QED BY <1>10, <3>1
  <2>2. ASSUME NEW k \in DOMAIN ask.extras
        PROVE  [key |-> k, value |-> ask.extras[k]] \in OfDataset!ShownExtras'
    <3>1. PICK n \in DOMAIN extras' : extras'[n].state = "active" /\ extras'[n].key = k
      BY <1>11
    <3>2. extras'[n].value = ask.extras[k]
      BY <1>10, <3>1
    <3> QED BY <1>9, <3>1, <3>2
  <2> QED BY <2>1, <2>2
<1> QED BY <1>7, <1>8, <1>12

LEMMA TagsAfter ==
    ASSUME ListsInv, NEW ask, AskFits(ask),
           tags' = [n \in 1 .. Len(tags) |-> OfDataset!TagRow(ask.tags, n)]
                     \o OfDataset!NewTags(ask.tags)
    PROVE  /\ tags' \in Seq(TagRows)
           /\ \A n, m \in DOMAIN tags' : tags'[n].tag = tags'[m].tag => n = m
           /\ OfDataset!ShownTags' = ask.tags
<1> DEFINE old == [n \in 1 .. Len(tags) |-> OfDataset!TagRow(ask.tags, n)]
           new == OfDataset!NewTags(ask.tags)
           row(n) == OfDataset!TagRow(ask.tags, n)
<1>1. /\ new \in Seq(TagRows)
      /\ \A n \in DOMAIN new :
           /\ new[n].tag \in ask.tags /\ new[n].state = "active"
           /\ \A m \in DOMAIN tags : tags[m].tag # new[n].tag
      /\ \A m, n \in DOMAIN new : new[m].tag = new[n].tag => m = n
      /\ \A t \in ask.tags :
           (\A m \in DOMAIN tags : tags[m].tag # t) => \E n \in DOMAIN new : new[n].tag = t
  BY NewTagsAre
<1>2. /\ DOMAIN tags = 1 .. Len(tags) /\ Len(tags) \in Nat
      /\ \A n, m \in DOMAIN tags : tags[n].tag = tags[m].tag => n = m
  BY DEF ListsInv, ListsTyped
<1>3. \A n \in DOMAIN tags :
        /\ row(n) \in TagRows /\ row(n).tag = tags[n].tag
        /\ row(n).state = "active" <=> row(n).tag \in ask.tags
  BY TagRowFits
<1> HIDE DEF new, row
<1>4. old = [n \in 1 .. Len(tags) |-> row(n)]
  BY DEF row
<1> HIDE DEF old
<1>5. old \in Seq(TagRows) /\ DOMAIN old = DOMAIN tags /\ \A n \in DOMAIN tags : old[n] = row(n)
  BY <1>2, <1>3, <1>4
<1>6. tags' = old \o new
  BY DEF old, new
<1>7. /\ tags' \in Seq(TagRows)
      /\ \A n \in DOMAIN tags : n \in DOMAIN tags' /\ tags'[n] = row(n)
      /\ \A n \in DOMAIN new : \E m \in DOMAIN tags' : tags'[m] = new[n]
      /\ \A n \in DOMAIN tags' : n \notin DOMAIN tags =>
           \E m \in DOMAIN new : n = Len(old) + m /\ tags'[n] = new[m]
  <2>1. /\ old \o new \in Seq(TagRows)
        /\ \A n \in DOMAIN old : n \in DOMAIN (old \o new) /\ (old \o new)[n] = old[n]
        /\ \A n \in DOMAIN new :
             Len(old) + n \in DOMAIN (old \o new) /\ (old \o new)[Len(old) + n] = new[n]
        /\ \A n \in DOMAIN (old \o new) :
             n \in DOMAIN old \/ \E m \in DOMAIN new : n = Len(old) + m
    <3>1. old \in Seq(TagRows) /\ new \in Seq(TagRows)
      BY <1>1, <1>5
    <3> QED BY <3>1, Joined
  <2>2. /\ tags' \in Seq(TagRows)
        /\ \A n \in DOMAIN old : n \in DOMAIN tags' /\ tags'[n] = old[n]
        /\ \A n \in DOMAIN new : Len(old) + n \in DOMAIN tags' /\ tags'[Len(old) + n] = new[n]
        /\ \A n \in DOMAIN tags' : n \in DOMAIN old \/ \E m \in DOMAIN new : n = Len(old) + m
    BY <1>6, <2>1
  <2>3. \A n \in DOMAIN new : \E m \in DOMAIN tags' : tags'[m] = new[n]
    BY <2>2
  <2>4. \A n \in DOMAIN tags' : n \notin DOMAIN tags =>
          \E m \in DOMAIN new : n = Len(old) + m /\ tags'[n] = new[m]
    BY <1>5, <2>2
  <2>5. \A n \in DOMAIN tags : n \in DOMAIN tags' /\ tags'[n] = row(n)
    BY <1>5, <2>2
  <2> QED BY <2>2, <2>3, <2>4, <2>5
<1>8. ASSUME NEW n \in DOMAIN tags', NEW m \in DOMAIN tags', tags'[n].tag = tags'[m].tag
      PROVE  n = m
  <2>1. \A l \in DOMAIN tags : l \in DOMAIN tags' /\ tags'[l].tag = tags[l].tag
    BY <1>3, <1>7
  <2>2. \A l \in DOMAIN tags' : l \notin DOMAIN tags =>
          \E j \in DOMAIN new : l = Len(old) + j /\ tags'[l].tag = new[j].tag
    BY <1>7
  <2>3. CASE n \in DOMAIN tags /\ m \in DOMAIN tags
    BY <1>2, <1>8, <2>1, <2>3
  <2>4. CASE n \in DOMAIN tags /\ m \notin DOMAIN tags
    <3>1. PICK j \in DOMAIN new : m = Len(old) + j /\ tags'[m].tag = new[j].tag
      BY <2>2, <2>4
    <3>2. tags[n].tag = new[j].tag
      BY <1>8, <2>1, <2>4, <3>1
    <3>3. tags[n].tag # new[j].tag
      BY <1>1, <2>4
    <3> QED BY <3>2, <3>3
  <2>5. CASE n \notin DOMAIN tags /\ m \in DOMAIN tags
    <3>1. PICK j \in DOMAIN new : n = Len(old) + j /\ tags'[n].tag = new[j].tag
      BY <2>2, <2>5
    <3>2. tags[m].tag = new[j].tag
      BY <1>8, <2>1, <2>5, <3>1
    <3>3. tags[m].tag # new[j].tag
      BY <1>1, <2>5
    <3> QED BY <3>2, <3>3
  <2>6. CASE n \notin DOMAIN tags /\ m \notin DOMAIN tags
    <3>1. PICK i \in DOMAIN new : n = Len(old) + i /\ tags'[n].tag = new[i].tag
      BY <2>2, <2>6
    <3>2. PICK j \in DOMAIN new : m = Len(old) + j /\ tags'[m].tag = new[j].tag
      BY <2>2, <2>6
    <3>3. i = j
      BY <1>1, <1>8, <3>1, <3>2
    <3> QED BY <3>1, <3>2, <3>3
  <2> QED BY <2>3, <2>4, <2>5, <2>6
<1>9. OfDataset!ShownTags' =
        {tags'[n].tag : n \in {m \in DOMAIN tags' : tags'[m].state = "active"}}
  BY DEF OfDataset!ShownTags, OfDataset!Indexes
<1>10. ASSUME NEW n \in DOMAIN tags', tags'[n].state = "active" PROVE tags'[n].tag \in ask.tags
  <2>1. CASE n \in DOMAIN tags
    <3>1. tags'[n] = row(n)
      BY <1>7, <2>1
    <3> QED BY <1>3, <1>10, <2>1, <3>1
  <2>2. CASE n \notin DOMAIN tags
    <3>1. PICK m \in DOMAIN new : tags'[n] = new[m]
      BY <1>7, <2>2
    <3> QED BY <1>1, <3>1
  <2> QED BY <2>1, <2>2
<1>11. ASSUME NEW t \in ask.tags
       PROVE  \E n \in DOMAIN tags' : tags'[n].state = "active" /\ tags'[n].tag = t
  <2>1. CASE \E m \in DOMAIN tags : tags[m].tag = t
    <3>1. PICK m \in DOMAIN tags : tags[m].tag = t
      BY <2>1
    <3>2. m \in DOMAIN tags' /\ tags'[m] = row(m)
      BY <1>7, <3>1
    <3> QED BY <1>3, <3>1, <3>2
  <2>2. CASE \A m \in DOMAIN tags : tags[m].tag # t
    <3>1. PICK n \in DOMAIN new : new[n].tag = t
      BY <1>1, <2>2
    <3>2. PICK m \in DOMAIN tags' : tags'[m] = new[n]
      BY <1>7, <3>1
    <3> QED BY <1>1, <3>1, <3>2
  <2> QED BY <2>1, <2>2
<1>12. OfDataset!ShownTags' = ask.tags
  <2>1. ASSUME NEW t \in OfDataset!ShownTags' PROVE t \in ask.tags
    <3>1. PICK n \in DOMAIN tags' : tags'[n].state = "active" /\ t = tags'[n].tag
      BY <1>9
    <3> QED BY <1>10, <3>1
  <2>2. ASSUME NEW t \in ask.tags PROVE t \in OfDataset!ShownTags'
    <3>1. PICK n \in DOMAIN tags' : tags'[n].state = "active" /\ tags'[n].tag = t
      BY <1>11
    <3> QED BY <1>9, <3>1
  <2> QED BY <2>1, <2>2
<1> QED BY <1>7, <1>8, <1>12

\* The resources that are shown after it are the list, in its order.
LEMMA ResourcesAfter ==
    ASSUME ListsInv, NEW ask, AskFits(ask),
           resources' \in [ResourceIds -> ResourceRows \cup {None}],
           \A i \in ResourceIds : resources'[i] = OfDataset!ResourceRow(ask.resources, i)
    PROVE  OfDataset!ShownResources' = ask.resources
<1> DEFINE list == ask.resources
           S == OfDataset!ToSet(list)
           shown == {i \in ResourceIds : resources'[i] # None /\ resources'[i].state = "active"}
           place == [i \in shown |-> resources'[i].position]
<1>1. list \in Listing(ResourceIds) /\ S \subseteq ResourceIds
  BY DEF AskFits, Listing, OfDataset!ToSet
<1>2. None \notin ResourceRows
  BY ListsAssumption DEF ResourceRows, States
<1>3. \A i \in ResourceIds :
        /\ i \in S => resources'[i] = [state |-> "active", position |-> OfDataset!Place(list, i)]
        /\ i \notin S => resources'[i] = None \/ resources'[i].state = "deleted"
  BY ResourceRowFits
<1>4. \A n \in 1 .. Len(list) : OfDataset!Place(list, list[n]) = n - 1 /\ list[n] \in S
  BY <1>1, PlaceOf
<1>5. Len(list) \in Nat /\ \A i \in S : \E n \in 1 .. Len(list) : list[n] = i
  BY <1>1, ListingSize DEF OfDataset!ToSet, Listing
<1>6. OfDataset!ShownResources' = OfDataset!Sorted(shown, place)
  <2>1. {i \in OfDataset!Known : OfDataset!Active(i)}' = shown
    BY DEF OfDataset!Known, OfDataset!Active
  <2> HIDE DEF shown
  <2> QED BY <2>1 DEF OfDataset!ShownResources
<1> HIDE DEF list, S
<1>7. \A i \in S : OfDataset!Place(list, i) \in Nat
  BY <1>4, <1>5
<1>8. ASSUME NEW i \in S PROVE i \in shown
  <2>1. i \in ResourceIds
    BY <1>1
  <2>2. resources'[i] = [state |-> "active", position |-> OfDataset!Place(list, i)]
    BY <1>3, <2>1
  <2>3. resources'[i] \in ResourceRows
    BY <1>7, <2>2 DEF ResourceRows, States
  <2> QED BY <1>2, <2>1, <2>2, <2>3
<1>9. shown = S
  BY <1>3, <1>8
<1>10. place = [i \in S |-> OfDataset!Place(list, i)]
  BY <1>1, <1>3, <1>9
<1> HIDE DEF shown, place
<1>11. place \in [S -> Nat]
  BY <1>7, <1>10
<1>12. \A m, n \in 1 .. Len(list) : m < n => place[list[m]] < place[list[n]]
  BY <1>4, <1>5, <1>10
<1>13. OfDataset!Sorted(S, place) = list
  BY <1>1, <1>11, <1>12, SortedOnce DEF S
<1> QED BY <1>6, <1>9, <1>13 DEF list

LEMMA CommitListsKeeps ==
    ASSUME ListsInv, NEW w \in Workers, OfDataset!Commit(w)
    PROVE  ListsInv'
<1> DEFINE ask == listsReq[w].ask
<1>1. /\ listsPc[w] = "commit" /\ AskFits(ask) /\ listsClean' = {}
      /\ listsPc' = [listsPc EXCEPT ![w] = "idle"]
      /\ listsReq' = [listsReq EXCEPT ![w] = OfDataset!NoRequest]
      /\ resources' \in [ResourceIds -> ResourceRows \cup {None}]
      /\ \A i \in ResourceIds : resources[i] # None => resources'[i] # None
      /\ extras' = [n \in 1 .. Len(extras) |-> OfDataset!ExtraRow(ask.extras, n)]
                     \o OfDataset!NewExtras(ask.extras)
      /\ tags' = [n \in 1 .. Len(tags) |-> OfDataset!TagRow(ask.tags, n)]
                   \o OfDataset!NewTags(ask.tags)
  BY CommitLists
<1> HIDE DEF ask
<1>2. /\ extras' \in Seq(ExtraRows)
      /\ \A n, m \in DOMAIN extras' : extras'[n].key = extras'[m].key => n = m
  BY <1>1, ExtrasAfter
<1>3. /\ tags' \in Seq(TagRows)
      /\ \A n, m \in DOMAIN tags' : tags'[n].tag = tags'[m].tag => n = m
  BY <1>1, TagsAfter
<1>4. /\ listsPc \in [Workers -> {"idle", "save", "commit"}]
      /\ listsReq = [v \in Workers |-> listsReq[v]]
  BY DEF ListsInv, ListsTyped
<1>5. ListsTyped'
  BY <1>1, <1>2, <1>3, <1>4 DEF ListsTyped
<1>6. /\ listsPc'[w] = "idle"
      /\ \A v \in Workers \ {w} : listsPc'[v] = listsPc[v] /\ listsReq'[v] = listsReq[v]
      /\ \A v \in Workers \ {w} : listsPc[v] # "commit"
  BY <1>1, <1>4 DEF ListsInv, OneWrites
<1>7. OneWrites'
  BY <1>6 DEF OneWrites
<1>8. ASSUME NEW v \in Workers
      PROVE  /\ listsPc'[v] # "idle" => AskFits(listsReq'[v].ask)
             /\ listsPc'[v] = "save" =>
                  \A i \in DOMAIN listsReq'[v].held :
                    /\ i \in ResourceIds /\ listsReq'[v].held[i] \in ResourceRows
                    /\ resources'[i] # None
             /\ listsPc'[v] # "commit"
  <2>1. CASE v = w
    BY <1>6, <2>1
  <2>2. CASE v # w
    <3>1. /\ listsPc[v] # "idle" => AskFits(listsReq[v].ask)
          /\ listsPc[v] = "save" => HeldFits(listsReq[v].held, v \in listsClean)
      BY DEF ListsInv, ListsFit
    <3>2. listsPc'[v] = listsPc[v] /\ listsReq'[v] = listsReq[v] /\ listsPc[v] # "commit"
      BY <1>6, <2>2
    <3>3. listsPc[v] = "save" => \A i \in DOMAIN listsReq'[v].held :
            i \in ResourceIds /\ listsReq'[v].held[i] \in ResourceRows /\ resources'[i] # None
      BY <1>1, <3>1, <3>2 DEF HeldFits
    <3> QED BY <3>1, <3>2, <3>3
  <2> QED BY <2>1, <2>2
<1>9. ListsFit'
  BY <1>1, <1>8 DEF ListsFit, HeldFits
<1> QED BY <1>5, <1>7, <1>9 DEF ListsInv

LEMMA ListsStep == ListsInv /\ [OfDataset!Next]_OfDataset!vars => ListsInv'
<1> SUFFICES ASSUME ListsInv, [OfDataset!Next]_OfDataset!vars PROVE ListsInv'
  OBVIOUS
<1>1. CASE UNCHANGED OfDataset!vars
  <2>1. /\ resources' = resources /\ extras' = extras /\ tags' = tags
        /\ listsPc' = listsPc /\ listsReq' = listsReq /\ listsClean' = listsClean
    BY <1>1 DEF OfDataset!vars
  <2>2. ListsTyped' /\ OneWrites'
    BY <2>1 DEF ListsInv, ListsTyped, OneWrites
  <2>3. ListsFit'
    <3>1. \A held, b : HeldFits(held, b) => HeldFits(held, b)'
      BY <2>1 DEF HeldFits
    <3>2. \A ask, c, b : WritesFit(ask, c, b) => WritesFit(ask, c, b)'
      BY <2>1, SameRows
    <3> QED BY <2>1, <3>1, <3>2 DEF ListsInv, ListsFit
  <2> QED BY <2>2, <2>3 DEF ListsInv
\* A request that reads first.
<1>2. ASSUME NEW w \in Workers, NEW ask, NEW held, AskFits(ask), HeldFits(held, TRUE),
             OfDataset!Ask(w, ask, held)
      PROVE  ListsInv'
  <2> DEFINE r == [kind |-> "save", ask |-> ask, held |-> held]
  <2>1. /\ listsPc' = [listsPc EXCEPT ![w] = "save"] /\ listsReq' = [listsReq EXCEPT ![w] = r]
        /\ listsClean' = listsClean \cup {w} /\ UNCHANGED <<resources, extras, tags>>
    BY <1>2 DEF OfDataset!Ask, OfDataset!Goto
  <2>2. r.ask = ask /\ r.held = held
    OBVIOUS
  <2> HIDE DEF r
  <2>3. HeldFits(r.held, w \in listsClean')
    BY <1>2, <2>2 DEF HeldFits
  <2>4. AskFits(r.ask)
    BY <1>2, <2>2
  <2> QED BY <2>1, <2>3, <2>4, PlanLists
\* One that works out what to write.
<1>3. ASSUME NEW w \in Workers, NEW ask, NEW held, AskFits(ask),
             HeldFits(held, w \in listsClean), OfDataset!Save(w, ask, held)
      PROVE  ListsInv'
  <2> DEFINE c == OfDataset!Changes(ask, held)
             r == [kind |-> "commit", ask |-> ask, changes |-> c]
  <2>1. /\ listsPc' = [listsPc EXCEPT ![w] = "commit"] /\ listsReq' = [listsReq EXCEPT ![w] = r]
        /\ listsClean' = IF held = <<>> THEN listsClean \cup {w} ELSE listsClean
        /\ UNCHANGED <<resources, extras, tags>>
        /\ \A v \in Workers : listsPc[v] # "commit"
    BY <1>3 DEF OfDataset!Save, OfDataset!Goto
  <2>2. HeldFits(held, w \in listsClean')
    BY <1>3, <2>1 DEF HeldFits
  <2>3. (w \in listsClean') \in BOOLEAN
    OBVIOUS
  <2>4. WritesFit(ask, c, w \in listsClean')
    BY <1>3, <2>2, <2>3, PlannedWrites
  <2>5. r.ask = ask /\ r.changes = c
    OBVIOUS
  <2>6. listsClean' \subseteq listsClean \cup {w}
    BY <2>1
  <2> HIDE DEF r, c
  <2>7. AskFits(r.ask) /\ WritesFit(r.ask, r.changes, w \in listsClean')
    BY <1>3, <2>4, <2>5
  <2> QED BY <2>1, <2>6, <2>7, PlanLists
<1>4. ASSUME NEW w \in Workers, NEW ask \in Asks, OfDataset!Update(w, ask) PROVE ListsInv'
  <2>1. AskFits(ask)
    BY ListsAssumption DEF AskFits, Listing
  <2>2. HeldFits(<<>>, w \in listsClean)
    BY DEF HeldFits
  <2> QED BY <1>3, <1>4, <2>1, <2>2 DEF OfDataset!Update
<1>5. /\ AskFits(OfDataset!Shown)
      /\ OfDataset!ToSet(OfDataset!Shown.resources) \subseteq OfDataset!Known
  BY ShownFits
\* What is asked for differs from what is shown by its resources only.
<1>6. ASSUME NEW list \in Listing(ResourceIds)
      PROVE  AskFits([OfDataset!Shown EXCEPT !.resources = list])
  <2> DEFINE ask == [OfDataset!Shown EXCEPT !.resources = list]
  <2>1. /\ ask.resources = list /\ ask.extras = OfDataset!Shown.extras
        /\ ask.tags = OfDataset!Shown.tags
    BY DEF OfDataset!Shown
  <2> HIDE DEF ask
  <2>2. AskFits(ask)
    BY <1>5, <2>1 DEF AskFits
  <2> QED BY <2>2 DEF ask
<1> DEFINE list == OfDataset!Shown.resources
<1>7. list \in Listing(ResourceIds)
  BY <1>5 DEF AskFits
<1>8. HeldFits(<<>>, TRUE)
  BY DEF HeldFits
<1>9. ASSUME NEW i \in ResourceIds, OfDataset!Active(i) PROVE HeldFits(OfDataset!Held(i), TRUE)
  <2>1. resources[i] \in ResourceRows /\ resources[i] # None
    BY <1>9 DEF OfDataset!Active, ListsInv, ListsTyped
  <2> QED BY <2>1 DEF OfDataset!Held, HeldFits
<1>10. ASSUME NEW w \in Workers, NEW i \in ResourceIds, OfDataset!ResourceCreate(w, i)
       PROVE  ListsInv'
  <2>1. /\ resources[i] = None
        /\ OfDataset!Ask(w, [OfDataset!Shown EXCEPT !.resources = Append(list, i)], <<>>)
    BY <1>10 DEF OfDataset!ResourceCreate, OfDataset!Fresh
  <2>2. i \notin OfDataset!ToSet(list)
    BY <1>5, <2>1 DEF OfDataset!Known
  <2> HIDE DEF list
  <2>3. Append(list, i) \in Listing(ResourceIds)
    <3> DEFINE s == Append(list, i)
    <3>1. list \in Seq(ResourceIds) /\ \A m, n \in DOMAIN list : list[m] = list[n] => m = n
      BY <1>7 DEF Listing
    <3>2. \A n \in DOMAIN list : list[n] # i
      BY <2>2 DEF OfDataset!ToSet
    <3>3. /\ s \in Seq(ResourceIds)
          /\ \A n \in DOMAIN s : \/ n = Len(list) + 1 /\ s[n] = i
                                 \/ n # Len(list) + 1 /\ n \in DOMAIN list /\ s[n] = list[n]
      BY <3>1
    <3> HIDE DEF s
    <3>4. \A m, n \in DOMAIN s : s[m] = s[n] => m = n
      BY <3>1, <3>2, <3>3
    <3>5. s \in Listing(ResourceIds)
      BY <3>3, <3>4 DEF Listing
    <3> QED BY <3>5 DEF s
  <2> QED BY <1>2, <1>6, <1>8, <2>1, <2>3
<1>11. ASSUME NEW w \in Workers, NEW i \in ResourceIds, OfDataset!ResourceDelete(w, i)
       PROVE  ListsInv'
  <2>1. /\ OfDataset!Active(i)
        /\ OfDataset!Ask(w, [OfDataset!Shown EXCEPT !.resources = OfDataset!Without(list, {i})],
                         OfDataset!Held(i))
    BY <1>11 DEF OfDataset!ResourceDelete
  <2> HIDE DEF list
  <2>2. OfDataset!Without(list, {i}) \in Listing(ResourceIds)
    BY <1>7, WithoutFits
  <2> QED BY <1>2, <1>6, <1>9, <2>1, <2>2
<1>12. ASSUME NEW w \in Workers, NEW i \in ResourceIds, OfDataset!ResourceUpdate(w, i)
       PROVE  ListsInv'
  BY <1>2, <1>5, <1>9, <1>12 DEF OfDataset!ResourceUpdate
<1>13. ASSUME NEW w \in Workers, NEW i \in ResourceIds, OfDataset!Reorder(w, <<i>>)
       PROVE  ListsInv'
  <2> DEFINE rest == OfDataset!Without(list, OfDataset!ToSet(<<i>>))
  <2>1. OfDataset!Ask(w, [OfDataset!Shown EXCEPT !.resources = <<i>> \o rest], <<>>)
    BY <1>13 DEF OfDataset!Reorder
  <2> HIDE DEF list
  <2>2. rest \in Listing(ResourceIds) /\ OfDataset!ToSet(rest) = OfDataset!ToSet(list) \ {i}
    <3>1. OfDataset!ToSet(<<i>>) = {i}
      BY DEF OfDataset!ToSet
    <3> QED BY <1>7, <3>1, WithoutFits
  <2> HIDE DEF rest
  <2>3. \A n \in DOMAIN rest : rest[n] # i
    BY <2>2 DEF OfDataset!ToSet
  <2>4. <<i>> \o rest \in Seq(ResourceIds)
    BY <2>2 DEF Listing
  <2>5. \A n \in DOMAIN (<<i>> \o rest) :
          \/ n = 1 /\ (<<i>> \o rest)[n] = i
          \/ n # 1 /\ n - 1 \in DOMAIN rest /\ (<<i>> \o rest)[n] = rest[n - 1]
    BY <2>2 DEF Listing
  <2>6. \A m, n \in DOMAIN rest : rest[m] = rest[n] => m = n
    BY <2>2 DEF Listing
  <2>7. \A n \in DOMAIN (<<i>> \o rest) : n \in Nat
    BY <2>4
  <2>8. \A m, n \in DOMAIN (<<i>> \o rest) : (<<i>> \o rest)[m] = (<<i>> \o rest)[n] => m = n
    BY <2>3, <2>5, <2>6, <2>7
  <2>9. <<i>> \o rest \in Listing(ResourceIds)
    BY <2>4, <2>8 DEF Listing
  <2> QED BY <1>2, <1>6, <1>8, <2>1, <2>9
<1>14. ASSUME NEW w \in Workers, OfDataset!UpdateAsRead(w) PROVE ListsInv'
  <2>1. listsPc[w] = "save" /\ OfDataset!Save(w, listsReq[w].ask, listsReq[w].held)
    BY <1>14 DEF OfDataset!UpdateAsRead
  <2>2. AskFits(listsReq[w].ask) /\ HeldFits(listsReq[w].held, w \in listsClean)
    BY <2>1 DEF ListsInv, ListsFit
  <2> QED BY <1>3, <2>1, <2>2
<1>15. ASSUME NEW w \in Workers, OfDataset!Fail(w) PROVE ListsInv'
  <2>1. /\ listsPc' = [listsPc EXCEPT ![w] = "idle"]
        /\ listsReq' = [listsReq EXCEPT ![w] = OfDataset!NoRequest]
        /\ listsClean' = listsClean \ {w} /\ UNCHANGED <<resources, extras, tags>>
    BY <1>15 DEF OfDataset!Fail, OfDataset!Goto
  <2>2. listsClean' \subseteq listsClean \cup {w}
    BY <2>1
  <2> QED BY <2>1, <2>2, PlanLists
<1>16. ASSUME NEW w \in Workers, OfDataset!Commit(w) PROVE ListsInv'
  BY <1>16, CommitListsKeeps
<1> QED BY <1>1, <1>4, <1>10, <1>11, <1>12, <1>13, <1>14, <1>15, <1>16 DEF OfDataset!Next

LEMMA CatalogueRunsLists == CatalogueSpec => OfDataset!Spec
<1>1. CatalogueInit => OfDataset!Init
  BY DEF CatalogueInit
<1>2. [CatalogueNext]_all => [OfDataset!Next]_OfDataset!vars
  BY DEF CatalogueNext, all, listsVars, OfDataset!vars
<1> QED BY <1>1, <1>2, PTL DEF CatalogueSpec, OfDataset!Spec

\* An update leaves the resources that it was asked for in their order, and the extras and the
\* tags that it was asked for, whatever was deleted, restored or reordered before and whoever
\* else is at work, unless a commit came between what it read of a resource and its lock.
THEOREM ListsAreAsAsked == CatalogueSpec => ListsAsAsked
<1>1. ASSUME ListsInv, NEW w \in listsClean, w \in Workers, OfDataset!Commit(w)
      PROVE  /\ OfDataset!ShownResources' = listsReq[w].ask.resources
             /\ OfDataset!ShownTags' = listsReq[w].ask.tags
             /\ OfDataset!ShownExtras' = {[key |-> k, value |-> listsReq[w].ask.extras[k]] :
                                           k \in DOMAIN listsReq[w].ask.extras}
  <2> DEFINE ask == listsReq[w].ask
  <2>1. /\ AskFits(ask) /\ resources' \in [ResourceIds -> ResourceRows \cup {None}]
        /\ \A i \in ResourceIds : resources'[i] = OfDataset!ResourceRow(ask.resources, i)
        /\ extras' = [n \in 1 .. Len(extras) |-> OfDataset!ExtraRow(ask.extras, n)]
                       \o OfDataset!NewExtras(ask.extras)
        /\ tags' = [n \in 1 .. Len(tags) |-> OfDataset!TagRow(ask.tags, n)]
                     \o OfDataset!NewTags(ask.tags)
    BY <1>1, CommitLists
  <2> HIDE DEF ask
  <2>2. OfDataset!ShownResources' = ask.resources
    BY <1>1, <2>1, ResourcesAfter
  <2>3. OfDataset!ShownTags' = ask.tags
    BY <1>1, <2>1, TagsAfter
  <2>4. OfDataset!ShownExtras' = {[key |-> k, value |-> ask.extras[k]] : k \in DOMAIN ask.extras}
    <3>1. /\ AskFits(ask)
          /\ extras' = [n \in 1 .. Len(extras) |-> OfDataset!ExtraRow(ask.extras, n)]
                         \o OfDataset!NewExtras(ask.extras)
      BY <2>1
    <3> QED BY <1>1, <3>1, ExtrasAfter
  <2> QED BY <2>2, <2>3, <2>4 DEF ask
<1>2. ListsInv => (\A w \in listsClean : OfDataset!Commit(w) =>
         /\ OfDataset!ShownResources' = listsReq[w].ask.resources
         /\ OfDataset!ShownTags' = listsReq[w].ask.tags
         /\ OfDataset!ShownExtras' = {[key |-> k, value |-> listsReq[w].ask.extras[k]] :
                                       k \in DOMAIN listsReq[w].ask.extras})
  BY <1>1 DEF ListsInv, ListsTyped
<1> QED BY <1>2, ListsInitially, ListsStep, CatalogueRunsLists, PTL
     DEF OfDataset!Spec, ListsAsAsked, OfDataset!ListsAsAsked

=============================================================================
