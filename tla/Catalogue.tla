------------------------------- MODULE Catalogue -------------------------------
(***************************************************************************)
(* What the catalogue keeps beside the rows of its datasets: the activity   *)
(* stream, the lists of a dataset, vocabularies, the relationships between   *)
(* datasets, and uploaded files.                                            *)
(*                                                                         *)
(* The parts share no table in these models, so that a product would only  *)
(* multiply their states: each behaviour runs one of them, the focus, and   *)
(* the others stay in their initial states.                                 *)
(***************************************************************************)
EXTENDS ActivityStreams, Sequences

CONSTANTS
    ResourceIds, Keys, Values, Tags, Asks, MaxRequests,    \* DatasetLists
    Vocabularies, Names, TagNames, MaxTags, Gone,          \* Vocabularies
    Linked, Types, Comments, MaxRelationships,             \* Relationships
    Resources, Link, MaxUploads                            \* Uploads

\* A url is not a number, and groups and resources have their own identifiers.
ASSUME FilesAssumption ==
    None \notin Nat /\ Link \notin Nat /\ None # Link /\ Groups \cap Resources = {}

\* There are so many names of tags, and the row of a tag is never missing.
ASSUME VocabulariesAssumption ==
    /\ MaxTags \in Nat /\ IsFiniteSet(TagNames)
    /\ None \notin [name : TagNames, vocab : Vocabularies]

\* Relationships are of the two types of a pair, and the row of one is never missing.
ASSUME RelationsAssumption ==
    /\ MaxRelationships \in Nat /\ Types \subseteq {"depends_on", "dependency_of"}
    /\ None \notin [subject : Linked, object : Linked, type : {"depends_on"},
                   comment : Comments, state : {"active", "deleted"}]

\* A dataset has finitely many resources, a row is never missing, and what an update asks
\* for lists each resource once.
ASSUME ListsAssumption ==
    /\ IsFiniteSet(ResourceIds)
    /\ None \notin [state : {"active", "deleted"}, position : Nat]
    /\ None \notin [key : Keys, value : Values, state : {"active", "deleted"}]
    /\ None \notin [tag : Tags, state : {"active", "deleted"}]
    /\ \A ask \in Asks :
         /\ ask.resources \in Seq(ResourceIds)
         /\ \A m, n \in DOMAIN ask.resources : ask.resources[m] = ask.resources[n] => m = n
         /\ IsFiniteSet(DOMAIN ask.extras) /\ DOMAIN ask.extras \subseteq Keys
         /\ \A k \in DOMAIN ask.extras : ask.extras[k] \in Values
         /\ IsFiniteSet(ask.tags) /\ ask.tags \subseteq Tags

VARIABLE focus

\* The lists of a dataset.
VARIABLES resources, extras, tags, listsPc, listsReq, listsClean, started

OfDataset == INSTANCE DatasetLists WITH pc <- listsPc, req <- listsReq, clean <- listsClean

\* Vocabularies.
VARIABLES vocabulary, tag, inserted, tagged, vocabPc, vocabReq, vocabClean

Vocabs == INSTANCE Vocabularies
            WITH pc <- vocabPc, req <- vocabReq, clean <- vocabClean, tags <- inserted

\* Relationships between datasets.
VARIABLES relation, relPc, relReq, relClean

Relations == INSTANCE Relationships
               WITH row <- relation, pc <- relPc, req <- relReq, clean <- relClean,
                    Packages <- Linked, MaxRows <- MaxRelationships

\* Uploads.
VARIABLES image, kind, file, images, stored, uploads, filePc, fileReq, torn, named, edited

Files == INSTANCE Uploads WITH pc <- filePc, req <- fileReq

-----------------------------------------------------------------------------
listsVars == <<resources, extras, tags, listsPc, listsReq, listsClean, started>>
vocabVars == <<vocabulary, tag, inserted, tagged, vocabPc, vocabReq, vocabClean>>
relVars == <<relation, relPc, relReq, relClean>>
fileVars == <<image, kind, file, images, stored, uploads, filePc, fileReq, torn, named, edited>>
all == <<vars, focus, listsVars, vocabVars, relVars, fileVars>>

\* A part that is not in the focus starts in one of its initial states.
CatalogueInit ==
    /\ focus \in {"streams", "lists", "vocabularies", "relationships", "files"}
    /\ Init /\ OfDataset!Init /\ Vocabs!Init /\ Relations!Init /\ Files!Init

CatalogueNext ==
    /\ \/ /\ focus = "streams" /\ Next
          /\ UNCHANGED <<listsVars, vocabVars, relVars, fileVars>>
       \/ /\ focus = "lists" /\ OfDataset!Next
          /\ UNCHANGED <<vars, vocabVars, relVars, fileVars>>
       \/ /\ focus = "vocabularies" /\ Vocabs!Next
          /\ UNCHANGED <<vars, listsVars, relVars, fileVars>>
       \/ /\ focus = "relationships" /\ Relations!Next
          /\ UNCHANGED <<vars, listsVars, vocabVars, fileVars>>
       \/ /\ focus = "files" /\ Files!Next
          /\ UNCHANGED <<vars, listsVars, vocabVars, relVars>>
    /\ UNCHANGED focus

CatalogueSpec == CatalogueInit /\ [][CatalogueNext]_all

\* An update of a dataset gives it the lists it was asked for: DatasetLists.
ListsAsAsked == OfDataset!ListsAsAsked

\* A vocabulary has the tags listed, and datasets keep theirs: Vocabularies.
VocabularyAsListed == Vocabs!VocabularyAsListed

\* A relationship that was asked for is there, one that was deleted is gone:
\* Relationships.
ForwardAsAsked == Relations!ForwardAsAsked

\* What a row names is in the files: Uploads.
FilesAreThere == Files!FilesAreThere
=============================================================================
