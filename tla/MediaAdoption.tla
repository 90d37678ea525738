---------------------------- MODULE MediaAdoption ----------------------------
(***************************************************************************)
(* The media of campaigns in ZaBot: uploaded on their own, adopted by the  *)
(* campaign that names them, loaded with the first message of each         *)
(* recipient, deleted with the campaign.                                   *)
(*                                                                         *)
(* A creation reads which media are free and takes them later, by id, in   *)
(* the same transaction: under READ COMMITTED another creation may take    *)
(* them in between.  Rows a transaction has written stay locked to its     *)
(* end; the locks of one update are taken at once here.                    *)
(*                                                                         *)
(* Left out: bytes and names of files, and everything else a campaign is   *)
(* made of, except that its creation may fail after the adoption.          *)
(***************************************************************************)
EXTENDS Naturals, FiniteSets

CONSTANTS
    Uploads,     \* uploads, and the media they create
    Creations,   \* creations of campaigns
    Sizes        \* sizes of files, in megabytes

ASSUME MediaAssumption == IsFiniteSet(Uploads) /\ Sizes \subseteq Nat /\ {"none", "free"} \cap Creations = {}

VARIABLES
    upload,    \* uploads
    media,     \* campaign_media: the owner of each row
    stored,    \* storageKeys of the media storage
    creation,  \* creations, and then their campaigns
    raced      \* history: campaigns that read a medium as free while the creation of another was taking it

mediaVars == <<upload, media, stored, creation, raced>>

Types == {"IMAGENS", "AUDIO", "DOCUMENTO"}

MediaInit ==
    /\ upload = [m \in Uploads |-> [pc |-> "new", type |-> "IMAGENS"]]
    /\ media = [m \in Uploads |-> "none"]
    /\ stored = {}
    /\ creation = [c \in Creations |-> [pc |-> "new", ids |-> {}, loaded |-> {}]]
    /\ raced = {}

-----------------------------------------------------------------------------
\* assertValid, with MEDIA_RULES: whether the mimetype is one of the type's list, and the largest size.
Valid(type, listed, size) ==
    /\ type = "DOCUMENTO" \/ listed
    /\ size <= (IF type = "DOCUMENTO" THEN 100 ELSE 16)

\* upload, up to its first await.
Upload(m, type, listed, size) ==
    /\ upload[m].pc = "new"
    /\ upload' = [upload EXCEPT ![m] = [pc |-> IF Valid(type, listed, size) THEN "saving" ELSE "refused",
                                        type |-> type]]
    /\ UNCHANGED <<media, stored, creation, raced>>

\* storage.save; if it fails there is no row.
Save(m) ==
    /\ upload[m].pc = "saving"
    /\ stored' = stored \cup {m}
    /\ upload' = [upload EXCEPT ![m].pc = "saved"]
    /\ UNCHANGED <<media, creation, raced>>

\* campaignMedia.create; if it fails the file is left without a row.
CreateRow(m) ==
    /\ upload[m].pc = "saved"
    /\ media' = [media EXCEPT ![m] = "free"]
    /\ upload' = [upload EXCEPT ![m].pc = "done"]
    /\ UNCHANGED <<stored, creation, raced>>

-----------------------------------------------------------------------------
\* Rows written by a transaction that has not ended.
Locked == UNION {creation[c].ids : c \in {d \in Creations : creation[d].pc = "taken"}}

\* Mutation of Free: the row's campaign is not looked at.
FreeOrNot(m) == media[m] # "none"

\* A committed row without a campaign.
Free(m) == media[m] = "free"

\* adoptMedia: every id names a free medium, and all are of one type.
Adopt(c, ids) ==
    /\ creation[c].pc = "new"
    /\ creation' = [creation EXCEPT
                       ![c] = [pc |-> IF /\ \A m \in ids : Free(m)
                                         /\ \A m, n \in ids : upload[m].type = upload[n].type
                                      THEN "adopted" ELSE "refused",
                               ids |-> ids, loaded |-> {}]]
    /\ UNCHANGED <<upload, media, stored, raced>>

\* createCampaign: updateMany, which waits for the locks of others.
Take(c) ==
    /\ creation[c].pc = "adopted"
    /\ creation[c].ids \cap Locked = {}
    /\ creation' = [creation EXCEPT ![c].pc = "taken"]
    /\ UNCHANGED <<upload, media, stored, raced>>

\* The transaction commits; rows deleted since the read are not there to be updated.
Commit(c) ==
    LET ids == creation[c].ids
        rivals == {d \in Creations \ {c} : creation[d].pc \in {"adopted", "taken"} /\ creation[d].ids \cap ids # {}}
    IN  /\ creation[c].pc = "taken"
        /\ media' = [m \in Uploads |-> IF m \in ids /\ media[m] # "none" THEN c ELSE media[m]]
        /\ creation' = [creation EXCEPT ![c].pc = "created"]
        /\ raced' = raced \cup rivals \cup (IF rivals = {} THEN {} ELSE {c})
        /\ UNCHANGED <<upload, stored>>

\* The debit or another statement fails: the transaction is rolled back.
Rollback(c) ==
    /\ creation[c].pc \in {"adopted", "taken"}
    /\ creation' = [creation EXCEPT ![c].pc = "failed"]
    /\ UNCHANGED <<upload, media, stored, raced>>

\* loadMedia, for the first message of a recipient: the rows, and their files.
LoadMedia(c) ==
    /\ creation[c].pc = "created"
    /\ creation' = [creation EXCEPT ![c].loaded = {m \in Uploads : media[m] = c} \cap stored,
                                    ![c].pc = "loaded"]
    /\ UNCHANGED <<upload, media, stored, raced>>

\* The next recipient.
LoadAgain(c) ==
    /\ creation[c].pc = "loaded"
    /\ creation' = [creation EXCEPT ![c].pc = "created", ![c].loaded = {}]
    /\ UNCHANGED <<upload, media, stored, raced>>

\* clearHistory: campaigns go, and their media rows with them; the files stay.
\* Rows that a transaction has locked make it wait.
ClearHistory ==
    LET gone == {c \in Creations : creation[c].pc \in {"created", "loaded"}}
    IN  /\ gone # {}
        /\ \A m \in Locked : media[m] \notin gone
        /\ creation' = [c \in Creations |-> IF c \in gone THEN [creation[c] EXCEPT !.pc = "cleared"] ELSE creation[c]]
        /\ media' = [m \in Uploads |-> IF media[m] \in gone THEN "none" ELSE media[m]]
        /\ UNCHANGED <<upload, stored, raced>>

MediaNext ==
    \/ \E m \in Uploads, type \in Types, listed \in BOOLEAN, size \in Sizes : Upload(m, type, listed, size)
    \/ \E m \in Uploads : Save(m) \/ CreateRow(m)
    \/ \E c \in Creations : \E ids \in SUBSET Uploads : Adopt(c, ids)
    \/ \E c \in Creations : Take(c) \/ Commit(c) \/ Rollback(c) \/ LoadMedia(c) \/ LoadAgain(c)
    \/ ClearHistory

MediaSpec == MediaInit /\ [][MediaNext]_mediaVars

-----------------------------------------------------------------------------
\* A campaign that did not race for a medium sends, with each first message, all the media it was created with,
\* of one type: nobody takes them from it later, and no row lacks its file
\* ("rejeita ids inexistentes/já usados", campaigns.service.ts).
MediaStay ==
    \A c \in Creations \ raced :
        creation[c].pc = "loaded" =>
            /\ creation[c].loaded = creation[c].ids
            /\ \A m, n \in creation[c].loaded : upload[m].type = upload[n].type
=============================================================================
