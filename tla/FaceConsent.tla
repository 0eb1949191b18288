----------------------------- MODULE FaceConsent -----------------------------
(***************************************************************************)
(* Face recognition in the central API: the consent that opens and closes  *)
(* the tenant's gate, and the profiles of the watchlist, whose photos are  *)
(* objects of the store that no transaction covers.                        *)
(*                                                                         *)
(* A request reads and writes in one READ COMMITTED transaction, which     *)
(* get_db commits after the handler.  A column is written at the commit,   *)
(* and only when the value assigned differs from the one that was read.    *)
(***************************************************************************)
CONSTANTS
    Consents,    \* requests to grant or withdraw the consent
    Profiles,    \* profiles, each with the request that creates it
    Deletions    \* requests that delete a profile

VARIABLES
    gate,       \* tenants.facial_recognition_enabled
    consent,    \* the consent requests
    creation,   \* how far each request that creates a profile is
    deletion,   \* the deletion requests
    profileRow, \* face_profiles: "none", "live" or "deleted"
    photos,     \* the profiles whose photo is in the object store
    before      \* history: the withdrawals committed as a creation read the gate

faceVars == <<gate, consent, creation, deletion, profileRow, photos, before>>
photoVars == <<creation, deletion, profileRow, photos, before>>

ConsentRequests ==
    [step  : {"new", "begun", "committed", "failed"},
     opens : BOOLEAN,           \* a grant, or a withdrawal
     saw   : BOOLEAN,           \* the gate it read
     after : SUBSET Consents]   \* history: the grants committed before it began
DeletionRequests ==
    [step   : {"new", "missing", "found", "marked", "cleaned", "done", "undone"},
     of     : Profiles,
     erased : BOOLEAN]          \* the store has deleted the photo

\* Type invariant.
FaceTypeOK ==
    /\ gate \in BOOLEAN
    /\ consent \in [Consents -> ConsentRequests]
    /\ creation \in [Profiles ->
                       {"new", "refused", "allowed", "uploaded", "inserted", "done", "failed"}]
    /\ deletion \in [Deletions -> DeletionRequests]
    /\ profileRow \in [Profiles -> {"none", "live", "deleted"}]
    /\ photos \subseteq Profiles
    /\ before \in [Profiles -> SUBSET Consents]

FaceInit ==
    /\ gate = FALSE
    /\ consent \in [Consents -> [step : {"new"}, opens : BOOLEAN, saw : {FALSE},
                                 after : {{}}]]
    /\ creation = [p \in Profiles |-> "new"]
    /\ deletion \in [Deletions -> [step : {"new"}, of : Profiles, erased : {FALSE}]]
    /\ profileRow = [p \in Profiles |-> "none"]
    /\ photos = {} /\ before = [p \in Profiles |-> {}]

-----------------------------------------------------------------------------
(* grant_consent and withdraw_consent. *)

Answered == {c \in Consents : consent[c].step = "committed"}
Granted == {c \in Answered : consent[c].opens}
Withdrawn == {c \in Answered : ~ consent[c].opens}

\* The record is inserted, and _set_facial_recognition_enabled reads the row.
BeginConsent(c) ==
    /\ consent[c].step = "new"
    /\ consent' = [consent EXCEPT ![c].step = "begun", ![c].saw = gate,
                                  ![c].after = Granted]
    /\ UNCHANGED <<gate, photoVars>>

\* Mutant of GateAfter: a withdrawal leaves the gate as it is.
GateAfterGrants(c) == IF consent[c].opens THEN TRUE ELSE gate

\* What the row holds after the commit of c.
GateAfter(c) == IF consent[c].saw # consent[c].opens THEN consent[c].opens ELSE gate

EndConsent(c) ==
    /\ consent[c].step = "begun"
    /\ \/ consent' = [consent EXCEPT ![c].step = "committed"]
          /\ gate' = GateAfter(c)
       \/ consent' = [consent EXCEPT ![c].step = "failed"]
          /\ UNCHANGED gate
    /\ UNCHANGED photoVars

-----------------------------------------------------------------------------
(* create_profile: gate, upload, insert, commit. *)

CreationGoes(p, step) == creation' = [creation EXCEPT ![p] = step]

CheckGate(p) ==
    /\ creation[p] = "new"
    /\ CreationGoes(p, IF gate THEN "allowed" ELSE "refused")
    /\ before' = [before EXCEPT ![p] = Withdrawn]
    /\ UNCHANGED <<gate, consent, deletion, profileRow, photos>>

\* upload_bytes; when it raises, the object may have been stored.
UploadPhoto(p) ==
    /\ creation[p] = "allowed"
    /\ \/ photos' = photos \cup {p} /\ CreationGoes(p, "uploaded")
       \/ photos' \in {photos, photos \cup {p}} /\ CreationGoes(p, "failed")
    /\ UNCHANGED <<gate, consent, deletion, profileRow, before>>

InsertProfile(p) ==
    /\ creation[p] = "uploaded"
    /\ CreationGoes(p, "inserted")
    /\ UNCHANGED <<gate, consent, deletion, profileRow, photos, before>>

CommitProfile(p) ==
    /\ creation[p] = "inserted"
    /\ CreationGoes(p, "done")
    /\ profileRow' = [profileRow EXCEPT ![p] = "live"]
    /\ UNCHANGED <<gate, consent, deletion, photos, before>>

\* The transaction or the process ends before the commit.
CreationFails(p) ==
    /\ creation[p] \in {"uploaded", "inserted"}
    /\ CreationGoes(p, "failed")
    /\ UNCHANGED <<gate, consent, deletion, profileRow, photos, before>>

-----------------------------------------------------------------------------
(* delete_profile: mark the row, delete the photo, commit. *)

DeletionGoes(d, step) == deletion' = [deletion EXCEPT ![d].step = step]
DeletionsOf(p) == {d \in Deletions : deletion[d].of = p}

\* soft_delete finds the row, or the request ends with 404 ...
FindProfile(d) ==
    /\ deletion[d].step = "new"
    /\ DeletionGoes(d, IF profileRow[deletion[d].of] = "live" THEN "found" ELSE "missing")
    /\ UNCHANGED <<gate, consent, creation, profileRow, photos, before>>

\* ... and writes it, which waits for a transaction that has written it too,
\* and does not look at it again.
MarkDeleted(d) ==
    /\ deletion[d].step = "found"
    /\ \A e \in DeletionsOf(deletion[d].of) : deletion[e].step \notin {"marked", "cleaned"}
    /\ DeletionGoes(d, "marked")
    /\ UNCHANGED <<gate, consent, creation, profileRow, photos, before>>

\* delete_object; what it raises is ignored.
DeletePhoto(d) ==
    /\ deletion[d].step = "marked"
    /\ \E erases \in BOOLEAN :
          /\ deletion' = [deletion EXCEPT ![d].step = "cleaned", ![d].erased = erases]
          /\ photos' = IF erases THEN photos \ {deletion[d].of} ELSE photos
    /\ UNCHANGED <<gate, consent, creation, profileRow, before>>

CommitDeletion(d) ==
    /\ deletion[d].step = "cleaned"
    /\ DeletionGoes(d, "done")
    /\ profileRow' = [profileRow EXCEPT ![deletion[d].of] = "deleted"]
    /\ UNCHANGED <<gate, consent, creation, photos, before>>

\* The transaction or the process ends before the commit.
DeletionFails(d) ==
    /\ deletion[d].step \in {"marked", "cleaned"}
    /\ DeletionGoes(d, "undone")
    /\ UNCHANGED <<gate, consent, creation, profileRow, photos, before>>

-----------------------------------------------------------------------------
FaceNext ==
    \/ \E c \in Consents : BeginConsent(c) \/ EndConsent(c)
    \/ \E p \in Profiles :
          \/ CheckGate(p) \/ UploadPhoto(p) \/ InsertProfile(p)
          \/ CommitProfile(p) \/ CreationFails(p)
    \/ \E d \in Deletions :
          \/ FindProfile(d) \/ MarkDeleted(d) \/ DeletePhoto(d)
          \/ CommitDeletion(d) \/ DeletionFails(d)

FaceSpec == FaceInit /\ [][FaceNext]_faceVars

-----------------------------------------------------------------------------
(* Properties. *)

\* The gate is open only on a grant that no withdrawal begun after its commit
\* has answered: a withdrawal that overlaps a grant may be lost, any other
\* takes effect, whatever else is in progress.
WithdrawalHolds ==
    gate => \E g \in Granted : \A w \in Withdrawn : g \notin consent[w].after

\* A photo is stored, and a profile put on the watchlist, only by a request that read
\* the gate while such a grant was in force.  (A request that read it before a
\* withdrawal committed goes on, and stores its photo after it.)
GatheredOnConsent ==
    \A p \in Profiles :
        p \in photos \/ profileRow[p] # "none" =>
            \E g \in Granted : \A w \in before[p] : g \notin consent[w].after

\* What a request that fails half way may leave behind, and nothing else: a creation,
\* a photo without a profile; a deletion, a profile without its photo; the store, by
\* refusing to delete it, the photo of a deleted profile, though never the profile on
\* the watchlist.
PhotosGoWithProfiles ==
    \A p \in Profiles :
        /\ profileRow[p] = "none" /\ p \in photos =>
               creation[p] \in {"uploaded", "inserted", "failed"}
        /\ profileRow[p] = "live" /\ p \notin photos =>
               \E d \in DeletionsOf(p) :
                   deletion[d].erased /\ deletion[d].step \in {"cleaned", "undone"}
        /\ profileRow[p] = "deleted" /\ p \in photos =>
               \A d \in DeletionsOf(p) : ~ deletion[d].erased
        /\ (\E d \in DeletionsOf(p) : deletion[d].step = "done") => profileRow[p] = "deleted"

\* Biometric data is gathered on consent only, and goes when its profile does.
FaceDataKept == WithdrawalHolds /\ GatheredOnConsent /\ PhotosGoWithProfiles
=============================================================================
