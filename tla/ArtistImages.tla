------------------------------ MODULE ArtistImages ------------------------------
(***************************************************************************)
(* The images of artists (core/media/artist_images.py, artist_image_fetch  *)
(* and their routes).  An image is uploaded by an administrator, or looked *)
(* up on Deezer: for one artist, when a client asks for an image that is   *)
(* not there or the administrator says so, or for all of them by one       *)
(* background run.  Rows are kept by key, the MusicBrainz id of the artist *)
(* before the name, and the tags of the library may gain or lose that id.  *)
(***************************************************************************)
EXTENDS Integers, FiniteSets, Functions

CONSTANTS
    ImageArtists,           \* the artists that may be in the library
    ImageThreads, Fetcher,  \* request threads; the background run
    FailuresMax,            \* MAX_CONSECUTIVE_FAILURES
    TagsMax, ImageAsksMax   \* bounds on changes of the library and on requests

ASSUME ImagesAssumption == {FailuresMax, TagsMax, ImageAsksMax} \subseteq Nat /\ FailuresMax > 0

VARIABLES
    tags,           \* how the library knows each artist
    savesImages,    \* save_artists_images
    images,         \* the table artist_images, by key
    fetched,        \* artists whose fetched image is on disk
    lookups,        \* lookup() of each thread
    fetchTodo,      \* keys the background run has still to look up
    fetchFailures,  \* its failures in a row
    fetching,       \* its lock
    cleanup,        \* cleanup_artist_records() of the maintenance
    stayed,         \* history: keys in the library ever since that began
    unmatched,      \* history: keys that Deezer was asked for, in vain
    imageAsks, tagChanges

runVars   == <<fetchTodo, fetchFailures, fetching>>
cleanVars == <<cleanup, stayed>>
imageVars == <<tags, savesImages, images, fetched, lookups, runVars, cleanVars, unmatched, imageAsks, tagChanges>>

ImageKey      == [artist : ImageArtists, by : {"mbid", "name"}]
KeyOf(a, by) == [artist |-> a, by |-> by]
NoLookup  == [pc |-> "idle"]
NoCleanup == [pc |-> "idle"]

ImagesInit ==
    /\ tags \in [ImageArtists -> {"absent", "named", "mbid"}] /\ savesImages \in BOOLEAN
    /\ images = << >> /\ fetched = {} /\ fetchTodo = {} /\ fetchFailures = 0 /\ fetching = FALSE
    /\ lookups = [t \in ImageThreads \cup {Fetcher} |-> NoLookup]
    /\ cleanup = NoCleanup /\ stayed = {} /\ unmatched = {} /\ imageAsks = 0 /\ tagChanges = 0

Present(a) == tags[a] # "absent"

\* artist_keys(), best first; library_keys().
ArtistKeys(a) ==
    IF tags[a] = "mbid" THEN <<KeyOf(a, "mbid"), KeyOf(a, "name")>> ELSE <<KeyOf(a, "name")>>
LibraryKeys == UNION {Range(ArtistKeys(a)) : a \in {b \in ImageArtists : Present(b)}}

FirstOf(keys, among) ==
    LET at == {i \in DOMAIN keys : keys[i] \in among}
    IN  IF at = {} THEN {} ELSE {keys[CHOOSE i \in at : \A j \in at : i <= j]}

HasImage(k)  == k \in DOMAIN images /\ images[k].image
Uploads      == {k \in DOMAIN images : images[k].image}
PutRow(k, r) == images' = [x \in DOMAIN images \cup {k} |-> IF x = k THEN r ELSE images[x]]

\* find_uploaded_image(): the best key that has one.
Uploaded(a) == FirstOf(ArtistKeys(a), Uploads)

\* list_artists(): the best key that has a row.
Listed(a) == FirstOf(ArtistKeys(a), DOMAIN images)

-----------------------------------------------------------------------------
AskImage ==
    imageAsks < ImageAsksMax /\ imageAsks' = imageAsks + 1

NotFetching(t)   == lookups[t].pc = "idle"
LookUp(t, k) == lookups' = [lookups EXCEPT ![t] = [pc |-> "asking", key |-> k]]

(* send_artist_image(): an upload or a file on disk is sent at once.        *)
SendArtistImage(t, a) ==
    /\ NotFetching(t) /\ Present(a) /\ AskImage /\ Uploaded(a) = {} /\ a \notin fetched
    /\ LookUp(t, ArtistKeys(a)[1])
    /\ UNCHANGED <<tags, savesImages, images, fetched, runVars, cleanVars, unmatched, tagChanges>>

(* fetch_one(): whatever is stored already.                                 *)
FetchOne(t, a) ==
    /\ NotFetching(t) /\ Present(a) /\ AskImage /\ LookUp(t, ArtistKeys(a)[1])
    /\ UNCHANGED <<tags, savesImages, images, fetched, runVars, cleanVars, unmatched, tagChanges>>

(* record_status(): a row with an upload stays as it is.                    *)
RecordStatus(k, source) ==
    IF HasImage(k) THEN UNCHANGED images
    ELSE PutRow(k, [image |-> FALSE, source |-> source, recent |-> TRUE])

(* A candidate that Deezer did not answer for leaves the outcome open.      *)
AnsweredAll(failed) == ~failed

(* lookup(): the artist itself answers to the first name, a member of a     *)
(* joint credit to a later one.                                             *)
DeezerAnswers(t) ==
    /\ lookups[t].pc = "asking"
    /\ \E match \in {"artist", "member", "none"}, failed \in BOOLEAN :
         LET l == lookups[t] IN
         /\ match = "artist" => ~failed
         /\ fetched' = IF savesImages /\ match # "none" THEN fetched \cup {l.key.artist} ELSE fetched
         /\ IF AnsweredAll(failed) THEN RecordStatus(l.key, IF match = "none" THEN "none" ELSE "deezer")
                                ELSE UNCHANGED images
         /\ unmatched' = IF match = "none" /\ ~failed THEN unmatched \cup {l.key} ELSE unmatched
         /\ lookups' = [lookups EXCEPT ![t] = NoLookup]
         /\ fetchFailures' = IF t # Fetcher THEN fetchFailures ELSE IF failed THEN fetchFailures + 1 ELSE 0
    /\ UNCHANGED <<tags, savesImages, fetchTodo, fetching, cleanVars, imageAsks, tagChanges>>

-----------------------------------------------------------------------------
(* fetch_all(): what has an upload or was tried lately is left out.         *)
TriedLately(a) == \E k \in Listed(a) : images[k].image \/ images[k].recent

FetchAll ==
    /\ ~fetching /\ AskImage /\ fetching' = TRUE
    /\ fetchTodo' = {ArtistKeys(a)[1] : a \in {b \in ImageArtists : Present(b) /\ ~TriedLately(b)}}
    /\ UNCHANGED <<tags, savesImages, images, fetched, lookups, fetchFailures, cleanVars, unmatched, tagChanges>>

FetchNext ==
    /\ fetching /\ NotFetching(Fetcher) /\ fetchFailures < FailuresMax
    /\ \E k \in fetchTodo : fetchTodo' = fetchTodo \ {k} /\ LookUp(Fetcher, k)
    /\ UNCHANGED <<tags, savesImages, images, fetched, fetchFailures, fetching, cleanVars, unmatched, imageAsks, tagChanges>>

FetchEnds ==
    /\ fetching /\ NotFetching(Fetcher) /\ (fetchTodo = {} \/ fetchFailures >= FailuresMax)
    /\ fetching' = FALSE /\ fetchTodo' = {} /\ fetchFailures' = 0
    /\ UNCHANGED <<tags, savesImages, images, fetched, lookups, cleanVars, unmatched, imageAsks, tagChanges>>

-----------------------------------------------------------------------------
SetImage(a) ==
    /\ Present(a) /\ AskImage
    /\ PutRow(ArtistKeys(a)[1], [image |-> TRUE, source |-> "manual", recent |-> FALSE])
    /\ UNCHANGED <<tags, savesImages, fetched, lookups, runVars, cleanVars, unmatched, tagChanges>>

DeleteImage(k) ==
    /\ HasImage(k) /\ images' = [x \in DOMAIN images \ {k} |-> images[x]]
    /\ UNCHANGED <<tags, savesImages, fetched, lookups, runVars, cleanVars, unmatched, imageAsks, tagChanges>>

(* Mutant of Orphans: a library that cannot be read has no artist.          *)
OrphansAnyway(present) == cleanup.stored \ present

(* An unreadable library answers with no artist.                            *)
Orphans(present) == IF present = {} THEN {} ELSE cleanup.stored \ present

(* cleanup_artist_records() selects the keys, asks the library for its own, *)
(* and then deletes by key, in a transaction that begins with the first     *)
(* deletion.                                                                *)
CleanupSelects ==
    /\ cleanup = NoCleanup /\ DOMAIN images # {}
    /\ cleanup' = [pc |-> "selected", stored |-> DOMAIN images]
    /\ stayed' = LibraryKeys
    /\ UNCHANGED <<tags, savesImages, images, fetched, lookups, runVars, unmatched, imageAsks, tagChanges>>

CleanupReads ==
    /\ cleanup.pc = "selected"
    /\ \E present \in {LibraryKeys, {}} :
          IF Orphans(present) = {} THEN cleanup' = NoCleanup /\ stayed' = {}
          ELSE cleanup' = [pc |-> "deleting", orphans |-> Orphans(present)] /\ UNCHANGED stayed
    /\ UNCHANGED <<tags, savesImages, images, fetched, lookups, runVars, unmatched, imageAsks, tagChanges>>

CleanupDeletes ==
    /\ cleanup.pc = "deleting"
    /\ images' = [k \in DOMAIN images \ cleanup.orphans |-> images[k]]
    /\ cleanup' = NoCleanup /\ stayed' = {}
    /\ UNCHANGED <<tags, savesImages, fetched, lookups, runVars, unmatched, imageAsks, tagChanges>>

(* RETRY_AFTER passes since a lookup; only another fetch_all() would tell.  *)
Age(k) ==
    /\ k \in DOMAIN images /\ images[k].recent /\ imageAsks < ImageAsksMax
    /\ images' = [images EXCEPT ![k].recent = FALSE]
    /\ UNCHANGED <<tags, savesImages, fetched, lookups, runVars, cleanVars, unmatched, imageAsks, tagChanges>>

Retag(a) ==
    /\ tagChanges < TagsMax /\ tagChanges' = tagChanges + 1
    /\ \E how \in {"absent", "named", "mbid"} \ {tags[a]} : tags' = [tags EXCEPT ![a] = how]
    /\ stayed' = stayed \cap LibraryKeys'
    /\ UNCHANGED <<savesImages, images, fetched, lookups, runVars, cleanup, unmatched, imageAsks>>

ImagesNext ==
    \/ FetchAll \/ FetchNext \/ FetchEnds
    \/ CleanupSelects \/ CleanupReads \/ CleanupDeletes
    \/ \E t \in ImageThreads, a \in ImageArtists : SendArtistImage(t, a) \/ FetchOne(t, a)
    \/ \E t \in ImageThreads \cup {Fetcher} : DeezerAnswers(t)
    \/ \E a \in ImageArtists : SetImage(a) \/ Retag(a)
    \/ \E k \in ImageKey : DeleteImage(k) \/ Age(k)

ImagesSpec == ImagesInit /\ [][ImagesNext]_imageVars

-----------------------------------------------------------------------------
(* An artist is said to have no image only if Deezer was reached for every  *)
(* name of it and knew none (lookup(), record_status()).                    *)
MissingWasAsked == \A k \in DOMAIN images : images[k].source = "none" => k \in unmatched

(* Nobody but the administrator takes an upload: no lookup in flight, and   *)
(* the maintenance only one whose key has been out of the library, if only  *)
(* for a moment, since its clean-up began (it does not ask again before it  *)
(* deletes, so that an artist who has come back may lose the upload).       *)
UploadsStay ==
    \A k \in Uploads : k \notin Uploads' =>
        DeleteImage(k) \/ (cleanup # NoCleanup /\ k \notin stayed)

ImagesHold == []MissingWasAsked /\ [][UploadsStay]_imageVars
=============================================================================
