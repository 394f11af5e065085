-------------------------------- MODULE Shares --------------------------------
(***************************************************************************)
(* Public shares (core/media/shares.py and the share routes): a link with  *)
(* an expiry, a password and a limit of downloads, which its owner may     *)
(* edit at any time.  A visitor's unlocks are kept in its session cookie,  *)
(* sent with each request and written back whole by the one that unlocks.  *)
(* A download is checked, then claimed against the limit, then prepared;   *)
(* an album is zipped first, in one of a few slots.                        *)
(***************************************************************************)
EXTENDS Integers, FiniteSets, Subsequences

CONSTANTS
    ShareIds, Visitors,
    ShareRequests,      \* requests of the visitors, each in its thread
    ShareLimits,        \* download limits an owner sets, Unlimited among them
    Unlimited, NoShare,
    UnlockedMax,        \* MAX_UNLOCKED_SHARES
    ZipSlots,           \* ZIP_MAX_CONCURRENT
    SharePasswordsMax, ShareServedMax  \* bounds

VARIABLES
    shares,     \* the table; NoShare: the row is not there
    cookies,    \* shares unlocked in the session of each visitor, oldest first
    requests,
    zipping,    \* slots of the zip semaphore that are taken
    asked,      \* share passwords made so far: each has its own (salted) hash
    entered,    \* history: the hashes whose password each visitor entered
    tally       \* history: downloads served, and counted but never served

shareVars == <<shares, cookies, requests, zipping, asked, entered, tally>>

ASSUME SharesAssumption ==
    /\ Unlimited \in ShareLimits /\ ShareLimits \ {Unlimited} \subseteq Nat \ {0}
    /\ {UnlockedMax, ZipSlots} \subseteq Nat \ {0} /\ IsFiniteSet(ShareRequests)

NoRequest == [pc |-> "idle"]
NoHash    == 0

SharesInit ==
    /\ shares = [s \in ShareIds |-> NoShare] /\ cookies = [v \in Visitors |-> << >>]
    /\ requests = [r \in ShareRequests |-> NoRequest]
    /\ zipping = 0 /\ asked = 0 /\ entered = [v \in Visitors |-> {}]
    /\ tally = [s \in ShareIds |-> [created |-> FALSE, served |-> 0, lost |-> 0]]

Stored == {s \in ShareIds : shares[s] # NoShare}

-----------------------------------------------------------------------------
(* The owner.  A share gets the server's defaults; its id is never reused.  *)
CreateShare(s, limit, locked) ==
    /\ ~tally[s].created /\ asked + (IF locked THEN 1 ELSE 0) <= SharePasswordsMax
    /\ asked' = asked + (IF locked THEN 1 ELSE 0)
    /\ shares' = [shares EXCEPT ![s] = [limit |-> limit, count |-> 0, over |-> FALSE,
                                        hash |-> IF locked THEN asked' ELSE NoHash]]
    /\ tally' = [tally EXCEPT ![s].created = TRUE]
    /\ UNCHANGED <<cookies, requests, zipping, entered>>

(* The form always sets expiry and limit; the password when it has one.     *)
UpdateShare(s, limit, password) ==
    /\ s \in Stored /\ (password = "new" => asked < SharePasswordsMax)
    /\ asked' = IF password = "new" THEN asked + 1 ELSE asked
    /\ shares' = [shares EXCEPT ![s].limit = limit, ![s].over = FALSE,
           ![s].hash = CASE password = "new"  -> asked'
                         [] password = "none" -> NoHash
                         [] password = "kept" -> @]
    /\ UNCHANGED <<cookies, requests, zipping, entered, tally>>

DeleteShare(s) ==
    /\ s \in Stored /\ shares' = [shares EXCEPT ![s] = NoShare]
    /\ UNCHANGED <<cookies, requests, zipping, asked, entered, tally>>

ExpireShare(s) ==
    /\ s \in Stored /\ shares' = [shares EXCEPT ![s].over = TRUE]
    /\ UNCHANGED <<cookies, requests, zipping, asked, entered, tally>>

-----------------------------------------------------------------------------

(* is_unlocked()                                                            *)
Unlocked(cookie, s, row) ==
    row.hash = NoHash \/ \E n \in DOMAIN cookie : cookie[n] = [share |-> s, stamp |-> row.hash]

(* The limit leaves room for one more.                                      *)
Room(row) == row.limit # Unlimited => row.count < row.limit

(* _get_active_share() and the checks of share_view(): the row is read once *)
(* and used from there on.                                                  *)
Ask(r, v, s, what) ==
    /\ requests[r] = NoRequest /\ s \in Stored /\ ~shares[s].over
    /\ LET row == shares[s] IN
       /\ what = "unlock" => row.hash # NoHash
       /\ what # "unlock" => Unlocked(cookies[v], s, row)
       /\ what = "view" => Room(row)
       /\ requests' = [requests EXCEPT ![r] =
              [pc |-> what, visitor |-> v, share |-> s, hash |-> row.hash,
               cookie |-> IF what = "unlock" THEN cookies[v] ELSE << >>]]
    /\ UNCHANGED <<shares, cookies, zipping, asked, entered, tally>>

Done(r) == requests' = [requests EXCEPT ![r] = NoRequest]

(* unlock_share() with the password of a hash, and the cookie sent back.    *)
Unlock(r, h) ==
    /\ requests[r].pc = "unlock"
    /\ LET q == requests[r]
           others == Kept(q.cookie, {i \in DOMAIN q.cookie : q.cookie[i].share # q.share})
           all == Append(others, [share |-> q.share, stamp |-> q.hash])
       IN IF h = q.hash
          THEN /\ cookies' = [cookies EXCEPT ![q.visitor] =
                      SubSeq(all, IF Len(all) > UnlockedMax THEN Len(all) - UnlockedMax + 1 ELSE 1, Len(all))]
               /\ entered' = [entered EXCEPT ![q.visitor] = @ \cup {h}]
          ELSE UNCHANGED <<cookies, entered>>
    /\ Done(r) /\ UNCHANGED <<shares, zipping, asked, tally>>

(* The page is shown; that the visit is counted and announced is data.      *)
View(r) ==
    /\ requests[r].pc = "view" /\ Done(r)
    /\ UNCHANGED <<shares, cookies, zipping, asked, entered, tally>>

-----------------------------------------------------------------------------
(* claim_download(): one conditional UPDATE.                                *)
Claim(r) ==
    /\ requests[r].pc \in {"song", "album"}
    /\ LET s == requests[r].share IN
       IF s \in Stored /\ Room(shares[s])
       THEN /\ shares[s].count < ShareServedMax
            /\ shares' = [shares EXCEPT ![s].count = @ + 1]
            /\ requests' = [requests EXCEPT ![r].pc = IF @ = "song" THEN "send" ELSE "zip"]
       ELSE UNCHANGED shares /\ Done(r)
    /\ UNCHANGED <<cookies, zipping, asked, entered, tally>>

Serve(r) ==
    /\ tally' = [tally EXCEPT ![requests[r].share].served = @ + 1]
    /\ Done(r)

(* release_download()                                                       *)
ReleaseDownload(r) ==
    LET s == requests[r].share IN
    shares' = IF s \in Stored THEN [shares EXCEPT ![s].count = IF @ = 0 THEN 0 ELSE @ - 1] ELSE shares

SendSong(r) ==
    /\ requests[r].pc = "send" /\ Serve(r)
    /\ UNCHANGED <<shares, cookies, zipping, asked, entered>>

(* Mutant of GiveBack: an album stays counted.                              *)
GiveBackSong(r) ==
    /\ requests[r].pc = "send" \/ (requests[r].pc = "zip" /\ zipping = ZipSlots)
    /\ (IF requests[r].pc = "send" THEN ReleaseDownload(r) ELSE UNCHANGED shares) /\ Done(r)
    /\ UNCHANGED <<cookies, zipping, asked, entered, tally>>

(* The file of the song is missing, or the slots of the zips are taken.     *)
GiveBack(r) ==
    /\ requests[r].pc = "send" \/ (requests[r].pc = "zip" /\ zipping = ZipSlots)
    /\ ReleaseDownload(r) /\ Done(r)
    /\ UNCHANGED <<cookies, zipping, asked, entered, tally>>

(* _zip_album(): the zip is there from before, or is built.                 *)
SendCached(r) ==
    /\ requests[r].pc = "zip" /\ Serve(r)
    /\ UNCHANGED <<shares, cookies, zipping, asked, entered>>

BuildZip(r) ==
    /\ requests[r].pc = "zip" /\ zipping < ZipSlots
    /\ zipping' = zipping + 1
    /\ requests' = [requests EXCEPT ![r].pc = "build"]
    /\ UNCHANGED <<shares, cookies, asked, entered, tally>>

SendZip(r) ==
    /\ requests[r].pc = "build" /\ zipping' = zipping - 1 /\ Serve(r)
    /\ UNCHANGED <<shares, cookies, asked, entered>>

(* A file cannot be read, the disk is full: the error leaves the route, and *)
(* the download stays counted.                                              *)
ZipFails(r) ==
    /\ requests[r].pc = "build" /\ Done(r)
    /\ zipping' = zipping - 1
    /\ tally' = [tally EXCEPT ![requests[r].share].lost = @ + 1]
    /\ UNCHANGED <<shares, cookies, asked, entered>>

SharesNext ==
    \/ \E s \in ShareIds, limit \in ShareLimits :
          \/ \E locked \in BOOLEAN : CreateShare(s, limit, locked)
          \/ \E password \in {"new", "none", "kept"} : UpdateShare(s, limit, password)
    \/ \E s \in ShareIds : DeleteShare(s) \/ ExpireShare(s)
    \/ \E r \in ShareRequests :
          \/ \E v \in Visitors, s \in ShareIds, what \in {"unlock", "view", "song", "album"} :
                Ask(r, v, s, what)
          \/ \E h \in 1..SharePasswordsMax : Unlock(r, h)
          \/ View(r) \/ Claim(r) \/ SendSong(r) \/ GiveBack(r)
          \/ SendCached(r) \/ BuildZip(r) \/ SendZip(r) \/ ZipFails(r)

SharesSpec == SharesInit /\ [][SharesNext]_shareVars

-----------------------------------------------------------------------------
(* The count of a share is the downloads it served, those it prepares and   *)
(* those an error ended: what is given back is exactly what was claimed,    *)
(* whatever other requests and the owner do in between, so the limit bounds *)
(* what is served.                                                          *)
Preparing(s) == {r \in ShareRequests : requests[r].pc \in {"send", "zip", "build"} /\ requests[r].share = s}
CountTrue ==
    \A s \in Stored : shares[s].count = tally[s].served + Cardinality(Preparing(s)) + tally[s].lost

(* Whoever is let in entered the password the share had when it was let in: *)
(* a change of password locks everyone out, whatever unlocks were under way *)
(* and whichever cookie the browser ended with.                             *)
LetIn ==
    \A r \in ShareRequests : requests[r].pc \notin {"idle", "unlock"} =>
        requests[r].hash \in entered[requests[r].visitor] \cup {NoHash}

(* A slot of the zips is held by a request that builds one, so the slots    *)
(* never run out for good, failures included.                               *)
SlotsHeld == zipping = Cardinality({r \in ShareRequests : requests[r].pc = "build"})

(* What shares promise: all of them hold.                                   *)
SharesHold == CountTrue /\ LetIn /\ SlotsHeld
=============================================================================
