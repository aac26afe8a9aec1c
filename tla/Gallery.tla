------------------------------ MODULE Gallery ------------------------------
(***************************************************************************)
(* The private gallery of people behind a session file (hq_service.py,     *)
(* hq_authorization.py).  A renewal mints a credential, publishes its grant*)
(* to the store, proves it against the private API and only then replaces  *)
(* the session file, while the status page, the catalog and image reads go *)
(* on with whatever the file holds and with caches keyed by it.            *)
(* Credential 0 is a session file that is missing or unreadable, 1 the one *)
(* that was there, the others are minted.                                  *)
(***************************************************************************)
EXTENDS Naturals

CONSTANTS MaxCredentials, MaxPages, MaxCalls

ASSUME GalleryAssumption == {MaxCredentials, MaxPages, MaxCalls} \subseteq Nat \ {0}

VARIABLES
    credential,     \* in the session file
    life,           \* of each credential: more than five minutes left, less, none
    granted,        \* credentials whose grant the store holds
    answered,       \* credentials the private API has answered
    minted,         \* the last credential made
    unproved,       \* in the temporary directory of the renewal
    galleryAt,      \* the step of each caller
    goal, tried,    \* what its request is for; it is the second attempt
    mark,           \* the fingerprint it read
    authCache,      \* fingerprint of the cached authorization
    personCache,    \* cached list: its fingerprint, credentials it was read with
    pagesRead, via, \* pages the catalog has read, and with which credentials
    raised,         \* callers that found a cache gone between two reads of it
    calls           \* begun, and exits of the service

store == <<credential, life, granted, minted, unproved>>
caches == <<authCache, personCache>>
reading == <<pagesRead, via>>
callers == <<galleryAt, goal, tried, mark>>
galleryVars == <<store, answered, callers, caches, reading, raised, calls>>

Credentials == 1..MaxCredentials
Callers == {"renew", "status", "catalog", "asset"}
NoPeople == [of |-> 0, via |-> {}]

InitGallery ==
    /\ life = [c \in Credentials |-> "fresh"] /\ answered = {} /\ minted = 1 /\ unproved = 0
    /\ galleryAt = [p \in Callers |-> "idle"] /\ goal = [p \in Callers |-> "none"]
    /\ tried = [p \in Callers |-> FALSE] /\ mark = [p \in Callers |-> 0]
    /\ authCache = 0 /\ personCache = NoPeople /\ pagesRead = 0 /\ via = {} /\ raised = {} /\ calls = 0

Goes(p, place) == galleryAt' = [galleryAt EXCEPT ![p] = place] /\ UNCHANGED <<goal, tried, mark>>
Requests(p, g) ==
    /\ galleryAt' = [galleryAt EXCEPT ![p] = "ask"]
    /\ goal' = [goal EXCEPT ![p] = g] /\ tried' = [tried EXCEPT ![p] = FALSE] /\ UNCHANGED mark
Idle(p) ==
    /\ galleryAt' = [galleryAt EXCEPT ![p] = "idle"] /\ mark' = [mark EXCEPT ![p] = 0]
    /\ goal' = [goal EXCEPT ![p] = "none"] /\ tried' = [tried EXCEPT ![p] = FALSE]
Begins == calls < MaxCalls /\ calls' = calls + 1
At(p, place, g) == galleryAt[p] = place /\ goal[p] = g

-----------------------------------------------------------------------------
(* A private request: _get, _get_once, _json_get.                           *)

\* _session: the file is read again for every attempt.
Usable(c) == c # 0 /\ life[c] # "over"

Asked(p) == IF goal[p] = "prove" THEN unproved ELSE credential
Refused(p) == ~Usable(Asked(p)) \/ Asked(p) \notin granted

\* One attempt; a timeout or a refused connection is tried once more.
Attempt(p) ==
    /\ galleryAt[p] = "ask" /\ Usable(Asked(p))
    /\ UNCHANGED <<store, mark, caches, pagesRead, raised, goal, calls>>
    /\ \/ /\ ~Refused(p) /\ answered' = answered \cup {Asked(p)}
          /\ via' = (IF goal[p] = "page" THEN via \cup {Asked(p)} ELSE via)
          /\ galleryAt' = [galleryAt EXCEPT ![p] = "ok"] /\ UNCHANGED tried
       \/ ~tried[p] /\ tried' = [tried EXCEPT ![p] = TRUE] /\ UNCHANGED <<answered, via, galleryAt>>

\* The error goes to the caller; a renewal drops the new credential.
RequestFails(p) ==
    /\ galleryAt[p] = "ask" /\ Idle(p)
    /\ Usable(Asked(p)) \/ goal[p] # "reuse"
    /\ unproved' = (IF p = "renew" THEN 0 ELSE unproved)
    /\ IF goal[p] = "page" THEN pagesRead' = 0 /\ via' = {} ELSE UNCHANGED reading
    /\ UNCHANGED <<credential, life, granted, minted, answered, caches, raised, calls>>

-----------------------------------------------------------------------------
(* renew and renew_authorization; a second caller is refused meanwhile.     *)

RenewalAsked ==
    /\ galleryAt["renew"] = "idle" /\ Begins /\ Goes("renew", "check")
    /\ UNCHANGED <<store, answered, caches, reading, raised>>

CheckOld ==
    /\ galleryAt["renew"] = "check" /\ UNCHANGED <<store, answered, caches, reading, raised, calls>>
    /\ IF credential # 0 /\ life[credential] = "fresh" THEN Requests("renew", "reuse") ELSE Goes("renew", "mint")

Reuse ==
    /\ At("renew", "ok", "reuse") /\ Goes("renew", "clear")
    /\ UNCHANGED <<store, answered, caches, reading, raised, calls>>

OldRefused ==
    /\ At("renew", "ask", "reuse") /\ Refused("renew") /\ Goes("renew", "mint")
    /\ UNCHANGED <<store, answered, caches, reading, raised, calls>>

\* The private directory and its two files, or a storage error.
Mint ==
    /\ galleryAt["renew"] = "mint"
    /\ \/ /\ minted < MaxCredentials /\ minted' = minted + 1 /\ unproved' = minted + 1
          /\ Goes("renew", "publish")
       \/ Idle("renew") /\ UNCHANGED <<minted, unproved>>
    /\ UNCHANGED <<credential, life, granted, answered, caches, reading, raised, calls>>

\* _publish: a failed or timed out upload may have reached the store.
PublishGrant ==
    /\ galleryAt["renew"] = "publish"
    /\ \/ granted' = granted \cup {unproved} /\ Requests("renew", "prove") /\ UNCHANGED unproved
       \/ granted' \in {granted, granted \cup {unproved}} /\ Idle("renew") /\ unproved' = 0
    /\ UNCHANGED <<credential, life, minted, answered, caches, reading, raised, calls>>

\* os.replace.
Adopt ==
    /\ At("renew", "ok", "prove") /\ unproved' = 0
    /\ \/ credential' = unproved /\ Goes("renew", "clear")
       \/ UNCHANGED credential /\ Idle("renew")
    /\ UNCHANGED <<life, granted, minted, answered, caches, reading, raised, calls>>

\* Both caches, under the lock the catalog holds while it reads.
ClearCaches ==
    /\ galleryAt["renew"] = "clear" /\ galleryAt["catalog"] = "idle"
    /\ authCache' = 0 /\ personCache' = NoPeople /\ Idle("renew")
    /\ UNCHANGED <<store, answered, reading, raised, calls>>

-----------------------------------------------------------------------------
(* _authorized, called by status without and by catalog with the lock.      *)

AccessAsked(p) ==
    /\ p \in {"status", "catalog"} /\ galleryAt[p] = "idle" /\ Begins /\ Goes(p, "read")
    /\ UNCHANGED <<store, answered, caches, reading, raised>>

ReadMark(p) ==
    /\ galleryAt[p] = "read" /\ UNCHANGED <<store, answered, caches, reading, raised, calls>>
    /\ \/ /\ Usable(credential) /\ mark' = [mark EXCEPT ![p] = credential]
          /\ galleryAt' = [galleryAt EXCEPT ![p] = "compare"] /\ UNCHANGED <<goal, tried>>
       \/ ~Usable(credential) /\ Idle(p)

CompareMark(p) ==
    /\ galleryAt[p] = "compare" /\ UNCHANGED <<store, answered, caches, reading, raised, calls>>
    /\ IF authCache = mark[p] THEN Goes(p, "expiry") ELSE Requests(p, "access")

Allowed(p) == IF p = "catalog" THEN Goes(p, "people") ELSE Idle(p)

\* The clock is read and the cache is looked up once more: it may be gone.
CacheExpiry(p) ==
    /\ galleryAt[p] = "expiry" /\ UNCHANGED <<store, answered, caches, reading, calls>>
    /\ IF authCache = 0 THEN raised' = raised \cup {p} /\ Idle(p)
       ELSE (Requests(p, "access") \/ Allowed(p)) /\ UNCHANGED raised

\* The fingerprint is cached that was read before the request.
Remember(p) ==
    /\ At(p, "ok", "access") /\ authCache' = mark[p] /\ Allowed(p)
    /\ UNCHANGED <<store, answered, personCache, reading, raised, calls>>

-----------------------------------------------------------------------------
(* catalog and asset.                                                       *)

\* The list is cached for half a minute, or read from its first page.
ListPeople ==
    /\ galleryAt["catalog"] = "people" /\ UNCHANGED <<store, answered, caches, raised, calls>>
    /\ \/ personCache.of = mark["catalog"] /\ Idle("catalog") /\ UNCHANGED reading
       \/ Requests("catalog", "page") /\ pagesRead' = 0 /\ via' = {}

\* The last page, another page, too many, or a cursor that was seen before.
PageRead ==
    /\ At("catalog", "ok", "page") /\ UNCHANGED <<store, answered, authCache, raised, calls>>
    /\ \/ /\ personCache' = [of |-> mark["catalog"], via |-> via] /\ Idle("catalog")
          /\ pagesRead' = 0 /\ via' = {}
       \/ /\ pagesRead + 1 < MaxPages /\ pagesRead' = pagesRead + 1 /\ Requests("catalog", "page")
          /\ UNCHANGED <<personCache, via>>
       \/ Idle("catalog") /\ pagesRead' = 0 /\ via' = {} /\ UNCHANGED personCache

AssetAsked ==
    /\ galleryAt["asset"] = "idle" /\ Begins /\ Requests("asset", "image")
    /\ UNCHANGED <<store, answered, caches, reading, raised>>

\* Served if its hash is the identifier, refused otherwise.
AssetRead ==
    /\ At("asset", "ok", "image") /\ Idle("asset")
    /\ UNCHANGED <<store, answered, caches, reading, raised, calls>>

-----------------------------------------------------------------------------
(* Time, the owner of the store and the end of the service.                 *)

Ages(c) ==
    /\ c <= minted /\ life[c] # "over"
    /\ life' = [life EXCEPT ![c] = IF @ = "fresh" THEN "short" ELSE "over"]
    /\ UNCHANGED <<credential, granted, minted, unproved, answered, callers, caches, reading, raised, calls>>

Revoked(c) ==
    /\ c \in granted /\ granted' = granted \ {c}
    /\ UNCHANGED <<credential, life, minted, unproved, answered, callers, caches, reading, raised, calls>>

\* The temporary directory of the renewal stays behind and is never read.
GalleryExit ==
    /\ Begins /\ galleryAt' = [p \in Callers |-> "idle"] /\ goal' = [p \in Callers |-> "none"]
    /\ tried' = [p \in Callers |-> FALSE] /\ mark' = [p \in Callers |-> 0]
    /\ unproved' = 0 /\ authCache' = 0 /\ personCache' = NoPeople /\ pagesRead' = 0 /\ via' = {}
    /\ UNCHANGED <<credential, life, granted, minted, answered, raised>>

GalleryNext ==
    \/ (\E p \in Callers : Attempt(p) \/ RequestFails(p))
    \/ RenewalAsked \/ CheckOld \/ Reuse \/ OldRefused \/ Mint \/ PublishGrant \/ Adopt \/ ClearCaches
    \/ (\E p \in {"status", "catalog"} :
          AccessAsked(p) \/ ReadMark(p) \/ CompareMark(p) \/ CacheExpiry(p) \/ Remember(p))
    \/ ListPeople \/ PageRead \/ AssetAsked \/ AssetRead
    \/ (\E c \in Credentials : Ages(c) \/ Revoked(c))
    \/ GalleryExit

-----------------------------------------------------------------------------
\* Callers that read a fingerprint from one version of the session file and
\* send the token of the next never make the caches vouch for a session the
\* private API has not answered (hq_service.py:325-331, 444-464), a renewal
\* leaves the old session unless the new one was proved ("A successful R2 PUT
\* alone is not authorization success", hq_authorization.py:190) and makes a
\* second credential only if the one it has does not serve ("Lost-response
\* retries and repeat clicks reuse a verified live session", line 166), and the
\* lock keeps the caches in place while the catalog looks at them; the status
\* page has no such promise.
GallerySound ==
    /\ credential > 1 => credential \in answered
    /\ credential # 0 /\ authCache = credential => credential \in answered
    /\ credential # 0 /\ personCache.of = credential => personCache.via = {credential}
    /\ galleryAt["renew"] = "mint" /\ credential \in granted => life[credential] # "fresh"
    /\ raised \subseteq {"status"}
=============================================================================
