------------------------------ MODULE Profiles ------------------------------
(***************************************************************************)
(* A person's profile and the anime profiles linked to it                  *)
(* (identity_profiles.py, identity_anime_profiles.py): clients create,     *)
(* rename, archive and preset it, the serial lane extracts features, and   *)
(* jobs that use an anime profile resolve it twice, when they are          *)
(* submitted and when they are dispatched.  Requests run under the lock of *)
(* the service, which a submission takes twice.  The service may exit      *)
(* anywhere, and starts again from its files.                              *)
(***************************************************************************)
EXTENDS Naturals

CONSTANTS Animes, ProfileJobs, NoProfile, MaxRenames, MaxSaveFaults, MaxRestarts

ASSUME ProfileAssumption ==
    /\ NoProfile \notin Animes \cup ProfileJobs \cup {"person"}
    /\ "person" \notin Animes \cup ProfileJobs /\ Animes \cap ProfileJobs = {}
    /\ {MaxRenames, MaxSaveFaults, MaxRestarts} \subseteq Nat

VARIABLES
    person, personFile,      \* the record in memory and on disk
    animes, animeFile,       \* state of each anime profile, in memory and on disk
    picture, extracted,      \* anime profiles with an image; with features
    making,                  \* the anime profile whose image was just written
    uses, jobState,          \* the anime profile of each job; its state
    future,                  \* the task of the person, an anime profile or a job
    lane, laneAt,            \* what runs on the serial lane, and its step
    named,                   \* the name last acknowledged to a client
    saveFaults, restarts

people == <<person, personFile, named>>
drawn == <<animes, animeFile, picture, extracted, making>>
users == <<uses, jobState>>
serial == <<lane, laneAt>>
limits == <<saveFaults, restarts>>
profileVars == <<people, drawn, users, future, serial, limits>>

Tasks == {"person"} \cup Animes \cup ProfileJobs
NoRecord == [state |-> "absent", name |-> 0, preset |-> FALSE]

InitProfiles ==
    /\ person = NoRecord /\ personFile = NoRecord /\ named = 0
    /\ animes = [a \in Animes |-> "absent"] /\ animeFile = animes
    /\ picture = {} /\ extracted = {} /\ making = NoProfile
    /\ uses = [j \in ProfileJobs |-> NoProfile] /\ jobState = [j \in ProfileJobs |-> "absent"]
    /\ future = [t \in Tasks |-> "none"] /\ lane = NoProfile /\ laneAt = "idle"
    /\ saveFaults = 0 /\ restarts = 0

Faulty == saveFaults < MaxSaveFaults /\ saveFaults' = saveFaults + 1 /\ UNCHANGED restarts
Unlocked == making = NoProfile

\* IdentityProfiles._save: the file, then the record in memory.
SavePerson(record) == personFile' = record /\ person' = record /\ UNCHANGED limits
PersonUnsaved == Faulty /\ UNCHANGED <<person, personFile>>
\* AnimeProfiles.save
SaveAnime(a, state) ==
    /\ animeFile' = [animeFile EXCEPT ![a] = state] /\ animes' = [animes EXCEPT ![a] = state]
    /\ UNCHANGED limits
AnimeUnsaved == Faulty /\ UNCHANGED <<animes, animeFile>>

Submitted(t) == future' = [future EXCEPT ![t] = "queued"]

-----------------------------------------------------------------------------
(* profile_operation                                                        *)

CreateProfile ==
    /\ Unlocked /\ personFile = NoRecord
    /\ \/ SavePerson([NoRecord EXCEPT !.state = "preparing"]) /\ Submitted("person")
       \/ PersonUnsaved /\ UNCHANGED future
    /\ UNCHANGED <<named, drawn, users, serial>>

Rename ==
    /\ Unlocked /\ person # NoRecord /\ named < MaxRenames
    /\ \/ SavePerson([person EXCEPT !.name = named + 1]) /\ named' = named + 1
       \/ PersonUnsaved /\ UNCHANGED named
    /\ UNCHANGED <<drawn, users, future, serial>>

Terminal == {"absent", "checked", "complete", "failed"}
InUse == person.state = "preparing" \/ \E j \in ProfileJobs : jobState[j] \notin Terminal

\* A request that was checked and not yet recorded is no job.
Archive ==
    /\ Unlocked /\ person.state \in {"ready", "failed"} /\ ~InUse
    /\ SavePerson([person EXCEPT !.state = "archived"]) \/ PersonUnsaved
    /\ UNCHANGED <<named, drawn, users, future, serial>>

Preset ==
    /\ Unlocked /\ person.state = "ready" /\ ~person.preset /\ \E j \in ProfileJobs : jobState[j] = "complete"
    /\ SavePerson([person EXCEPT !.preset = TRUE]) \/ PersonUnsaved
    /\ UNCHANGED <<named, drawn, users, future, serial>>

-----------------------------------------------------------------------------
(* anime_profile_operation: the image is written, then the record.          *)

\* import_image, or create from a complete job of the person.
DrawAnime(a) ==
    /\ Unlocked /\ person.state = "ready" /\ animeFile[a] = "absent" /\ a \notin picture
    /\ \/ picture' = picture \cup {a} /\ making' = a /\ UNCHANGED limits
       \/ Faulty /\ UNCHANGED <<picture, making>>
    /\ UNCHANGED <<people, animes, animeFile, extracted, users, future, serial>>

\* When the record cannot be written, import_image takes its image back and
\* create leaves it.
RecordAnime ==
    /\ making # NoProfile /\ making' = NoProfile
    /\ \/ SaveAnime(making, "preparing") /\ Submitted(making) /\ UNCHANGED picture
       \/ AnimeUnsaved /\ picture' \in {picture, picture \ {making}} /\ UNCHANGED future
    /\ UNCHANGED <<people, extracted, users, serial>>

-----------------------------------------------------------------------------
(* Jobs of the person.                                                      *)

\* resolve_request
Resolves(a) ==
    a # NoProfile =>
        /\ animes[a] = "ready" /\ person.state = "ready"
        /\ a \in extracted /\ a \in picture

CheckJob(j, a) ==
    /\ Unlocked /\ jobState[j] = "absent" /\ person # NoRecord /\ Resolves(a)
    /\ jobState' = [jobState EXCEPT ![j] = "checked"] /\ uses' = [uses EXCEPT ![j] = a]
    /\ UNCHANGED <<people, drawn, future, serial, limits>>

AcceptJob(j) ==
    /\ Unlocked /\ jobState[j] = "checked"
    /\ \/ jobState' = [jobState EXCEPT ![j] = "queued"] /\ Submitted(j) /\ UNCHANGED limits
       \/ Faulty /\ jobState' = [jobState EXCEPT ![j] = "absent"] /\ UNCHANGED future
    /\ UNCHANGED <<people, drawn, uses, serial>>

CancelProfileJob(j) ==
    /\ Unlocked /\ future[j] = "queued" /\ future' = [future EXCEPT ![j] = "done"]
    /\ jobState' = [jobState EXCEPT ![j] = "failed"]
    /\ UNCHANGED <<people, drawn, uses, serial, limits>>

-----------------------------------------------------------------------------
(* The serial lane.                                                         *)

Ends == lane' = NoProfile /\ laneAt' = "idle" /\ future' = [future EXCEPT ![lane] = "done"]
Moves(place) == laneAt' = place /\ UNCHANGED <<lane, future>>

TakeTask(t) ==
    /\ lane = NoProfile /\ future[t] = "queued" /\ lane' = t /\ laneAt' = "work"
    /\ future' = [future EXCEPT ![t] = "running"]
    /\ UNCHANGED <<people, drawn, users, limits>>

\* Mutant: the record that was read when the task began is written back.
PersonStale ==
    /\ laneAt = "work" /\ lane = "person" /\ Unlocked
    /\ \/ SavePerson([NoRecord EXCEPT !.state = "ready"]) /\ Ends
       \/ PersonUnsaved /\ Moves("except")
       \/ UNCHANGED <<person, personFile, limits>> /\ Moves("except")
    /\ UNCHANGED <<named, drawn, users>>

\* _prepare: the worker extracts the features, or raises; the record is the
\* one of this moment, with the name it has by then.
PersonReady ==
    /\ laneAt = "work" /\ lane = "person" /\ Unlocked
    /\ \/ SavePerson([person EXCEPT !.state = "ready"]) /\ Ends
       \/ PersonUnsaved /\ Moves("except")
       \/ UNCHANGED <<person, personFile, limits>> /\ Moves("except")
    /\ UNCHANGED <<named, drawn, users>>

\* _failed: when it cannot be written, at least the memory says so.
PersonFailed ==
    /\ laneAt = "except" /\ lane = "person" /\ Unlocked /\ Ends
    /\ person' = [person EXCEPT !.state = "failed"]
    /\ \/ personFile' = person' /\ UNCHANGED limits
       \/ Faulty /\ UNCHANGED personFile
    /\ UNCHANGED <<named, drawn, users>>

\* prepare: the worker writes the features, which are verified.
AnimeExtracts ==
    /\ laneAt = "work" /\ lane \in Animes
    /\ \/ extracted' = extracted \cup {lane} /\ Moves("verify")
       \/ extracted' \in {extracted, extracted \cup {lane}} /\ Moves("except")
    /\ UNCHANGED <<people, animes, animeFile, picture, making, users, limits>>

AnimeReady ==
    /\ laneAt = "verify" /\ Unlocked
    /\ \/ SaveAnime(lane, "ready") /\ Ends
       \/ AnimeUnsaved /\ Moves("except")
    /\ UNCHANGED <<people, picture, extracted, making, users>>

\* failed: when it cannot be written the task raises, and the record stays.
AnimeFailed ==
    /\ laneAt = "except" /\ lane \in Animes /\ Unlocked /\ Ends
    /\ SaveAnime(lane, "failed") \/ AnimeUnsaved
    /\ UNCHANGED <<people, picture, extracted, making, users>>

\* IdentityService._execute: the request is resolved again.
JobPrepares ==
    /\ laneAt = "work" /\ lane \in ProfileJobs /\ Unlocked
    /\ jobState' = [jobState EXCEPT ![lane] = "preparing"] /\ Moves("resolve")
    /\ UNCHANGED <<people, drawn, uses, limits>>

JobResolves ==
    /\ laneAt = "resolve" /\ Unlocked /\ UNCHANGED <<people, drawn, uses, limits>>
    /\ IF Resolves(uses[lane])
       THEN jobState' = [jobState EXCEPT ![lane] = "sampling"] /\ Moves("render")
       ELSE jobState' = [jobState EXCEPT ![lane] = "failed"] /\ Ends

JobRenders ==
    /\ laneAt = "render" /\ Unlocked /\ Ends
    /\ \E state \in {"complete", "failed"} : jobState' = [jobState EXCEPT ![lane] = state]
    /\ UNCHANGED <<people, drawn, uses, limits>>

-----------------------------------------------------------------------------
\* The service exits and starts again: what was preparing has failed, and a
\* record that cannot be written is not loaded.
Recovers(state) == IF state = "preparing" THEN "failed" ELSE state

Restart ==
    /\ restarts < MaxRestarts /\ restarts' = restarts + 1
    /\ \E lost \in SUBSET ({"person"} \cup Animes) :
         /\ \A t \in lost : IF t = "person" THEN personFile.state = "preparing" ELSE animeFile[t] = "preparing"
         /\ IF lost = {} THEN UNCHANGED saveFaults
            ELSE saveFaults < MaxSaveFaults /\ saveFaults' = saveFaults + 1
         /\ LET read == [personFile EXCEPT !.state = Recovers(@)]
                seen == [a \in Animes |-> Recovers(animeFile[a])] IN
            /\ personFile' = IF "person" \in lost THEN personFile ELSE read
            /\ person' = IF "person" \in lost THEN NoRecord ELSE read
            /\ animeFile' = [a \in Animes |-> IF a \in lost THEN animeFile[a] ELSE seen[a]]
            /\ animes' = [a \in Animes |-> IF a \in lost THEN "absent" ELSE seen[a]]
    /\ jobState' = [j \in ProfileJobs |-> CASE jobState[j] = "checked" -> "absent"
                                            [] jobState[j] \in Terminal \ {"checked"} -> jobState[j]
                                            [] OTHER -> "failed"]
    /\ future' = [t \in Tasks |-> IF future[t] = "none" THEN "none" ELSE "done"]
    /\ lane' = NoProfile /\ laneAt' = "idle" /\ making' = NoProfile
    /\ UNCHANGED <<named, picture, extracted, uses>>

ProfilesNext ==
    \/ CreateProfile \/ Rename \/ Archive \/ Preset \/ RecordAnime
    \/ \E a \in Animes : DrawAnime(a)
    \/ \E j \in ProfileJobs, a \in Animes \cup {NoProfile} : CheckJob(j, a)
    \/ \E j \in ProfileJobs : AcceptJob(j) \/ CancelProfileJob(j)
    \/ \E t \in Tasks : TakeTask(t)
    \/ PersonReady \/ PersonFailed \/ AnimeExtracts \/ AnimeReady \/ AnimeFailed
    \/ JobPrepares \/ JobResolves \/ JobRenders \/ Restart

-----------------------------------------------------------------------------
PersonStates == {"absent", "preparing", "ready", "failed", "archived"}
AnimeStates == {"absent", "preparing", "ready", "failed"}

ProfilesTypeOK ==
    /\ {person, personFile} \subseteq [state : PersonStates, name : 0..MaxRenames, preset : BOOLEAN]
    /\ animes \in [Animes -> AnimeStates] /\ animeFile \in [Animes -> AnimeStates]
    /\ picture \subseteq Animes /\ extracted \subseteq Animes /\ making \in Animes \cup {NoProfile}
    /\ uses \in [ProfileJobs -> Animes \cup {NoProfile}]
    /\ jobState \in [ProfileJobs -> Terminal \cup {"queued", "preparing", "sampling"}]
    /\ future \in [Tasks -> {"none", "queued", "running", "done"}]
    /\ lane \in Tasks \cup {NoProfile} /\ (lane = NoProfile) = (laneAt = "idle")

\* What a worker draws with is whole and stays in force until it ends: no
\* archive, failed write or restart falls between the check of a profile and
\* its use ("Archive or change profile while queued jobs exist must not
\* silently apply another person's face",
\* 2026-09-20-identity-profiles-batches.md:24).  A rename is not lost to a
\* preparation that ends later; what is ready has its files; and what waits to
\* be ready has a task, unless a write has failed.
ProfilesSound ==
    /\ \A j \in ProfileJobs : jobState[j] = "sampling" => Resolves(uses[j])
    /\ personFile # NoRecord => personFile.name = named
    /\ \A a \in Animes : animeFile[a] = "ready" => a \in picture \cap extracted
    /\ person.state = "preparing" => future["person"] \in {"queued", "running"}
    /\ saveFaults = 0 => /\ person = personFile /\ animes = animeFile
                         /\ \A a \in Animes : animes[a] = "preparing" => future[a] \in {"queued", "running"}
=============================================================================
