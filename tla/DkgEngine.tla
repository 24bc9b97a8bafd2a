------------------------------ MODULE DkgEngine ------------------------------
(***************************************************************************)
(* dkg.EngineImpl (internal/tss/dkg/engine.go) for one session, with its   *)
(* two stores.  Sessions share nothing, so one stands for all.  OnMessage  *)
(* holds the mutex; it is cut where it writes, because the process may die *)
(* between the key share and the session.  A save takes effect at once or  *)
(* not at all, and its error is ignored (FileStore shows the files to      *)
(* behave so).  Epochs are unsigned: they wrap at MaxEpoch + 1.            *)
(***************************************************************************)
EXTENDS Naturals, FiniteSets

CONSTANTS
    Parties,
    ConfiguredT,    \* Config.T as given
    MaxEpoch,       \* the largest value of an epoch
    NoSession,
    MaxSaveErrors, MaxDeaths    \* bounds

ASSUME EngineAssumption ==
    /\ ConfiguredT \in Nat /\ MaxEpoch \in Nat
    /\ MaxSaveErrors \in Nat /\ MaxDeaths \in Nat
    /\ IsFiniteSet(Parties)

VARIABLES
    sess,       \* e.sess[id]
    stored,     \* what SessionStore.Load returns
    keyShare,   \* a key share is stored
    at,         \* idle, key, session: what OnMessage does next
    saveErrors, deaths,
    since,      \* history: for every party whose ack counts, the epoch it had
    floor,      \* history: the epoch the last complaint led to
    finals,     \* history: OnMessage has returned true: never, once, more often
    lossy,      \* history: a save failed, the process died inside OnMessage, or
                \* a message came before Resume
    wrapped     \* history: a complaint has made the epoch wrap

engineVars == <<sess, stored, keyShare, at, saveErrors, deaths, since, floor,
                finals, lossy, wrapped>>

Epochs == 0..MaxEpoch
\* Proposals, commits and reveals are recorded and never read: "early" stands
\* for the three.
Votes == {"early", "ack"}
MessageTypes == Votes \cup {"complaint", "unknown"}
EngineSession ==
    [epoch : Epochs, votes : [Votes -> SUBSET Parties], done : BOOLEAN]

ASSUME NoSessionAssumption == NoSession \notin EngineSession

\* NewEngine
EngineThreshold == IF ConfiguredT <= 0 THEN 2 ELSE ConfiguredT

EngineTypeOK ==
    /\ sess = NoSession \/ sess \in EngineSession
    /\ stored = NoSession \/ stored \in EngineSession
    /\ keyShare \in BOOLEAN
    /\ at \in {"idle", "key", "session"}
    /\ saveErrors \in 0..MaxSaveErrors /\ deaths \in 0..MaxDeaths
    /\ since \in [Parties -> Epochs] /\ floor \in Epochs
    /\ finals \in 0..2 /\ lossy \in BOOLEAN /\ wrapped \in BOOLEAN

EngineInit ==
    /\ sess = NoSession /\ stored = NoSession /\ keyShare = FALSE
    /\ at = "idle" /\ saveErrors = 0 /\ deaths = 0
    /\ since = [p \in Parties |-> 0] /\ floor = 0
    /\ finals = 0 /\ lossy = FALSE /\ wrapped = FALSE

NewSession(e) == [epoch |-> e, votes |-> [v \in Votes |-> {}], done |-> FALSE]

\* The session a message finds; without one it begins at the message's epoch.
Found(e) == IF sess = NoSession THEN NewSession(e) ELSE sess

\* Faulty variant: a complaint leaves the votes.
AfterComplaintKeeps(s) == [s EXCEPT !.epoch = (@ + 1) % (MaxEpoch + 1)]

\* A complaint raises the epoch and clears the votes; done stays.
AfterComplaint(s) ==
    [s EXCEPT !.epoch = (@ + 1) % (MaxEpoch + 1),
              !.votes = [v \in Votes |-> {}]]

AfterVote(s, type, from) ==
    LET voted == [s EXCEPT !.votes[type] = @ \cup {from}]
    IN  IF type = "ack" /\ Cardinality(voted.votes["ack"]) >= EngineThreshold
        THEN [voted EXCEPT !.done = TRUE] ELSE voted

AfterMessage(s, type, from) ==
    CASE type = "complaint" -> AfterComplaint(s)
      [] type = "unknown" -> s
      [] OTHER -> AfterVote(s, type, from)

\* A message of a lower epoch is ignored, without a save.
InEpoch(s, e) == e >= s.epoch

Later(a, b) == IF a > b THEN a ELSE b

\* OnMessage up to its first save.  A session that is not in memory begins at
\* the message's epoch, so a message that is ignored changes nothing.
OnMessage(type, from, e) ==
    LET found == [Found(e) EXCEPT !.epoch = Later(@, e)]
        after == AfterMessage(found, type, from)
        final == after.done /\ ~ found.done
    IN  /\ at = "idle"
        /\ InEpoch(Found(e), e)
        /\ sess' = after
        /\ at' = IF final THEN "key" ELSE "session"
        /\ finals' = IF final /\ finals < 2 THEN finals + 1 ELSE finals
        /\ since' = IF type = "ack" THEN [since EXCEPT ![from] = e] ELSE since
        /\ floor' = IF type = "complaint" THEN after.epoch ELSE floor
        /\ lossy' = (lossy \/ (sess = NoSession /\ stored # NoSession))
        /\ wrapped' = (wrapped \/ (type = "complaint" /\ found.epoch = MaxEpoch))
        /\ UNCHANGED <<stored, keyShare, saveErrors, deaths>>

SaveError ==
    /\ saveErrors < MaxSaveErrors /\ saveErrors' = saveErrors + 1
    /\ lossy' = TRUE
    /\ UNCHANGED <<stored, keyShare>>

\* Faulty variant: the session is stored first.
SaveKeyShareLast ==
    /\ at = "key" /\ at' = "session"
    /\ stored' = sess
    /\ UNCHANGED <<sess, keyShare, saveErrors, deaths, since, floor, finals, lossy, wrapped>>

SaveKeyShare ==
    /\ at = "key" /\ at' = "session"
    /\ \/ keyShare' = TRUE /\ UNCHANGED <<stored, saveErrors, lossy>>
       \/ SaveError
    /\ UNCHANGED <<sess, deaths, since, floor, finals, wrapped>>

\* Faulty variant: a session that is stored is not written again.
SaveSessionFirst ==
    /\ at = "session" /\ at' = "idle"
    /\ stored' = IF stored = NoSession THEN sess ELSE stored
    /\ UNCHANGED <<sess, keyShare, saveErrors, deaths, since, floor, finals, lossy, wrapped>>

SaveSession ==
    /\ at = "session" /\ at' = "idle"
    /\ \/ stored' = sess /\ UNCHANGED <<keyShare, saveErrors, lossy>>
       \/ SaveError
    /\ UNCHANGED <<sess, deaths, since, floor, finals, wrapped>>

\* Faulty variant: done is not restored.
RestoredOpen(s) == [s EXCEPT !.done = FALSE]

\* restore undoes snapshot.
Restored(s) == s

Resume ==
    /\ at = "idle" /\ stored # NoSession
    /\ sess' = Restored(stored)
    /\ UNCHANGED <<stored, keyShare, at, saveErrors, deaths, since, floor, finals, lossy, wrapped>>

EngineDies ==
    /\ sess # NoSession
    /\ deaths < MaxDeaths /\ deaths' = deaths + 1
    /\ sess' = NoSession /\ at' = "idle"
    /\ lossy' = (lossy \/ at # "idle")
    /\ UNCHANGED <<stored, keyShare, saveErrors, since, floor, finals, wrapped>>

EngineNext ==
    \/ \E type \in MessageTypes, from \in Parties, e \in Epochs : OnMessage(type, from, e)
    \/ SaveKeyShare \/ SaveSession \/ Resume \/ EngineDies

EngineSpec == EngineInit /\ [][EngineNext]_engineVars

-----------------------------------------------------------------------------
(* Properties                                                              *)

\* Between messages the stored session is the one in memory, as long as no
\* save has failed: a restart that resumes loses at most the message whose
\* handling was cut short.
ResumeIsCurrent ==
    at = "idle" /\ sess # NoSession /\ saveErrors = 0 => stored = sess

\* A session is never stored as done before its key share is: a crash between
\* the two leaves a key share too many, not one too few.
DoneHasKeyShare ==
    stored # NoSession /\ saveErrors = 0 => (stored.done => keyShare)

\* A session is finalized once, complaints, repeated acks and restarts
\* included, unless a save failed, the process died inside OnMessage, or a
\* message reached the restarted engine before Resume and began it anew.
FinalizedOnce == finals = 2 => lossy

\* No vote outlives a complaint: every ack that counts came with an epoch no
\* lower than the one the last complaint led to.  (Acks of several epochs
\* above it do count together: a message with a higher epoch clears nothing.)
AcksSinceComplaint ==
    ~ lossy /\ sess # NoSession => \A p \in sess.votes["ack"] : since[p] >= floor

\* The epoch of a session never goes back, with Resume in the middle of its
\* life or after a restart, except where a complaint makes it wrap: what an
\* older epoch left behind is not taken up again.
EpochNeverBack ==
    [][sess # NoSession /\ sess' # NoSession /\ ~ lossy' /\ ~ wrapped'
         => sess'.epoch >= sess.epoch]_engineVars
=============================================================================
