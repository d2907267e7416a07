---------------------------- MODULE MappingSearch ----------------------------
(***************************************************************************)
(* The state machine that answers a request (fsm.hpp). One MappingSearch   *)
(* object serves one request after the other, so whatever a search leaves  *)
(* behind is there when the next one begins.                               *)
(*                                                                         *)
(* A state function ends in enter_transition(event), which calls the state *)
(* function of the next state: an action is one state function up to that  *)
(* call.                                                                   *)
(***************************************************************************)
EXTENDS SearchFunctions

CONSTANTS
    Clean,         \* MetadataCleaner::clean_artist on artist names
    DbFaults       \* whether a database call may throw

ASSUME MappingSearchAssumption ==
    /\ Clean \in [ArtistNames -> ArtistNames]
    /\ DbFaults \in BOOLEAN

VARIABLES
    db,                          \* what the data directory holds
    status,                      \* idle, running, or crashed
    query,                       \* the arguments of search()
    current_state,
    current_artist_credit_name,
    has_cleaned_artist,          \* set nowhere before its first use
    artist_matches, artist_match_index, selected_artist_credit_id,
    release_recording_index,     \* the artist whose index is held, or None
    recording_matches, recording_match_index, selected_recording_id,
    release_matches, release_match_index,
    search_match,
    answer                       \* what the last search() returned

artistVars    == <<artist_matches, artist_match_index, selected_artist_credit_id>>
recordingVars == <<recording_matches, recording_match_index, selected_recording_id>>
releaseVars   == <<release_matches, release_match_index>>
requestVars   == <<db, query>>
nameVars      == <<current_artist_credit_name, has_cleaned_artist>>
matchVars     == <<artistVars, recordingVars, releaseVars, release_recording_index>>

vars == <<requestVars, nameVars, matchVars, status, current_state,
          search_match, answer>>

Transitions ==
    { <<"start", "start", "artist_name_check">>,
      <<"artist_name_check", "stupid_name", "stupid_artist_search">>,
      <<"artist_name_check", "normal_name", "artist_search">>,
      <<"stupid_artist_search", "no_matches", "fail">>,
      <<"stupid_artist_search", "has_matches", "select_artist_match">>,
      <<"artist_search", "no_matches", "clean_artist_name">>,
      <<"artist_search", "has_matches", "select_artist_match">>,
      <<"clean_artist_name", "cleaned", "artist_name_check">>,
      <<"clean_artist_name", "not_cleaned", "fail">>,
      <<"select_artist_match", "meets_threshold", "recording_search">>,
      <<"select_artist_match", "doesnt_meet_threshold", "fail">>,
      <<"recording_search", "has_matches", "select_recording_match">>,
      <<"recording_search", "no_matches", "select_artist_match">>,
      <<"select_recording_match", "meets_threshold", "has_release_argument">>,
      <<"select_recording_match", "doesnt_meet_threshold", "select_artist_match">>,
      <<"has_release_argument", "yes", "release_search">>,
      <<"has_release_argument", "no", "lookup_canonical_release">>,
      <<"release_search", "has_matches", "evaluate_match">>,
      <<"release_search", "no_matches", "select_artist_match">>,
      <<"select_release_match", "meets_threshold", "evaluate_match">>,
      <<"select_release_match", "no_matches", "select_release_match">>,
      <<"lookup_canonical_release", "has_matches", "evaluate_match">>,
      <<"lookup_canonical_release", "no_matches", "fail">>,
      <<"evaluate_match", "meets_threshold", "success_fetch_metadata">>,
      <<"evaluate_match", "doesnt_meet_threshold", "select_recording_match">> }

States == {tr[1] : tr \in Transitions} \cup {tr[3] : tr \in Transitions}

Query == [artist : ArtistNames, release : ReleaseNames \cup {NoName},
          recording : RecordingNames]

TypeOK ==
    /\ db \in Databases
    /\ status \in {"idle", "running", "crashed"}
    /\ query \in Query \cup {None}
    /\ current_state \in States
    /\ current_artist_credit_name \in ArtistNames \cup {NoName}
    /\ has_cleaned_artist \in BOOLEAN
    /\ artist_matches \in Seq(Hit) \cup {None}
    /\ recording_matches \in Seq(Hit) \cup {None}
    /\ release_matches \in Seq(Hit) \cup {None}
    /\ artist_match_index \in Int
    /\ recording_match_index \in Int
    /\ release_match_index \in {-1, 0}
    /\ selected_artist_credit_id \in Nat
    /\ selected_recording_id \in Nat
    /\ release_recording_index \in ArtistIds \cup {None}
    /\ search_match \in Match \cup {None}
    /\ answer \in Match \cup {None}

Init ==
    /\ db \in Databases
    /\ status = "idle"
    /\ query = None
    /\ current_state = "start"
    /\ current_artist_credit_name = NoName
    /\ has_cleaned_artist \in BOOLEAN
    /\ artist_matches = None /\ artist_match_index = -1
    /\ selected_artist_credit_id = 0
    /\ release_recording_index = None
    /\ recording_matches = None /\ recording_match_index = -1
    /\ selected_recording_id = 0
    /\ release_matches = None /\ release_match_index = -1
    /\ search_match = None
    /\ answer = None

-----------------------------------------------------------------------------
(* The machine.                                                            *)

In(state) == status = "running" /\ current_state = state

\* The end of search(): the match goes to the caller.
Return(match) ==
    /\ status' = "idle"
    /\ answer' = match
    /\ search_match' = None

\* enter_transition; match is search_match at the call. Without a row for the
\* event the machine stops where it is and search() returns.
EnterWith(event, match) ==
    LET row == {tr \in Transitions : tr[1] = current_state /\ tr[2] = event}
    IN  IF row = {} THEN Return(match) /\ UNCHANGED current_state
        ELSE /\ \E tr \in row : current_state' = tr[3]
             /\ search_match' = match
             /\ UNCHANGED <<status, answer>>

Enter(event) == EnterWith(event, search_match)

\* A mutant of ResetStateVariables: the release that was found stays.
ResetButReleases ==
    /\ current_artist_credit_name' = NoName
    /\ artist_matches' = None /\ artist_match_index' = -1
    /\ selected_artist_credit_id' = 0
    /\ release_recording_index' = None
    /\ recording_matches' = None /\ recording_match_index' = -1
    /\ selected_recording_id' = 0
    /\ search_match' = None
    /\ UNCHANGED releaseVars

\* has_cleaned_artist is not among the variables that are reset.
ResetStateVariables ==
    /\ current_artist_credit_name' = NoName
    /\ artist_matches' = None /\ artist_match_index' = -1
    /\ selected_artist_credit_id' = 0
    /\ release_recording_index' = None
    /\ recording_matches' = None /\ recording_match_index' = -1
    /\ selected_recording_id' = 0
    /\ release_matches' = None /\ release_match_index' = -1
    /\ search_match' = None

\* search(); event_start leads to the artist name check.
Search(q) ==
    /\ status = "idle"
    /\ status' = "running"
    /\ query' = q
    /\ answer' = None
    /\ ResetStateVariables
    /\ current_state' = "artist_name_check"
    /\ UNCHANGED <<db, has_cleaned_artist>>

\* The artist name of the request is encoded again after it was cleaned.
DoArtistNameCheck ==
    /\ In("artist_name_check")
    /\ current_artist_credit_name' = query.artist
    /\ Enter(IF query.artist \in Encodable THEN "normal_name" ELSE "stupid_name")
    /\ UNCHANGED <<requestVars, has_cleaned_artist, matchVars>>

DoArtistSearch ==
    LET found == ArtistSearch(db, current_artist_credit_name)
    IN  /\ In("artist_search")
        /\ artist_matches' = IF found = <<>> THEN None ELSE found
        /\ Enter(IF found # <<>> THEN "has_matches"
                 ELSE IF has_cleaned_artist THEN "no_matches"
                 ELSE "no_matches_not_cleaned")
        /\ UNCHANGED <<requestVars, nameVars, recordingVars, releaseVars,
                       artist_match_index, selected_artist_credit_id,
                       release_recording_index>>

DoCleanArtistName ==
    /\ In("clean_artist_name")
    /\ IF Clean[query.artist] # query.artist
       THEN /\ current_artist_credit_name' = Clean[query.artist]
            /\ has_cleaned_artist' = TRUE
            /\ Enter("cleaned")
       ELSE UNCHANGED nameVars /\ Enter("not_cleaned")
    /\ UNCHANGED <<requestVars, matchVars>>

\* The results of the stupid artist index are not sorted.
DoStupidArtistSearch ==
    LET found == db.stupid[current_artist_credit_name]
    IN  /\ In("stupid_artist_search")
        /\ artist_match_index' = -1
        /\ artist_matches' = IF found = <<>> THEN None ELSE found
        /\ Enter(IF found = <<>> THEN "no_matches" ELSE "has_matches")
        /\ UNCHANGED <<requestVars, nameVars, recordingVars, releaseVars,
                       selected_artist_credit_id, release_recording_index>>

\* Mutants of Following: the best match is left out; the selection stays.
FollowingFromSecond(i) == IF i < 0 THEN 1 ELSE i + 1
NotFollowing(i) == IF i < 0 THEN 0 ELSE i

\* The elements of a match vector are counted from 0.
Elem(matches, i) == matches[i + 1]
Following(i) == IF i < 0 THEN 0 ELSE i + 1
MeetsThreshold(matches, i) ==
    i < Len(matches) /\ Elem(matches, i).confidence >= Threshold

\* A mutant of DoSelectArtistMatch: the index of the artist before is kept.
SelectArtistMatchKeepsIndex ==
    LET i == Following(artist_match_index)
    IN  /\ In("select_artist_match")
        /\ artist_match_index' = i
        /\ IF MeetsThreshold(artist_matches, i)
           THEN /\ selected_artist_credit_id' = Elem(artist_matches, i).id
                /\ recording_match_index' = -1
                /\ recording_matches' = None
                /\ Enter("meets_threshold")
           ELSE /\ UNCHANGED <<selected_artist_credit_id, recording_match_index,
                               recording_matches>>
                /\ Enter("doesnt_meet_threshold")
        /\ UNCHANGED <<requestVars, nameVars, releaseVars, artist_matches,
                       selected_recording_id, release_recording_index>>

DoSelectArtistMatch ==
    LET i == Following(artist_match_index)
    IN  /\ In("select_artist_match")
        /\ artist_match_index' = i
        /\ IF MeetsThreshold(artist_matches, i)
           THEN /\ selected_artist_credit_id' = Elem(artist_matches, i).id
                /\ recording_match_index' = -1
                /\ recording_matches' = None
                /\ release_recording_index' = None
                /\ Enter("meets_threshold")
           ELSE /\ UNCHANGED <<selected_artist_credit_id, recording_match_index,
                               recording_matches, release_recording_index>>
                /\ Enter("doesnt_meet_threshold")
        /\ UNCHANGED <<requestVars, nameVars, releaseVars, artist_matches,
                       selected_recording_id>>

\* The index held, or else what loading it may give.
Opened ==
    IF release_recording_index # None THEN {release_recording_index}
    ELSE {LoadIndex(db, selected_artist_credit_id)}
           \cup (IF DbFaults THEN {None} ELSE {})

HasMatches(matches) ==
    IF matches \in {None, <<>>} THEN "no_matches" ELSE "has_matches"

DoRecordingSearch ==
    /\ In("recording_search")
    /\ \E index \in Opened :
          /\ release_recording_index' = index
          /\ \/ /\ index = None
                /\ UNCHANGED recording_matches
                /\ Enter("no_matches")
             \/ /\ index # None
                /\ ~SearchesNullIndex(db, index, query.recording)
                /\ recording_matches' = RecordingSearch(db, index, query.recording)
                /\ Enter(HasMatches(recording_matches'))
    /\ UNCHANGED <<requestVars, nameVars, artistVars, releaseVars,
                   recording_match_index, selected_recording_id>>

\* The size of a null result is read.
RecordingSearchCrashes ==
    /\ In("recording_search")
    /\ \E index \in Opened \ {None} :
          SearchesNullIndex(db, index, query.recording)
    /\ status' = "crashed"
    /\ UNCHANGED <<requestVars, nameVars, matchVars, current_state,
                   search_match, answer>>

DoSelectRecordingMatch ==
    LET i == Following(recording_match_index)
    IN  /\ In("select_recording_match")
        /\ recording_match_index' = i
        /\ IF MeetsThreshold(recording_matches, i)
           THEN /\ selected_recording_id' = Elem(recording_matches, i).id
                /\ Enter("meets_threshold")
           ELSE UNCHANGED selected_recording_id /\ Enter("doesnt_meet_threshold")
        /\ UNCHANGED <<requestVars, nameVars, artistVars, releaseVars,
                       recording_matches, release_recording_index>>

DoHasReleaseArgument ==
    /\ In("has_release_argument")
    /\ Enter(IF query.release # NoName THEN "yes" ELSE "no")
    /\ UNCHANGED <<requestVars, nameVars, matchVars>>

\* A mutant of DoReleaseSearch: the next release is selected, not the first.
ReleaseSearchAdvances ==
    LET found == ReleaseSearch(db, release_recording_index, query.release)
    IN  /\ In("release_search")
        /\ release_matches' = found
        /\ release_match_index' = IF found \in {None, <<>>}
                                  THEN release_match_index
                                  ELSE Following(release_match_index)
        /\ Enter(HasMatches(found))
        /\ UNCHANGED <<requestVars, nameVars, artistVars, recordingVars,
                       release_recording_index>>

\* The recording search has just used the index: it is held and was built.
DoReleaseSearch ==
    LET found == ReleaseSearch(db, release_recording_index, query.release)
    IN  /\ In("release_search")
        /\ release_matches' = found
        /\ release_match_index' = IF found \in {None, <<>>}
                                  THEN release_match_index ELSE 0
        /\ Enter(HasMatches(found))
        /\ UNCHANGED <<requestVars, nameVars, artistVars, recordingVars,
                       release_recording_index>>

\* A database error and a missing row are the same to the caller.
DoLookupCanonicalRelease ==
    /\ In("lookup_canonical_release")
    /\ \/ /\ release_match_index = 0
          /\ UNCHANGED releaseVars
          /\ Enter("has_matches")
       \/ /\ release_match_index # 0
          /\ \E release \in
                {Canonical(db, selected_artist_credit_id, selected_recording_id)}
                  \cup (IF DbFaults THEN {None} ELSE {}) :
                IF release = None
                THEN /\ release_matches' = None
                     /\ UNCHANGED release_match_index
                     /\ Enter("no_matches")
                ELSE /\ release_matches' = CanonicalResult(release)
                     /\ release_match_index' = 0
                     /\ Enter("has_matches")
    /\ UNCHANGED <<requestVars, nameVars, artistVars, recordingVars,
                   release_recording_index>>

DoEvaluateMatch ==
    LET match == FindMatch(db, selected_artist_credit_id,
                           release_recording_index,
                           Elem(release_matches, release_match_index),
                           Elem(recording_matches, recording_match_index))
    IN  /\ In("evaluate_match")
        /\ EnterWith(IF match = None THEN "doesnt_meet_threshold"
                                     ELSE "meets_threshold", match)
        /\ UNCHANGED <<requestVars, nameVars, matchVars>>

DoFail ==
    /\ In("fail")
    /\ Return(search_match)
    /\ UNCHANGED <<requestVars, nameVars, matchVars, current_state>>

\* Whether the row was found or not, the match is returned.
DoSuccessFetchMetadata ==
    /\ In("success_fetch_metadata")
    /\ \E found \in {HasMetadata(db, search_match)}
                      \cup (IF DbFaults THEN {FALSE} ELSE {}) :
          Return([search_match EXCEPT !.metadata = found])
    /\ UNCHANGED <<requestVars, nameVars, matchVars, current_state>>

Step ==
    \/ DoArtistNameCheck \/ DoArtistSearch \/ DoCleanArtistName
    \/ DoStupidArtistSearch \/ DoSelectArtistMatch
    \/ DoRecordingSearch \/ RecordingSearchCrashes \/ DoSelectRecordingMatch
    \/ DoHasReleaseArgument \/ DoReleaseSearch \/ DoLookupCanonicalRelease
    \/ DoEvaluateMatch \/ DoFail \/ DoSuccessFetchMetadata

Next == (\E q \in Query : Search(q)) \/ Step

Spec == Init /\ [][Next]_vars

\* A search that runs goes on; requests need not come.
FairSpec == Spec /\ WF_vars(Step)

-----------------------------------------------------------------------------
(* Properties.                                                             *)

\* What a state function dereferences is there: the match vectors that a
\* selection walks, and the index, the release and the recording that the
\* evaluation relates, the index being that of the selected artist.
EvaluateReady ==
    /\ In("select_artist_match") => artist_matches # None
    /\ In("select_recording_match") => recording_matches # None
    /\ In("release_search") => release_recording_index # None
    /\ In("evaluate_match") =>
          /\ release_recording_index = selected_artist_credit_id
          /\ release_matches # None
          /\ release_match_index \in 0..(Len(release_matches) - 1)
          /\ recording_matches # None
          /\ recording_match_index \in 0..(Len(recording_matches) - 1)

\* Without a release in the request the release evaluated is the canonical one
\* of the recording selected, never that of a recording tried before, although
\* it is looked up only once.
CanonicalFresh ==
    In("evaluate_match") /\ query.release = NoName =>
       Elem(release_matches, release_match_index).id
          = Canonical(db, selected_artist_credit_id, selected_recording_id)

\* An answer is a row of the mapping that belongs to the artist answered.
AnswerGenuine ==
    answer # None => \E r \in db.mapping :
       /\ r.release_id = answer.release_id
       /\ r.recording_id = answer.recording_id
       /\ answer.artist_credit_id \in {r.artist_credit_id,
                                       r.release_artist_credit_id}

\* Every search ends, if the artist name was not marked as cleaned before.
SearchTerminates ==
    (status = "running" /\ ~has_cleaned_artist) ~> (status # "running")

\* The machine stops in a final state and not for want of a transition.
EndsInFinalState ==
    [][status = "running" /\ status' = "idle"
         => current_state \in {"fail", "success_fetch_metadata"}]_vars

\* No search takes the server down.
NoCrash == status # "crashed"
=============================================================================
