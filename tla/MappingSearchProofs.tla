------------------------- MODULE MappingSearchProofs -------------------------
(***************************************************************************)
(* The state machine never evaluates what is not there, for every data     *)
(* directory and every sequence of requests. If the indexes are those the  *)
(* builder makes, its answers are rows of the mapping and the canonical    *)
(* release it evaluates is that of the recording selected. It implements   *)
(* MappingLookup.                                                          *)
(***************************************************************************)
EXTENDS MappingSearchFaults, DataLemmas

(* The search functions: what sorting by confidence returns, and that a    *)
(* link found is one of the index searched.                                *)

\* Sorting by confidence returns the same hits, each of them, in descending
\* order: none is lost and none is made up, whatever ties there are.
THEOREM SortCorrect ==
  ASSUME NEW s \in Seq(Hit)
  PROVE  LET t == SortByConfidence(s)
         IN  /\ t \in Seq(Hit)
             /\ Len(t) = Len(s)
             /\ \A k \in DOMAIN t : \E i \in DOMAIN s : t[k] = s[i]
             /\ \A i \in DOMAIN s : \E k \in DOMAIN t : t[k] = s[i]
             /\ \A k, l \in DOMAIN t : k < l => t[k].confidence >= t[l].confidence
<1> DEFINE t   == SortByConfidence(s)
           key == [i \in 1..Len(s) |-> -s[i].confidence]
<1>1. /\ DOMAIN s = 1..Len(s) /\ Len(s) \in Nat
      /\ \A k \in 1..Len(s) : s[k] \in Hit /\ s[k].confidence \in Nat
  <2>1. /\ DOMAIN s = 1..Len(s) /\ Len(s) \in Nat
        /\ \A k \in 1..Len(s) : s[k] \in Hit
    OBVIOUS
  <2> QED
    BY <2>1 DEF Hit
<1>2. key \in [1..Len(s) -> Int]
  BY <1>1
<1>3. t = SortBy(s, key)
  BY DEF SortByConfidence
<1> HIDE DEF t, key
<1>4. PICK at \in [1..Len(s) -> 1..Len(s)] :
          /\ SortBy(s, key) = [k \in 1..Len(s) |-> s[at[k]]]
          /\ \A i \in 1..Len(s) : \E k \in 1..Len(s) : at[k] = i
          /\ \A k, l \in 1..Len(s) : k < l => key[at[k]] <= key[at[l]]
  BY <1>2, SortByCorrect
<1>5. t = [k \in 1..Len(s) |-> s[at[k]]] /\ DOMAIN t = 1..Len(s)
  BY <1>3, <1>4
<1>6. t \in Seq(Hit) /\ Len(t) = Len(s)
  BY <1>1, <1>5
<1>7. /\ \A k \in DOMAIN t : \E i \in DOMAIN s : t[k] = s[i]
      /\ \A i \in DOMAIN s : \E k \in DOMAIN t : t[k] = s[i]
  BY <1>1, <1>4, <1>5
<1>8. ASSUME NEW k \in 1..Len(s), NEW l \in 1..Len(s), k < l
      PROVE  t[k].confidence >= t[l].confidence
  <2>1. key[at[k]] <= key[at[l]]
    BY <1>4, <1>8
  <2>2. -s[at[k]].confidence <= -s[at[l]].confidence
    BY <2>1 DEF key
  <2>3. s[at[k]].confidence \in Nat /\ s[at[l]].confidence \in Nat
    BY <1>1
  <2>4. t[k] = s[at[k]] /\ t[l] = s[at[l]]
    BY <1>5
  <2> QED
    BY <2>2, <2>3, <2>4
<1> QED
  BY <1>5, <1>6, <1>7, <1>8 DEF t

-----------------------------------------------------------------------------
(* The types of what the search functions return.                          *)

\* An artist search returns hits that are artists, each index of its own too.
LEMMA ArtistSearchType ==
  ASSUME NEW d \in Databases, NEW name \in ArtistNames
  PROVE  /\ ArtistSearch(d, name) \in Seq(Hit)
         /\ \A i \in DOMAIN ArtistSearch(d, name) :
               ArtistSearch(d, name)[i].id \in ArtistIds
         /\ d.stupid[name] \in Seq(Hit)
         /\ \A i \in DOMAIN d.stupid[name] : d.stupid[name][i].id \in ArtistIds
<1> DEFINE s == d.single[name]
           m == d.multiple[name]
           all == s \o m
<1>1. s \in Seq(Hit) /\ m \in Seq(Hit) /\ d.stupid[name] \in Seq(Hit)
  BY SearchFunctionsAssumption DEF Database
<1>2. /\ \A i \in DOMAIN s : s[i].id \in ArtistIds
      /\ \A i \in DOMAIN m : m[i].id \in ArtistIds
      /\ \A i \in DOMAIN d.stupid[name] : d.stupid[name][i].id \in ArtistIds
  BY SearchFunctionsAssumption
<1> HIDE DEF s, m
<1>3. all \in Seq(Hit) /\ \A i \in DOMAIN all : all[i].id \in ArtistIds
  BY <1>1, <1>2
<1>4. ArtistSearch(d, name) = SortByConfidence(all)
  BY DEF ArtistSearch, s, m
<1> HIDE DEF all
<1>5. /\ SortByConfidence(all) \in Seq(Hit)
      /\ \A k \in DOMAIN SortByConfidence(all) :
            \E i \in DOMAIN all : SortByConfidence(all)[k] = all[i]
  BY <1>3, SortCorrect
<1>6. \A k \in DOMAIN SortByConfidence(all) :
         SortByConfidence(all)[k].id \in ArtistIds
  BY <1>3, <1>5
<1> QED
  BY <1>1, <1>2, <1>4, <1>5, <1>6 DEF s, m

\* A search of an artist's index returns its hits, or nothing.
LEMMA IndexSearchType ==
  ASSUME NEW d \in Databases, NEW a \in ArtistIds, d.blobs[a] # None
  PROVE  /\ d.blobs[a] \in Blob
         /\ \A n \in RecordingNames :
               /\ RecordingSearch(d, a, n) \in Seq(Hit) \cup {None}
               /\ RecordingSearch(d, a, n) # None =>
                     \A k \in DOMAIN RecordingSearch(d, a, n) :
                        \E i \in DOMAIN d.blobs[a].recordings[n] :
                           RecordingSearch(d, a, n)[k]
                             = d.blobs[a].recordings[n][i]
         /\ \A n \in ReleaseNames :
               ReleaseSearch(d, a, n) \in Seq(Hit) \cup {None}
<1>1. d.blobs[a] \in Blob
  BY SearchFunctionsAssumption DEF Database
<1>2. /\ \A n \in RecordingNames : d.blobs[a].recordings[n] \in Seq(Hit)
      /\ \A n \in ReleaseNames : d.blobs[a].releases[n] \in Seq(Hit)
  BY <1>1 DEF Blob
<1>3. \A s \in Seq(Hit) :
         /\ SortByConfidence(s) \in Seq(Hit)
         /\ \A k \in DOMAIN SortByConfidence(s) :
               \E i \in DOMAIN s : SortByConfidence(s)[k] = s[i]
  BY SortCorrect
<1> QED
  BY <1>1, <1>2, <1>3 DEF RecordingSearch, ReleaseSearch

\* A canonical release is a release and makes a result of one hit.
LEMMA CanonicalType ==
  ASSUME NEW d \in Databases, NEW a, NEW recording
  PROVE  /\ Canonical(d, a, recording) \in ReleaseIds \cup {None}
         /\ Canonical(d, a, recording) # None =>
               CanonicalResult(Canonical(d, a, recording)) \in Seq(Hit)
<1>1. d.mapping \subseteq Row
  BY SearchFunctionsAssumption DEF Database
<1>2. Canonical(d, a, recording) \in ReleaseIds \cup {None}
  BY <1>1 DEF Canonical, Row
<1>3. ASSUME NEW release \in ReleaseIds
      PROVE  CanonicalResult(release) \in Seq(Hit)
  <2>1. release \in Nat
    BY SearchFunctionsAssumption
  <2>2. [id |-> release, result_index |-> 0, confidence |-> 100,
         source |-> "r"] \in Hit
    BY <2>1 DEF Hit
  <2> QED
    BY <2>2 DEF CanonicalResult
<1> QED
  BY <1>2, <1>3

\* A recording that has a candidate link is matched, and the match is about
\* the artist asked for, with the release and the recording of that link.
LEMMA FindMatchFound ==
  ASSUME NEW d \in Databases, NEW a \in ArtistIds, NEW index \in ArtistIds,
         d.blobs[index] # None, NEW rel, NEW rec \in Hit,
         rec.result_index \in DOMAIN d.blobs[index].links,
         Linked(d.blobs[index].links[rec.result_index], rel) # {}
  PROVE  LET m  == FindMatch(d, a, index, rel, rec)
             ls == d.blobs[index].links[rec.result_index]
         IN  /\ m \in Match /\ m # None
             /\ m.artist_credit_id = a
             /\ \E i \in DOMAIN ls : /\ m.release_id = ls[i].release_id
                                    /\ m.recording_id = ls[i].recording_id
<1> DEFINE m     == FindMatch(d, a, index, rel, rec)
           links == d.blobs[index].links
           ls    == links[rec.result_index]
           at    == CHOOSE i \in Linked(ls, rel) : TRUE
<1>1. links \in Seq(Seq(ReleaseRecordingLink))
  BY SearchFunctionsAssumption DEF Database, Blob
<1>2. at \in DOMAIN ls
  BY DEF Linked, LowerBound
<1>3. ls[at] \in ReleaseRecordingLink
  <2>1. ls \in Seq(ReleaseRecordingLink)
    BY <1>1
  <2> HIDE DEF ls, at
  <2> QED
    BY <2>1, <1>2
<1>4. m = [artist_credit_id |-> a, release_id |-> ls[at].release_id,
           recording_id |-> ls[at].recording_id, metadata |-> FALSE]
  BY Zenon DEF FindMatch
<1> HIDE DEF at
<1>5. m \in Match
  <2>1. ls[at].release_id \in ReleaseIds /\ ls[at].recording_id \in RecordingIds
    BY <1>3 DEF ReleaseRecordingLink
  <2>2. [artist_credit_id |-> a, release_id |-> ls[at].release_id,
         recording_id |-> ls[at].recording_id, metadata |-> FALSE] \in Match
    BY <2>1, Zenon DEF Match
  <2> QED
    BY <2>2, <1>4
<1> HIDE DEF m
<1>6. /\ m.artist_credit_id = a
      /\ m.release_id = ls[at].release_id
      /\ m.recording_id = ls[at].recording_id
  BY <1>4
<1>7. m # None
  BY <1>5, SearchFunctionsAssumption
<1> QED
  BY <1>2, <1>5, <1>6, <1>7 DEF m

\* Every match is such a one.
LEMMA FindMatchLinked ==
  ASSUME NEW d \in Databases, NEW a \in ArtistIds, NEW index \in ArtistIds,
         d.blobs[index] # None, NEW rel, NEW rec \in Hit
  PROVE  LET m     == FindMatch(d, a, index, rel, rec)
             links == d.blobs[index].links
             ls    == links[rec.result_index]
         IN  m # None =>
               /\ m \in Match
               /\ m.artist_credit_id = a
               /\ rec.result_index \in DOMAIN links
               /\ \E i \in DOMAIN ls : /\ m.release_id = ls[i].release_id
                                      /\ m.recording_id = ls[i].recording_id
<1> SUFFICES ASSUME FindMatch(d, a, index, rel, rec) # None
             PROVE  /\ rec.result_index \in DOMAIN d.blobs[index].links
                    /\ Linked(d.blobs[index].links[rec.result_index], rel) # {}
  BY FindMatchFound
<1> QED
  BY DEF FindMatch

-----------------------------------------------------------------------------
(* What is ready in each state.                                            *)

\* The states in which an artist, its recordings, one of them are selected.
AtRecording  == {"has_release_argument", "release_search",
                 "lookup_canonical_release", "evaluate_match"}
AtRecordings == {"select_recording_match"} \cup AtRecording
AtArtist     == {"recording_search"} \cup AtRecordings
AtArtists    == {"select_artist_match"} \cup AtArtist

Running(states) == status = "running" /\ current_state \in states

NameReady == Running({"artist_search", "stupid_artist_search"}) =>
                current_artist_credit_name \in ArtistNames

ArtistsReady ==
    /\ Running(AtArtists) => artist_matches # None
    /\ artist_matches # None =>
          \A i \in DOMAIN artist_matches : artist_matches[i].id \in ArtistIds
    /\ artist_match_index \in Nat \cup {-1}
    /\ Running(AtArtist) => selected_artist_credit_id \in ArtistIds

\* The index held is always that of the artist selected.
IndexReady ==
    /\ release_recording_index # None =>
          /\ release_recording_index = selected_artist_credit_id
          /\ db.blobs[release_recording_index] # None
    /\ Running(AtRecordings) => release_recording_index # None

RecordingsReady ==
    /\ recording_match_index \in Nat \cup {-1}
    /\ Running(AtRecordings) =>
          /\ recording_matches # None
          /\ recording_matches = RecordingSearch(db, release_recording_index,
                                                 query.recording)
    /\ Running(AtRecording) =>
          /\ recording_match_index \in 0..(Len(recording_matches) - 1)
          /\ selected_recording_id
                = Elem(recording_matches, recording_match_index).id

ReleaseReady ==
    /\ Running({"release_search"}) => query.release # NoName
    /\ Running({"lookup_canonical_release"}) => query.release = NoName
    /\ status = "running" /\ query.release = NoName /\ release_match_index = 0
          => release_matches \notin {None, <<>>}
    /\ Running({"evaluate_match"}) => /\ release_match_index = 0
                                      /\ release_matches \notin {None, <<>>}

MatchReady == Running({"success_fetch_metadata"}) => search_match # None

MachineInv ==
    /\ TypeOK
    /\ status = "running" => query \in Query
    /\ NameReady
    /\ ArtistsReady
    /\ IndexReady
    /\ RecordingsReady
    /\ ReleaseReady
    /\ MatchReady

-----------------------------------------------------------------------------
\* The table of transitions has one row for a state and an event.
LEMMA Deterministic ==
  \A t, u \in Transitions : t[1] = u[1] /\ t[2] = u[2] => t[3] = u[3]
BY DEF Transitions

\* A transition takes search_match along and search() goes on.
Goes(match) == search_match' = match /\ UNCHANGED <<status, answer>>

\* Entering an event that has a row in the table leads where the row says.
LEMMA EnterRow ==
  ASSUME NEW event, NEW match, NEW to,
         <<current_state, event, to>> \in Transitions, EnterWith(event, match)
  PROVE  /\ current_state' = to
         /\ search_match' = match
         /\ UNCHANGED <<status, answer>>
<1> DEFINE row == {tr \in Transitions : tr[1] = current_state /\ tr[2] = event}
<1>1. <<current_state, event, to>> \in row
  OBVIOUS
<1>2. /\ \E tr \in row : current_state' = tr[3]
      /\ search_match' = match
      /\ UNCHANGED <<status, answer>>
  BY <1>1 DEF EnterWith
<1>3. \A tr \in row : tr[3] = to
  BY Deterministic
<1> QED
  BY <1>2, <1>3

\* The same, spelt out for the states that enter an event.
LEMMA EnterTable ==
  ASSUME NEW event, NEW match, EnterWith(event, match)
  PROVE  LET Leads(from, on, to) ==
               current_state = from /\ event = on =>
                  current_state' = to /\ Goes(match)
         IN  /\ Leads("artist_name_check", "stupid_name",
                      "stupid_artist_search")
             /\ Leads("artist_name_check", "normal_name", "artist_search")
             /\ Leads("stupid_artist_search", "no_matches", "fail")
             /\ Leads("stupid_artist_search", "has_matches",
                      "select_artist_match")
             /\ Leads("artist_search", "no_matches", "clean_artist_name")
             /\ Leads("artist_search", "has_matches", "select_artist_match")
             /\ Leads("clean_artist_name", "cleaned", "artist_name_check")
             /\ Leads("clean_artist_name", "not_cleaned", "fail")
             /\ Leads("select_artist_match", "meets_threshold",
                      "recording_search")
             /\ Leads("select_artist_match", "doesnt_meet_threshold", "fail")
             /\ Leads("recording_search", "has_matches",
                      "select_recording_match")
             /\ Leads("recording_search", "no_matches", "select_artist_match")
             /\ Leads("select_recording_match", "meets_threshold",
                      "has_release_argument")
             /\ Leads("select_recording_match", "doesnt_meet_threshold",
                      "select_artist_match")
             /\ Leads("has_release_argument", "yes", "release_search")
             /\ Leads("has_release_argument", "no", "lookup_canonical_release")
             /\ Leads("release_search", "has_matches", "evaluate_match")
             /\ Leads("release_search", "no_matches", "select_artist_match")
             /\ Leads("lookup_canonical_release", "has_matches",
                      "evaluate_match")
             /\ Leads("lookup_canonical_release", "no_matches", "fail")
             /\ Leads("evaluate_match", "meets_threshold",
                      "success_fetch_metadata")
             /\ Leads("evaluate_match", "doesnt_meet_threshold",
                      "select_recording_match")
<1>1. ASSUME NEW tr \in Transitions, current_state = tr[1], event = tr[2]
      PROVE  current_state' = tr[3] /\ Goes(match)
  <2>1. <<current_state, event, tr[3]>> \in Transitions
    BY <1>1 DEF Transitions
  <2> QED
    BY <2>1, EnterRow DEF Goes
<1>2. ASSUME NEW from, NEW on, NEW to, <<from, on, to>> \in Transitions,
             current_state = from, event = on
      PROVE  current_state' = to /\ Goes(match)
  BY <1>1, <1>2
<1> QED
  BY <1>2 DEF Transitions

-----------------------------------------------------------------------------
(* Each action preserves the invariant.                                    *)

\* The object as constructed is ready.
LEMMA InitMachine == Init => MachineInv
BY SearchFunctionsAssumption
   DEF Init, MachineInv, TypeOK, NameReady, ArtistsReady, IndexReady,
       RecordingsReady, ReleaseReady, MatchReady, Running, States, Transitions

\* search() resets what the search before it left.
LEMMA SearchMachine ==
  ASSUME MachineInv, NEW q \in Query, Search(q)
  PROVE  MachineInv'
<1>1. TypeOK'
  BY SearchFunctionsAssumption
     DEF Search, ResetStateVariables, MachineInv, TypeOK, States, Transitions
<1>2. /\ status' = "running" => query' \in Query
      /\ NameReady' /\ ArtistsReady' /\ IndexReady'
      /\ RecordingsReady' /\ ReleaseReady' /\ MatchReady'
  BY DEF Search, ResetStateVariables, NameReady, ArtistsReady, IndexReady,
         RecordingsReady, ReleaseReady, MatchReady, Running, AtRecording,
         AtRecordings, AtArtist, AtArtists
<1> QED
  BY <1>1, <1>2 DEF MachineInv

\* do_artist_name_check takes the name of the request.
LEMMA NameCheckMachine ==
  ASSUME MachineInv, DoArtistNameCheck
  PROVE  MachineInv'
<1>1. /\ current_state' \in {"stupid_artist_search", "artist_search"}
      /\ UNCHANGED <<status, answer, search_match>>
  BY EnterTable DEF DoArtistNameCheck, In, Enter, Goes
<1>2. TypeOK'
  BY <1>1 DEF DoArtistNameCheck, In, MachineInv, TypeOK, States, Transitions,
              Query, requestVars, matchVars, artistVars, recordingVars,
              releaseVars
<1>3. /\ status' = "running" => query' \in Query
      /\ NameReady' /\ ArtistsReady' /\ IndexReady'
      /\ RecordingsReady' /\ ReleaseReady' /\ MatchReady'
  BY <1>1
     DEF DoArtistNameCheck, In, MachineInv, Query, NameReady, ArtistsReady,
         IndexReady, RecordingsReady, ReleaseReady, MatchReady, Running,
         AtRecording, AtRecordings, AtArtist, AtArtists, requestVars,
         matchVars, artistVars, recordingVars, releaseVars
<1> QED
  BY <1>2, <1>3 DEF MachineInv

\* do_artist_search leaves hits to select from, or ends the search.
LEMMA ArtistSearchMachine ==
  ASSUME MachineInv, DoArtistSearch
  PROVE  MachineInv'
<1>1. /\ ArtistSearch(db, current_artist_credit_name) \in Seq(Hit)
      /\ \A i \in DOMAIN ArtistSearch(db, current_artist_credit_name) :
            ArtistSearch(db, current_artist_credit_name)[i].id \in ArtistIds
  BY ArtistSearchType
     DEF DoArtistSearch, In, MachineInv, TypeOK, NameReady, Running
<1>2. \/ /\ artist_matches' # None /\ current_state' = "select_artist_match"
         /\ UNCHANGED <<status, answer, search_match>>
      \/ /\ current_state' = "clean_artist_name"
         /\ UNCHANGED <<status, answer, search_match>>
      \/ /\ status' = "idle" /\ UNCHANGED current_state
         /\ search_match' = None /\ answer' = search_match
  <2> DEFINE found == ArtistSearch(db, current_artist_credit_name)
  <2>1. CASE found # <<>>
    <3>1. Enter("has_matches") /\ artist_matches' = found
      BY <2>1 DEF DoArtistSearch
    <3>2. current_state = "artist_search"
      BY DEF DoArtistSearch, In
    <3> QED
      BY <1>1, <3>1, <3>2, EnterTable, SearchFunctionsAssumption
         DEF Enter, Goes
  <2>2. CASE found = <<>> /\ has_cleaned_artist
    BY <2>2, EnterTable DEF DoArtistSearch, In, Enter, Goes
  <2>3. CASE found = <<>> /\ ~has_cleaned_artist
    BY <2>3 DEF DoArtistSearch, In, Enter, EnterWith, Return, Transitions
  <2> QED
    BY <2>1, <2>2, <2>3
<1>3. TypeOK'
  BY <1>1, <1>2, SearchFunctionsAssumption
     DEF DoArtistSearch, In, MachineInv, TypeOK, States, Transitions, Query,
         requestVars, nameVars, matchVars, artistVars, recordingVars,
         releaseVars
<1>4. /\ status' = "running" => query' \in Query
      /\ NameReady' /\ ArtistsReady' /\ IndexReady'
      /\ RecordingsReady' /\ ReleaseReady' /\ MatchReady'
  BY <1>1, <1>2 DEF DoArtistSearch, In, MachineInv, NameReady, ArtistsReady,
         IndexReady, RecordingsReady, ReleaseReady, MatchReady, Running,
         AtRecording, AtRecordings, AtArtist, AtArtists, requestVars, nameVars,
         matchVars, artistVars, recordingVars, releaseVars
<1> QED
  BY <1>3, <1>4 DEF MachineInv

\* do_clean_artist_name stores a name of an artist, or fails.
LEMMA CleanMachine ==
  ASSUME MachineInv, DoCleanArtistName
  PROVE  MachineInv'
<1>1. /\ current_state' \in {"artist_name_check", "fail"}
      /\ UNCHANGED <<status, answer, search_match>>
  BY EnterTable DEF DoCleanArtistName, In, Enter, Goes
<1>2. current_artist_credit_name' \in ArtistNames \cup {NoName}
      /\ has_cleaned_artist' \in BOOLEAN
  BY MappingSearchAssumption
     DEF DoCleanArtistName, In, MachineInv, TypeOK, nameVars, Query
<1>3. TypeOK'
  BY <1>1, <1>2
     DEF DoCleanArtistName, In, MachineInv, TypeOK, States, Transitions, Query,
         requestVars, nameVars, matchVars, artistVars, recordingVars,
         releaseVars
<1>4. /\ status' = "running" => query' \in Query
      /\ NameReady' /\ ArtistsReady' /\ IndexReady'
      /\ RecordingsReady' /\ ReleaseReady' /\ MatchReady'
  BY <1>1, <1>2 DEF DoCleanArtistName, In, MachineInv, NameReady, ArtistsReady,
         IndexReady, RecordingsReady, ReleaseReady, MatchReady, Running,
         AtRecording, AtRecordings, AtArtist, AtArtists, requestVars, nameVars,
         matchVars, artistVars, recordingVars, releaseVars
<1> QED
  BY <1>3, <1>4 DEF MachineInv

\* do_stupid_artist_search leaves hits to select from, or fails.
LEMMA StupidSearchMachine ==
  ASSUME MachineInv, DoStupidArtistSearch
  PROVE  MachineInv'
<1>1. /\ db.stupid[current_artist_credit_name] \in Seq(Hit)
      /\ \A i \in DOMAIN db.stupid[current_artist_credit_name] :
            db.stupid[current_artist_credit_name][i].id \in ArtistIds
  BY ArtistSearchType
     DEF DoStupidArtistSearch, In, MachineInv, TypeOK, NameReady, Running
<1>2. /\ \/ current_state' = "fail"
         \/ artist_matches' # None /\ current_state' = "select_artist_match"
      /\ UNCHANGED <<status, answer, search_match>>
  BY <1>1, EnterTable, SearchFunctionsAssumption
     DEF DoStupidArtistSearch, In, Enter, Goes
<1>3. TypeOK'
  BY <1>1, <1>2, SearchFunctionsAssumption
     DEF DoStupidArtistSearch, In, MachineInv, TypeOK, States, Transitions,
         Query, requestVars, nameVars, matchVars, artistVars, recordingVars,
         releaseVars
<1>4. /\ status' = "running" => query' \in Query
      /\ NameReady' /\ ArtistsReady' /\ IndexReady'
      /\ RecordingsReady' /\ ReleaseReady' /\ MatchReady'
  BY <1>1, <1>2
     DEF DoStupidArtistSearch, In, MachineInv, NameReady, ArtistsReady,
         IndexReady, RecordingsReady, ReleaseReady, MatchReady, Running,
         AtRecording, AtRecordings, AtArtist, AtArtists, requestVars, nameVars,
         matchVars, artistVars, recordingVars, releaseVars
<1> QED
  BY <1>3, <1>4 DEF MachineInv

\* do_select_artist_match lets go of the index of the artist before.
LEMMA SelectArtistMachine ==
  ASSUME MachineInv, DoSelectArtistMatch
  PROVE  MachineInv'
<1>1. /\ artist_matches \in Seq(Hit)
      /\ \A i \in DOMAIN artist_matches : artist_matches[i].id \in ArtistIds
      /\ artist_match_index \in Nat \cup {-1}
  BY DEF DoSelectArtistMatch, In, MachineInv, TypeOK, ArtistsReady, Running,
         AtArtists
<1>2. /\ artist_match_index' \in Nat
      /\ \/ /\ current_state' = "fail"
            /\ UNCHANGED selected_artist_credit_id
         \/ /\ current_state' = "recording_search"
            /\ selected_artist_credit_id' \in ArtistIds
      /\ UNCHANGED <<status, answer, search_match>>
  BY <1>1, EnterTable
     DEF DoSelectArtistMatch, In, Enter, Goes, Following,
         MeetsThreshold, Elem
<1>3. /\ selected_artist_credit_id' \in Nat
      /\ recording_match_index' \in Int
      /\ recording_matches' \in {recording_matches, None}
      /\ release_recording_index' \in {release_recording_index, None}
  <2> DEFINE i == Following(artist_match_index)
  <2>1. CASE MeetsThreshold(artist_matches, i)
    <3>1. /\ selected_artist_credit_id' = Elem(artist_matches, i).id
          /\ recording_match_index' = -1
          /\ recording_matches' = None
          /\ release_recording_index' = None
      BY <2>1 DEF DoSelectArtistMatch
    <3>2. selected_artist_credit_id \in Nat /\ ArtistIds \subseteq Nat
      BY SearchFunctionsAssumption DEF MachineInv, TypeOK
    <3>3. selected_artist_credit_id' \in Nat
      BY <1>2, <3>2
    <3> QED
      BY <3>1, <3>3
  <2>2. CASE ~MeetsThreshold(artist_matches, i)
    BY <2>2, <1>2, SearchFunctionsAssumption
       DEF DoSelectArtistMatch, MachineInv, TypeOK
  <2> QED
    BY <2>1, <2>2
<1>4. TypeOK'
  BY <1>1, <1>2, <1>3
     DEF DoSelectArtistMatch, In, MachineInv, TypeOK, States, Transitions,
         Query, requestVars, nameVars, matchVars, artistVars, recordingVars,
         releaseVars
<1>5. /\ status' = "running" => query' \in Query
      /\ NameReady' /\ ArtistsReady' /\ IndexReady'
      /\ RecordingsReady' /\ ReleaseReady' /\ MatchReady'
  BY <1>1, <1>2, <1>3
     DEF DoSelectArtistMatch, In, MachineInv, NameReady, ArtistsReady,
         IndexReady, RecordingsReady, ReleaseReady, MatchReady, Running,
         AtRecording, AtRecordings, AtArtist, AtArtists, requestVars, nameVars,
         matchVars, artistVars, recordingVars, releaseVars
<1> QED
  BY <1>4, <1>5 DEF MachineInv

\* do_recording_search selects from the index of the artist selected.
LEMMA RecordingSearchMachine ==
  ASSUME MachineInv, DoRecordingSearch
  PROVE  MachineInv'
<1>1. selected_artist_credit_id \in ArtistIds
      /\ query.recording \in RecordingNames /\ query \in Query
  BY DEF DoRecordingSearch, In, MachineInv, ArtistsReady, Running,
         AtArtist, Query
<1>2. PICK index \in Opened :
         /\ release_recording_index' = index
         /\ \/ index = None /\ UNCHANGED recording_matches /\ Enter("no_matches")
            \/ /\ index # None
               /\ recording_matches' = RecordingSearch(db, index, query.recording)
               /\ Enter(HasMatches(recording_matches'))
  BY DEF DoRecordingSearch
<1>3. index # None => /\ index = selected_artist_credit_id
                          /\ db.blobs[index] # None
                          /\ index \in ArtistIds
  BY <1>1 DEF Opened, LoadIndex, MachineInv, IndexReady
<1>4. recording_matches' \in Seq(Hit) \cup {None}
  BY <1>1, <1>2, <1>3, IndexSearchType DEF MachineInv, TypeOK
<1>5. /\ \/ current_state' = "select_artist_match"
         \/ /\ current_state' = "select_recording_match"
            /\ index # None /\ recording_matches' # None
            /\ recording_matches' = RecordingSearch(db, index, query.recording)
      /\ UNCHANGED <<status, answer, search_match>>
  BY <1>2, EnterTable DEF DoRecordingSearch, In, Enter, Goes, HasMatches
<1>6. TypeOK'
  BY <1>1, <1>2, <1>3, <1>4, <1>5
     DEF DoRecordingSearch, In, MachineInv, TypeOK, States, Transitions, Query,
         requestVars, nameVars, matchVars, artistVars, recordingVars,
         releaseVars
<1>7. /\ status' = "running" => query' \in Query
      /\ NameReady' /\ ArtistsReady' /\ IndexReady'
      /\ RecordingsReady' /\ ReleaseReady' /\ MatchReady'
  BY <1>1, <1>2, <1>3, <1>4, <1>5
     DEF DoRecordingSearch, In, MachineInv, NameReady, ArtistsReady,
         IndexReady, RecordingsReady, ReleaseReady, MatchReady, Running,
         AtRecording, AtRecordings, AtArtist, AtArtists, requestVars, nameVars,
         matchVars, artistVars, recordingVars, releaseVars
<1> QED
  BY <1>6, <1>7 DEF MachineInv

\* After a crash nothing is running.
LEMMA CrashMachine ==
  ASSUME MachineInv, RecordingSearchCrashes
  PROVE  MachineInv'
<1>1. status' = "crashed"
  BY DEF RecordingSearchCrashes
<1>2. TypeOK'
  BY <1>1
     DEF RecordingSearchCrashes, In, MachineInv, TypeOK, States, Transitions,
         Query, requestVars, nameVars, matchVars, artistVars, recordingVars,
         releaseVars
<1>3. /\ status' = "running" => query' \in Query
      /\ NameReady' /\ ArtistsReady' /\ IndexReady'
      /\ RecordingsReady' /\ ReleaseReady' /\ MatchReady'
  BY <1>1 DEF RecordingSearchCrashes, In, MachineInv, NameReady, ArtistsReady,
         IndexReady, RecordingsReady, ReleaseReady, MatchReady, Running,
         AtRecording, AtRecordings, AtArtist, AtArtists, requestVars, nameVars,
         matchVars, artistVars, recordingVars, releaseVars
<1> QED
  BY <1>2, <1>3 DEF MachineInv

\* do_select_recording_match selects a recording that is there.
LEMMA SelectRecordingMachine ==
  ASSUME MachineInv, DoSelectRecordingMatch
  PROVE  MachineInv'
<1>1. /\ recording_matches \in Seq(Hit)
      /\ recording_match_index \in Nat \cup {-1}
  BY DEF DoSelectRecordingMatch, In, MachineInv, TypeOK, RecordingsReady,
     Running, AtRecordings
<1>2. /\ recording_match_index' \in Nat
      /\ \/ /\ current_state' = "select_artist_match"
            /\ UNCHANGED selected_recording_id
         \/ /\ current_state' = "has_release_argument"
            /\ recording_match_index' \in 0..(Len(recording_matches) - 1)
            /\ selected_recording_id'
                  = Elem(recording_matches, recording_match_index').id
            /\ selected_recording_id' \in Nat
      /\ UNCHANGED <<status, answer, search_match>>
  <2> DEFINE i == Following(recording_match_index)
  <2>1. i \in Nat /\ recording_match_index' = i
    BY <1>1 DEF DoSelectRecordingMatch, Following
  <2>2. CASE MeetsThreshold(recording_matches, i)
    <3>1. i \in 0..(Len(recording_matches) - 1)
      BY <1>1, <2>1, <2>2 DEF MeetsThreshold
    <3>2. Elem(recording_matches, i) \in Hit
      BY <1>1, <3>1 DEF Elem
    <3> QED
      BY <2>1, <2>2, <3>1, <3>2, EnterTable
         DEF DoSelectRecordingMatch, In, Enter, Goes, Hit
  <2>3. CASE ~MeetsThreshold(recording_matches, i)
    BY <2>1, <2>3, EnterTable DEF DoSelectRecordingMatch, In, Enter, Goes
  <2> QED
    BY <2>2, <2>3
<1>3. TypeOK'
  BY <1>1, <1>2
     DEF DoSelectRecordingMatch, In, MachineInv, TypeOK, States, Transitions,
         Query, requestVars, nameVars, matchVars, artistVars, recordingVars,
         releaseVars
<1>4. /\ status' = "running" => query' \in Query
      /\ NameReady' /\ ArtistsReady' /\ IndexReady'
      /\ RecordingsReady' /\ ReleaseReady' /\ MatchReady'
  BY <1>1, <1>2
     DEF DoSelectRecordingMatch, In, MachineInv, NameReady, ArtistsReady,
         IndexReady, RecordingsReady, ReleaseReady, MatchReady, Running,
         AtRecording, AtRecordings, AtArtist, AtArtists, requestVars, nameVars,
         matchVars, artistVars, recordingVars, releaseVars
<1> QED
  BY <1>3, <1>4 DEF MachineInv

\* do_has_release_argument tells the two kinds of request apart.
LEMMA HasReleaseMachine ==
  ASSUME MachineInv, DoHasReleaseArgument
  PROVE  MachineInv'
<1>1. /\ current_state' = IF query.release # NoName
                         THEN "release_search" ELSE "lookup_canonical_release"
      /\ UNCHANGED <<status, answer, search_match>>
  BY EnterTable DEF DoHasReleaseArgument, In, Enter, Goes
<1>2. TypeOK'
  BY <1>1
     DEF DoHasReleaseArgument, In, MachineInv, TypeOK, States, Transitions,
         Query, requestVars, nameVars, matchVars, artistVars, recordingVars,
         releaseVars
<1>3. /\ status' = "running" => query' \in Query
      /\ NameReady' /\ ArtistsReady' /\ IndexReady'
      /\ RecordingsReady' /\ ReleaseReady' /\ MatchReady'
  BY <1>1 DEF DoHasReleaseArgument, In, MachineInv, NameReady, ArtistsReady,
         IndexReady, RecordingsReady, ReleaseReady, MatchReady, Running,
         AtRecording, AtRecordings, AtArtist, AtArtists, requestVars, nameVars,
         matchVars, artistVars, recordingVars, releaseVars
<1> QED
  BY <1>2, <1>3 DEF MachineInv

\* do_release_search goes on to the evaluation with a release only.
LEMMA ReleaseSearchMachine ==
  ASSUME MachineInv, DoReleaseSearch
  PROVE  MachineInv'
<1>1. /\ query \in Query /\ query.release # NoName
      /\ release_recording_index \in ArtistIds
      /\ db \in Databases /\ db.blobs[release_recording_index] # None
  BY DEF DoReleaseSearch, In, MachineInv, TypeOK, ReleaseReady, IndexReady,
         Running, AtRecordings, AtRecording
<1>2. release_matches' \in Seq(Hit) \cup {None}
  BY <1>1, IndexSearchType DEF DoReleaseSearch, Query
<1>3. /\ \/ current_state' = "select_artist_match"
         \/ /\ current_state' = "evaluate_match"
            /\ release_match_index' = 0
            /\ release_matches' \notin {None, <<>>}
      /\ release_match_index' \in {release_match_index, 0}
      /\ UNCHANGED <<status, answer, search_match>>
  BY EnterTable DEF DoReleaseSearch, In, Enter, Goes, HasMatches
<1>4. TypeOK'
  BY <1>1, <1>2, <1>3
     DEF DoReleaseSearch, In, MachineInv, TypeOK, States, Transitions, Query,
         requestVars, nameVars, matchVars, artistVars, recordingVars,
         releaseVars
<1>5. /\ status' = "running" => query' \in Query
      /\ NameReady' /\ ArtistsReady' /\ IndexReady'
      /\ RecordingsReady' /\ ReleaseReady' /\ MatchReady'
  BY <1>1, <1>2, <1>3
     DEF DoReleaseSearch, In, MachineInv, NameReady, ArtistsReady, IndexReady,
         RecordingsReady, ReleaseReady, MatchReady, Running, AtRecording,
         AtRecordings, AtArtist, AtArtists, requestVars, nameVars, matchVars,
         artistVars, recordingVars, releaseVars
<1> QED
  BY <1>4, <1>5 DEF MachineInv

\* do_lookup_canonical_release does, too, also when it kept the last one.
LEMMA CanonicalMachine ==
  ASSUME MachineInv, DoLookupCanonicalRelease
  PROVE  MachineInv'
<1>1. /\ query \in Query /\ query.release = NoName /\ db \in Databases
      /\ release_match_index = 0 => release_matches \notin {None, <<>>}
  BY DEF DoLookupCanonicalRelease, In, MachineInv, TypeOK, ReleaseReady,
         Running
<1>2. /\ UNCHANGED <<status, answer, search_match>>
      /\ release_match_index' \in {release_match_index, 0}
      /\ \/ /\ current_state' = "evaluate_match"
            /\ release_match_index' = 0
            /\ release_matches' \notin {None, <<>>}
            /\ release_matches' \in Seq(Hit)
         \/ /\ current_state' = "fail"
            /\ release_match_index # 0 /\ UNCHANGED release_match_index
            /\ release_matches' = None
  <2>1. CASE release_match_index = 0
    BY <1>1, <2>1, EnterTable
       DEF DoLookupCanonicalRelease, In, Enter, Goes, releaseVars, MachineInv,
           TypeOK
  <2>2. CASE release_match_index # 0
    <3>1. PICK release \in
             {Canonical(db, selected_artist_credit_id, selected_recording_id)}
               \cup (IF DbFaults THEN {None} ELSE {}) :
             IF release = None
             THEN /\ release_matches' = None
                  /\ UNCHANGED release_match_index
                  /\ Enter("no_matches")
             ELSE /\ release_matches' = CanonicalResult(release)
                  /\ release_match_index' = 0
                  /\ Enter("has_matches")
      BY <2>2 DEF DoLookupCanonicalRelease
    <3>2. CASE release = None
      BY <2>2, <3>1, <3>2, EnterTable
         DEF DoLookupCanonicalRelease, In, Enter, Goes
    <3>3. CASE release # None
      <4>1. release = Canonical(db, selected_artist_credit_id, selected_recording_id)
        BY <3>1, <3>3
      <4>2. CanonicalResult(release) \in Seq(Hit) /\ CanonicalResult(release) # <<>>
        BY <1>1, <3>3, <4>1, CanonicalType DEF CanonicalResult
      <4>3. CanonicalResult(release) # None
        BY <4>2, SearchFunctionsAssumption
      <4> QED
        BY <3>1, <3>3, <4>2, <4>3, EnterTable
           DEF DoLookupCanonicalRelease, In, Enter, Goes
    <3> QED
      BY <3>2, <3>3
  <2> QED
    BY <2>1, <2>2
<1>3. TypeOK'
  BY <1>1, <1>2
     DEF DoLookupCanonicalRelease, In, MachineInv, TypeOK, States, Transitions,
         Query, requestVars, nameVars, matchVars, artistVars, recordingVars,
         releaseVars
<1>4. /\ status' = "running" => query' \in Query
      /\ NameReady' /\ ArtistsReady' /\ IndexReady'
      /\ RecordingsReady' /\ ReleaseReady' /\ MatchReady'
  BY <1>1, <1>2
     DEF DoLookupCanonicalRelease, In, MachineInv, NameReady, ArtistsReady,
         IndexReady, RecordingsReady, ReleaseReady, MatchReady, Running,
         AtRecording, AtRecordings, AtArtist, AtArtists, requestVars, nameVars,
         matchVars, artistVars, recordingVars, releaseVars
<1> QED
  BY <1>3, <1>4 DEF MachineInv

\* do_evaluate_match reads what is there and succeeds with a match only.
LEMMA EvaluateMachine ==
  ASSUME MachineInv, DoEvaluateMatch
  PROVE  MachineInv'
<1>1. /\ release_recording_index \in ArtistIds
      /\ selected_artist_credit_id \in ArtistIds
      /\ db \in Databases /\ db.blobs[release_recording_index] # None
      /\ Elem(recording_matches, recording_match_index) \in Hit
  BY DEF DoEvaluateMatch, In, MachineInv, TypeOK, ArtistsReady, IndexReady,
         RecordingsReady, Running, AtArtist, AtRecordings, AtRecording, Elem
<1>2. PICK match :
         /\ match = FindMatch(db, selected_artist_credit_id,
                     release_recording_index,
                     Elem(release_matches, release_match_index),
                     Elem(recording_matches, recording_match_index))
         /\ EnterWith(IF match = None THEN "doesnt_meet_threshold"
                                      ELSE "meets_threshold", match)
  BY DEF DoEvaluateMatch
<1>3. match \in Match \cup {None}
  BY <1>1, <1>2, FindMatchLinked
<1>4. /\ search_match' = match /\ UNCHANGED <<status, answer>>
      /\ current_state' = IF match = None THEN "select_recording_match"
                                          ELSE "success_fetch_metadata"
  BY <1>2, EnterTable DEF DoEvaluateMatch, In, Goes
<1>5. TypeOK'
  BY <1>1, <1>2, <1>3, <1>4
     DEF DoEvaluateMatch, In, MachineInv, TypeOK, States, Transitions, Query,
         requestVars, nameVars, matchVars, artistVars, recordingVars,
         releaseVars
<1>6. /\ status' = "running" => query' \in Query
      /\ NameReady' /\ ArtistsReady' /\ IndexReady'
      /\ RecordingsReady' /\ ReleaseReady' /\ MatchReady'
  BY <1>1, <1>2, <1>3, <1>4
     DEF DoEvaluateMatch, In, MachineInv, NameReady, ArtistsReady, IndexReady,
         RecordingsReady, ReleaseReady, MatchReady, Running, AtRecording,
         AtRecordings, AtArtist, AtArtists, requestVars, nameVars, matchVars,
         artistVars, recordingVars, releaseVars
<1> QED
  BY <1>5, <1>6 DEF MachineInv

\* do_fail ends the search.
LEMMA FailMachine ==
  ASSUME MachineInv, DoFail
  PROVE  MachineInv'
<1>1. status' = "idle" /\ answer' = search_match /\ search_match' = None
  BY DEF DoFail, Return
<1>2. TypeOK'
  BY <1>1 DEF DoFail, In, MachineInv, TypeOK, States, Transitions,
         Query, requestVars, nameVars, matchVars, artistVars, recordingVars,
         releaseVars
<1>3. /\ status' = "running" => query' \in Query
      /\ NameReady' /\ ArtistsReady' /\ IndexReady'
      /\ RecordingsReady' /\ ReleaseReady' /\ MatchReady'
  BY <1>1 DEF DoFail, In, MachineInv, NameReady, ArtistsReady,
         IndexReady, RecordingsReady, ReleaseReady, MatchReady, Running,
         AtRecording, AtRecordings, AtArtist, AtArtists, requestVars, nameVars,
         matchVars, artistVars, recordingVars, releaseVars
<1> QED
  BY <1>2, <1>3 DEF MachineInv

\* do_success_fetch_metadata returns the match it has.
LEMMA SuccessMachine ==
  ASSUME MachineInv, DoSuccessFetchMetadata
  PROVE  MachineInv'
<1>1. search_match \in Match
  BY DEF DoSuccessFetchMetadata, In, MachineInv, TypeOK, MatchReady, Running
<1>2. status' = "idle" /\ search_match' = None /\ answer' \in Match
  <2>1. HasMetadata(db, search_match) \in BOOLEAN
    BY DEF HasMetadata
  <2>2. \A b \in BOOLEAN : [search_match EXCEPT !.metadata = b] \in Match
    BY <1>1 DEF Match
  <2> QED
    BY <2>1, <2>2 DEF DoSuccessFetchMetadata, Return
<1>3. TypeOK'
  BY <1>1, <1>2
     DEF DoSuccessFetchMetadata, In, MachineInv, TypeOK, States, Transitions,
         Query, requestVars, nameVars, matchVars, artistVars, recordingVars,
         releaseVars
<1>4. /\ status' = "running" => query' \in Query
      /\ NameReady' /\ ArtistsReady' /\ IndexReady'
      /\ RecordingsReady' /\ ReleaseReady' /\ MatchReady'
  BY <1>1, <1>2
     DEF DoSuccessFetchMetadata, In, MachineInv, NameReady, ArtistsReady,
         IndexReady, RecordingsReady, ReleaseReady, MatchReady, Running,
         AtRecording, AtRecordings, AtArtist, AtArtists, requestVars, nameVars,
         matchVars, artistVars, recordingVars, releaseVars
<1> QED
  BY <1>3, <1>4 DEF MachineInv

\* Every step preserves the invariant.
LEMMA NextMachine ==
  ASSUME MachineInv, [Next]_vars
  PROVE  MachineInv'
<1>1. CASE \E q \in Query : Search(q)
  BY <1>1, SearchMachine
<1>2. CASE Step
  BY <1>2, NameCheckMachine, ArtistSearchMachine, CleanMachine,
     StupidSearchMachine, SelectArtistMachine, RecordingSearchMachine,
     CrashMachine, SelectRecordingMachine, HasReleaseMachine,
     ReleaseSearchMachine, CanonicalMachine, EvaluateMachine, FailMachine,
     SuccessMachine DEF Step
<1>3. CASE UNCHANGED vars
  BY <1>3 DEF vars, MachineInv, TypeOK, NameReady, ArtistsReady, IndexReady,
         RecordingsReady, ReleaseReady, MatchReady, Running, requestVars,
         nameVars, matchVars, artistVars, recordingVars, releaseVars
<1> QED
  BY <1>1, <1>2, <1>3 DEF Next

\* The invariant holds in every state.
LEMMA MachineInvariant == Spec => []MachineInv
<1>1. Init => MachineInv
  BY InitMachine
<1>2. MachineInv /\ [Next]_vars => MachineInv'
  BY NextMachine
<1> QED
  BY <1>1, <1>2, PTL DEF Spec

\* The machine's variables keep their types.
THEOREM TypeCorrect == Spec => []TypeOK
<1>1. MachineInv => TypeOK
  BY DEF MachineInv
<1> QED
  BY <1>1, MachineInvariant, PTL

\* Whatever the data directory holds and whatever database calls fail, no
\* state function dereferences a vector, an index or an element that is not
\* there, and the index evaluated is that of the artist selected.
THEOREM EvaluationReady == Spec => []EvaluateReady
<1>1. MachineInv => EvaluateReady
  <2> SUFFICES ASSUME MachineInv PROVE EvaluateReady
    OBVIOUS
  <2>1. In("evaluate_match") => release_match_index \in 0..(Len(release_matches) - 1)
    BY DEF In, MachineInv, TypeOK, ReleaseReady, Running
  <2> QED
    BY <2>1 DEF EvaluateReady, In, MachineInv, ArtistsReady, IndexReady,
         RecordingsReady, ReleaseReady, Running, AtArtists, AtArtist,
         AtRecordings, AtRecording
<1> QED
  BY <1>1, MachineInvariant, PTL

-----------------------------------------------------------------------------
(* The answers, if the indexes have links of the artist's rows only.       *)

GenuineMatch(m) == \E r \in db.mapping :
    /\ r.release_id = m.release_id
    /\ r.recording_id = m.recording_id
    /\ m.artist_credit_id \in {r.artist_credit_id, r.release_artist_credit_id}

GenuineInv ==
    /\ search_match # None => GenuineMatch(search_match)
    /\ answer # None => GenuineMatch(answer)

\* A match that is evaluated is genuine.
LEMMA EvaluatedGenuine ==
  ASSUME MachineInv, \A d \in Databases : GenuineLinks(d), DoEvaluateMatch
  PROVE  \E m : /\ search_match' \in {m, None} /\ answer' \in {answer, m}
                /\ m # None => GenuineMatch(m)
<1> DEFINE a == selected_artist_credit_id
           rel == Elem(release_matches, release_match_index)
           rec == Elem(recording_matches, recording_match_index)
           m == FindMatch(db, a, release_recording_index, rel, rec)
           ls == db.blobs[a].links[rec.result_index]
<1>1. /\ release_recording_index = a /\ a \in ArtistIds
      /\ db \in Databases /\ db.blobs[a] # None /\ rec \in Hit
  BY DEF DoEvaluateMatch, In, MachineInv, TypeOK, ArtistsReady, IndexReady,
         RecordingsReady, Running, AtArtist, AtRecordings, AtRecording, Elem
<1>2. search_match' \in {m, None} /\ answer' \in {answer, m}
  BY DEF DoEvaluateMatch, EnterWith, Return
<1>3. ASSUME m # None PROVE GenuineMatch(m)
  <2>1. /\ m.artist_credit_id = a
        /\ rec.result_index \in DOMAIN db.blobs[a].links
        /\ \E i \in DOMAIN ls : /\ m.release_id = ls[i].release_id
                               /\ m.recording_id = ls[i].recording_id
    BY <1>1, <1>3, FindMatchLinked
  <2> HIDE DEF m
  <2>2. PICK i \in DOMAIN ls : /\ m.release_id = ls[i].release_id
                               /\ m.recording_id = ls[i].recording_id
    BY <2>1
  <2>3. \E r \in db.mapping :
           /\ r.release_id = ls[i].release_id
           /\ r.recording_id = ls[i].recording_id
           /\ a \in {r.artist_credit_id, r.release_artist_credit_id}
    <3>1. /\ GenuineLinks(db) /\ a \in ArtistIds /\ db.blobs[a] # None
          /\ rec.result_index \in DOMAIN db.blobs[a].links
          /\ i \in DOMAIN ls
      BY <1>1, <2>1, <2>2
    <3>2. \A j \in DOMAIN db.blobs[a].links :
             \A k \in DOMAIN db.blobs[a].links[j] : \E r \in db.mapping :
                /\ r.release_id = db.blobs[a].links[j][k].release_id
                /\ r.recording_id = db.blobs[a].links[j][k].recording_id
                /\ a \in {r.artist_credit_id, r.release_artist_credit_id}
      BY <3>1, Zenon DEF GenuineLinks
    <3> HIDE DEF a, rec
    <3> QED
      BY <3>1, <3>2
  <2> QED
    BY <2>1, <2>2, <2>3 DEF GenuineMatch
<1> QED
  BY <1>2, <1>3

\* The state functions that enter an event and take search_match along.
LEMMA EntersEvent ==
  ASSUME \/ DoArtistNameCheck \/ DoArtistSearch \/ DoCleanArtistName
         \/ DoStupidArtistSearch \/ DoSelectArtistMatch \/ DoRecordingSearch
         \/ DoSelectRecordingMatch \/ DoHasReleaseArgument \/ DoReleaseSearch
         \/ DoLookupCanonicalRelease
  PROVE  \E event : Enter(event)
<1>1. DoArtistNameCheck => \E event : Enter(event)
  BY DEF DoArtistNameCheck
<1>2. DoArtistSearch => \E event : Enter(event)
  BY DEF DoArtistSearch
<1>3. DoCleanArtistName => \E event : Enter(event)
  BY DEF DoCleanArtistName
<1>4. DoStupidArtistSearch => \E event : Enter(event)
  BY DEF DoStupidArtistSearch
<1>5. DoSelectArtistMatch => \E event : Enter(event)
  BY DEF DoSelectArtistMatch
<1>6. DoRecordingSearch => \E event : Enter(event)
  BY DEF DoRecordingSearch
<1>7. DoSelectRecordingMatch => \E event : Enter(event)
  BY DEF DoSelectRecordingMatch
<1>8. DoHasReleaseArgument => \E event : Enter(event)
  BY DEF DoHasReleaseArgument
<1>9. DoReleaseSearch => \E event : Enter(event)
  BY DEF DoReleaseSearch
<1>10. DoLookupCanonicalRelease => \E event : Enter(event)
  BY DEF DoLookupCanonicalRelease
<1> QED
  BY <1>1, <1>2, <1>3, <1>4, <1>5, <1>6, <1>7, <1>8, <1>9, <1>10

\* Every step preserves that the match and the answer are genuine.
LEMMA NextGenuine ==
  ASSUME MachineInv, GenuineInv, \A d \in Databases : GenuineLinks(d), [Next]_vars
  PROVE  GenuineInv'
<1>1. UNCHANGED db
  BY DEF Next, Step, Search, DoArtistNameCheck, DoArtistSearch,
         DoCleanArtistName, DoStupidArtistSearch, DoSelectArtistMatch,
         DoRecordingSearch, RecordingSearchCrashes, DoSelectRecordingMatch,
         DoHasReleaseArgument, DoReleaseSearch, DoLookupCanonicalRelease,
         DoEvaluateMatch, DoFail, DoSuccessFetchMetadata, vars, requestVars
<1>2. CASE \/ DoArtistNameCheck \/ DoArtistSearch \/ DoCleanArtistName
           \/ DoStupidArtistSearch \/ DoSelectArtistMatch
           \/ DoRecordingSearch \/ DoSelectRecordingMatch
           \/ DoHasReleaseArgument \/ DoReleaseSearch
           \/ DoLookupCanonicalRelease
  <2>1. PICK event : Enter(event)
    BY <1>2, EntersEvent
  <2>2. /\ search_match' \in {search_match, None}
        /\ answer' \in {answer, search_match}
    BY <2>1 DEF Enter, EnterWith, Return
  <2> QED
    BY <1>1, <2>2 DEF GenuineInv, GenuineMatch
<1>5. CASE \/ \E q \in Query : Search(q)
           \/ RecordingSearchCrashes \/ DoFail \/ UNCHANGED vars
  <2>1. /\ search_match' \in {search_match, None}
        /\ answer' \in {answer, search_match, None}
    BY <1>5 DEF Search, RecordingSearchCrashes, DoFail, Return, vars,
                ResetStateVariables
  <2> QED
    BY <1>1, <2>1 DEF GenuineInv, GenuineMatch
<1>3. CASE DoEvaluateMatch
  BY <1>1, <1>3, EvaluatedGenuine DEF GenuineInv, GenuineMatch
<1>4. CASE DoSuccessFetchMetadata
  <2>1. search_match \in Match /\ search_match # None
    BY <1>4, SearchFunctionsAssumption
       DEF DoSuccessFetchMetadata, In, MachineInv, TypeOK, MatchReady, Running
  <2>2. PICK found : answer' = [search_match EXCEPT !.metadata = found]
    BY <1>4 DEF DoSuccessFetchMetadata, Return
  <2>3. /\ answer'.artist_credit_id = search_match.artist_credit_id
        /\ answer'.release_id = search_match.release_id
        /\ answer'.recording_id = search_match.recording_id
    BY <2>1, <2>2 DEF Match
  <2>4. search_match' = None
    BY <1>4 DEF DoSuccessFetchMetadata, Return
  <2> QED
    BY <1>1, <2>1, <2>3, <2>4 DEF GenuineInv, GenuineMatch
<1> QED
  BY <1>2, <1>3, <1>4, <1>5 DEF Next, Step

\* If every link of every index comes from a row of its artist, every answer
\* of every sequence of searches is a row of the mapping that belongs to the
\* artist answered, whatever earlier candidates and searches left behind.
THEOREM GenuineAnswers ==
  ASSUME \A d \in Databases : GenuineLinks(d)
  PROVE  Spec => []AnswerGenuine
<1>1. Init => GenuineInv
  BY DEF Init, GenuineInv
<1>2. MachineInv /\ GenuineInv /\ [Next]_vars => GenuineInv'
  BY NextGenuine
<1>3. GenuineInv => AnswerGenuine
  BY DEF GenuineInv, GenuineMatch, AnswerGenuine
<1> QED
  BY <1>1, <1>2, <1>3, MachineInvariant, PTL DEF Spec

-----------------------------------------------------------------------------
(* The canonical release, if the indexes hold the link of every canonical  *)
(* release that can be looked up. Then an evaluation without a release     *)
(* argument succeeds, and no second one finds what the first looked up.    *)

FreshInv == status = "running" /\ query.release = NoName =>
    /\ current_state \notin {"evaluate_match", "success_fetch_metadata"}
          => release_match_index # 0
    /\ current_state = "evaluate_match" =>
          LET release == Canonical(db, selected_artist_credit_id,
                                   selected_recording_id)
          IN  release # None /\ release_matches = CanonicalResult(release)

\* The evaluation of a canonical release finds a match.
LEMMA CanonicalEvaluates ==
  ASSUME MachineInv, FreshInv, \A d \in Databases : CanonicalLinks(d),
         DoEvaluateMatch, query.release = NoName
  PROVE  current_state' = "success_fetch_metadata"
<1> DEFINE a == selected_artist_credit_id
           rec == Elem(recording_matches, recording_match_index)
           release == Canonical(db, a, selected_recording_id)
           rel == CanonicalResult(release)[1]
<1>1. /\ release_recording_index = a /\ a \in ArtistIds
      /\ db \in Databases /\ db.blobs[a] # None /\ rec \in Hit
      /\ query.recording \in RecordingNames
  BY DEF DoEvaluateMatch, In, MachineInv, TypeOK, ArtistsReady, IndexReady,
         RecordingsReady, Running, AtArtist, AtRecordings, AtRecording, Elem,
         Query
<1>2. /\ Elem(release_matches, release_match_index) = rel
      /\ release # None
      /\ selected_recording_id = rec.id
  BY DEF DoEvaluateMatch, In, MachineInv, FreshInv, ReleaseReady,
         RecordingsReady, Running, AtRecording, Elem
<1>3. PICK i \in DOMAIN db.blobs[a].recordings[query.recording] :
         rec = db.blobs[a].recordings[query.recording][i]
  <2>1. /\ RecordingSearch(db, a, query.recording) = recording_matches
        /\ recording_matches \in Seq(Hit) /\ recording_matches # None
        /\ recording_match_index \in 0..(Len(recording_matches) - 1)
    BY <1>1 DEF DoEvaluateMatch, In, MachineInv, TypeOK, RecordingsReady,
                Running, AtRecordings, AtRecording
  <2>2. recording_match_index + 1 \in DOMAIN recording_matches
    BY <2>1
  <2> QED
    BY <1>1, <2>1, <2>2, IndexSearchType DEF Elem
<1>4. /\ rec.result_index \in DOMAIN db.blobs[a].links
      /\ Linked(db.blobs[a].links[rec.result_index], rel) # {}
  <2>1. CanonicalLinks(db)
    BY <1>1
  <2>2. LET hit == db.blobs[a].recordings[query.recording][i]
            of  == Canonical(db, a, hit.id)
        IN  of # None =>
               /\ hit.result_index \in DOMAIN db.blobs[a].links
               /\ Linked(db.blobs[a].links[hit.result_index],
                         CanonicalResult(of)[1]) # {}
    BY <1>1, <1>3, <2>1, Zenon DEF CanonicalLinks
  <2> HIDE DEF a, rec
  <2> QED
    BY <1>2, <1>3, <2>2
<1> HIDE DEF a, rec, rel
<1>5. FindMatch(db, a, a, rel, rec) # None
  BY <1>1, <1>4, FindMatchFound
<1>6. EnterWith("meets_threshold", FindMatch(db, a, a, rel, rec))
  BY <1>1, <1>2, <1>5 DEF DoEvaluateMatch, a, rec
<1> QED
  BY <1>6, EnterTable DEF DoEvaluateMatch, In

\* Every step preserves that the canonical release is looked up afresh.
LEMMA NextFresh ==
  ASSUME MachineInv, FreshInv, \A d \in Databases : CanonicalLinks(d),
         [Next]_vars
  PROVE  FreshInv'
<1>1. CASE \E q \in Query : Search(q)
  BY <1>1 DEF FreshInv, Search, ResetStateVariables
<1>2. CASE DoArtistNameCheck \/ DoArtistSearch \/ DoCleanArtistName
           \/ DoStupidArtistSearch \/ DoSelectArtistMatch \/ DoRecordingSearch
           \/ DoSelectRecordingMatch \/ DoHasReleaseArgument
  <2>1. /\ current_state \notin {"evaluate_match", "success_fetch_metadata"}
        /\ current_state' \notin {"evaluate_match", "success_fetch_metadata"}
        /\ status = "running"
    <3>1. PICK event : Enter(event)
      BY <1>2, EntersEvent
    <3>2. current_state \in {"artist_name_check", "artist_search",
             "clean_artist_name", "stupid_artist_search", "select_artist_match",
             "recording_search", "select_recording_match",
             "has_release_argument"} /\ status = "running"
      BY <1>2 DEF DoArtistNameCheck, DoArtistSearch, DoCleanArtistName,
           DoStupidArtistSearch, DoSelectArtistMatch, DoRecordingSearch,
           DoSelectRecordingMatch, DoHasReleaseArgument, In
    <3> QED
      BY <3>1, <3>2 DEF Enter, EnterWith, Transitions
  <2>2. UNCHANGED <<query, releaseVars>>
    BY <1>2 DEF DoArtistNameCheck, DoArtistSearch, DoCleanArtistName,
           DoStupidArtistSearch, DoSelectArtistMatch, DoRecordingSearch,
           DoSelectRecordingMatch, DoHasReleaseArgument, requestVars, matchVars
  <2> QED
    BY <2>1, <2>2 DEF FreshInv, releaseVars
<1>3. CASE DoReleaseSearch
  BY <1>3 DEF DoReleaseSearch, In, MachineInv, ReleaseReady, Running, FreshInv,
              requestVars
<1>4. CASE DoLookupCanonicalRelease
  <2>1. /\ status = "running" /\ query.release = NoName
        /\ release_match_index # 0
    BY <1>4 DEF DoLookupCanonicalRelease, In, MachineInv, ReleaseReady,
                Running, FreshInv
  <2>2. PICK release \in
           {Canonical(db, selected_artist_credit_id, selected_recording_id)}
             \cup (IF DbFaults THEN {None} ELSE {}) :
           IF release = None
           THEN /\ release_matches' = None
                /\ UNCHANGED release_match_index
                /\ Enter("no_matches")
           ELSE /\ release_matches' = CanonicalResult(release)
                /\ release_match_index' = 0
                /\ Enter("has_matches")
    BY <1>4, <2>1 DEF DoLookupCanonicalRelease
  <2>3. UNCHANGED <<db, query, selected_artist_credit_id, selected_recording_id>>
    BY <1>4
       DEF DoLookupCanonicalRelease, requestVars, artistVars, recordingVars
  <2>4. CASE release = None
    BY <1>4, <2>1, <2>2, <2>4, EnterTable
       DEF DoLookupCanonicalRelease, In, Enter, FreshInv
  <2>5. CASE release # None
    BY <1>4, <2>1, <2>2, <2>3, <2>5, EnterTable
       DEF DoLookupCanonicalRelease, In, Enter, FreshInv
  <2> QED
    BY <2>4, <2>5
<1>5. CASE DoEvaluateMatch
  BY <1>5, CanonicalEvaluates DEF DoEvaluateMatch, FreshInv, requestVars
<1>6. CASE RecordingSearchCrashes \/ DoFail \/ DoSuccessFetchMetadata
  BY <1>6 DEF RecordingSearchCrashes, DoFail, DoSuccessFetchMetadata, Return,
              FreshInv
<1>7. CASE UNCHANGED vars
  BY <1>7 DEF vars, FreshInv, requestVars, matchVars, artistVars,
              recordingVars, releaseVars
<1> QED
  BY <1>1, <1>2, <1>3, <1>4, <1>5, <1>6, <1>7 DEF Next, Step

\* If the index of an artist holds the link of the canonical release of every
\* recording found, the release evaluated is the canonical one of the recording
\* selected, although the result of the first lookup is kept and used again.
THEOREM FreshCanonical ==
  ASSUME \A d \in Databases : CanonicalLinks(d)
  PROVE  Spec => []CanonicalFresh
<1>1. Init => FreshInv
  BY DEF Init, FreshInv
<1>2. MachineInv /\ FreshInv /\ [Next]_vars => FreshInv'
  BY NextFresh
<1>3. MachineInv /\ FreshInv => CanonicalFresh
  BY DEF MachineInv, ReleaseReady, Running, FreshInv, CanonicalFresh, In, Elem,
         CanonicalResult
<1> QED
  BY <1>1, <1>2, <1>3, MachineInvariant, PTL DEF Spec

-----------------------------------------------------------------------------
(* The state machine implements MappingLookup.                             *)

\* The searches of the instance are those of the machine.
LEMMA SameSearches ==
  /\ \A d, n : Lookup!ArtistSearch(d, n) = ArtistSearch(d, n)
  /\ \A d, a, n : Lookup!RecordingSearch(d, a, n) = RecordingSearch(d, a, n)
  /\ \A d, a, n : Lookup!ReleaseSearch(d, a, n) = ReleaseSearch(d, a, n)
  /\ \A d, a, r : Lookup!Canonical(d, a, r) = Canonical(d, a, r)
  /\ \A d, a, i, rel, rec :
        Lookup!FindMatch(d, a, i, rel, rec) = FindMatch(d, a, i, rel, rec)
  /\ \A r : Lookup!CanonicalResult(r) = CanonicalResult(r)
  /\ \A d, m : Lookup!HasMetadata(d, m) = HasMetadata(d, m)
<1>1. \A s, key : Lookup!SortBy(s, key) = SortBy(s, key)
  BY Zenon DEF Lookup!SortBy, SortBy, Lookup!Rank, Rank, Lookup!Precedes, Precedes,
  Lookup!Cardinality, Cardinality
<1>2. \A s : Lookup!SortByConfidence(s) = SortByConfidence(s)
  BY <1>1, Zenon DEF Lookup!SortByConfidence, SortByConfidence
<1>3. \A d, n : Lookup!ArtistSearch(d, n) = ArtistSearch(d, n)
  BY <1>2, Zenon DEF Lookup!ArtistSearch, ArtistSearch
<1>4. \A d, a, n : Lookup!RecordingSearch(d, a, n) = RecordingSearch(d, a, n)
  BY <1>2, Zenon DEF Lookup!RecordingSearch, RecordingSearch
<1>5. \A d, a, n : Lookup!ReleaseSearch(d, a, n) = ReleaseSearch(d, a, n)
  BY <1>2, Zenon DEF Lookup!ReleaseSearch, ReleaseSearch
<1>6. \A d, a, r : Lookup!Canonical(d, a, r) = Canonical(d, a, r)
  BY Zenon DEF Lookup!Canonical, Canonical
<1>7. \A ls, rel : Lookup!Linked(ls, rel) = Linked(ls, rel)
  BY Zenon DEF Lookup!Linked, Linked, Lookup!LowerBound, LowerBound
<1>8. ASSUME NEW d, NEW a, NEW index, NEW rel, NEW rec
      PROVE  Lookup!FindMatch(d, a, index, rel, rec) = FindMatch(d, a, index, rel, rec)
  <2> DEFINE ls == d.blobs[index].links[rec.result_index]
             L == Lookup!Linked(ls, rel)
             M == Linked(ls, rel)
  <2>1. L = M /\ (CHOOSE i \in L : TRUE) = (CHOOSE i \in M : TRUE)
    BY Zenon DEF Lookup!Linked, Linked, Lookup!LowerBound, LowerBound
  <2>2. Lookup!FindMatch(d, a, index, rel, rec) =
     IF rec.result_index \notin DOMAIN d.blobs[index].links \/ L = {} THEN None
     ELSE [artist_credit_id |-> a, release_id |-> ls[CHOOSE i \in L : TRUE].release_id,
                  recording_id |-> ls[CHOOSE i \in L : TRUE].recording_id, metadata |-> FALSE]
    BY DEF Lookup!FindMatch
  <2>3. FindMatch(d, a, index, rel, rec) =
     IF rec.result_index \notin DOMAIN d.blobs[index].links \/ M = {} THEN None
     ELSE [artist_credit_id |-> a, release_id |-> ls[CHOOSE i \in M : TRUE].release_id,
                  recording_id |-> ls[CHOOSE i \in M : TRUE].recording_id, metadata |-> FALSE]
    BY DEF FindMatch
  <2> HIDE DEF L, M
  <2> QED
    BY <2>1, <2>2, <2>3
<1>9. \A r : Lookup!CanonicalResult(r) = CanonicalResult(r)
  BY Zenon DEF Lookup!CanonicalResult, CanonicalResult
<1>10. \A d, m : Lookup!HasMetadata(d, m) = HasMetadata(d, m)
  BY Zenon DEF Lookup!HasMetadata, HasMetadata
<1> QED
  BY <1>3, <1>4, <1>5, <1>6, <1>8, <1>9, <1>10

-----------------------------------------------------------------------------
(* The answer of MappingLookup in terms of the candidates tried so far.    *)

Decided(d, q, errs, i) ==
    <<"load", i>> \notin errs /\ Lookup!Decides(d, q, Lookup!Candidates(d, q)[i].id)

\* The first n candidates do not decide.
Passed(d, q, errs, n) ==
    \A i \in DOMAIN Lookup!Candidates(d, q) : i <= n => ~Decided(d, q, errs, i)

\* The answer is the decision about candidate n.
AnsweredBy(d, q, errs, n) ==
    Lookup!Answer(d, q, errs)
      = Lookup!Decision(d, q, Lookup!Candidates(d, q)[n].id,
                        {call \in Lookup!Calls : <<call, n>> \in errs})

\* If no candidate decides there is no answer.
LEMMA AnswerNone ==
  ASSUME NEW d, NEW q, NEW errs,
         \A i \in DOMAIN Lookup!Candidates(d, q) : ~Decided(d, q, errs, i)
  PROVE  Lookup!Answer(d, q, errs) = None
<1> DEFINE deciding == {i \in DOMAIN Lookup!Candidates(d, q) :
                          "load" \notin {call \in Lookup!Calls : <<call, i>> \in errs}
                          /\ Lookup!Decides(d, q, Lookup!Candidates(d, q)[i].id)}
<1>1. deciding = {}
  BY DEF Decided, Lookup!Calls
<1> QED
  BY <1>1, Zenon DEF Lookup!Answer

\* Else it is that of the first one that does.
LEMMA AnswerFirst ==
  ASSUME NEW d, NEW q, NEW errs, Lookup!Candidates(d, q) \in Seq(Hit),
         NEW n \in DOMAIN Lookup!Candidates(d, q),
         Decided(d, q, errs, n), Passed(d, q, errs, n - 1)
  PROVE  AnsweredBy(d, q, errs, n)
<1> DEFINE failed(i) == {call \in Lookup!Calls : <<call, i>> \in errs}
           deciding  == {i \in DOMAIN Lookup!Candidates(d, q) :
                          "load" \notin failed(i)
                          /\ Lookup!Decides(d, q, Lookup!Candidates(d, q)[i].id)}
           first     == CHOOSE i \in deciding : \A j \in deciding : i <= j
<1>1. Lookup!Answer(d, q, errs) =
        IF deciding = {} THEN None
        ELSE Lookup!Decision(d, q, Lookup!Candidates(d, q)[first].id, failed(first))
  BY Zenon DEF Lookup!Answer
<1>2. \A i \in deciding : i \in Nat /\ i >= n
  <2>1. \A i \in deciding : i \in DOMAIN Lookup!Candidates(d, q) /\ Decided(d, q, errs, i)
    BY DEF Decided, Lookup!Calls
  <2>2. \A i \in DOMAIN Lookup!Candidates(d, q) : i \in Nat
    OBVIOUS
  <2> HIDE DEF deciding
  <2> QED
    BY <2>1, <2>2 DEF Passed
<1>3. n \in deciding
  BY DEF Decided, Lookup!Calls
<1> HIDE DEF deciding
<1>4. first = n
  BY <1>2, <1>3
<1> QED
  BY <1>1, <1>3, <1>4 DEF AnsweredBy

\* A failed call more makes no candidate decide.
LEMMA PassedWithErrors ==
  ASSUME NEW d, NEW q, NEW errs, NEW more, NEW n, Passed(d, q, errs, n)
  PROVE  Passed(d, q, errs \cup more, n)
BY DEF Passed, Decided

\* The hits an artist or recording search finds meet the threshold.
LEMMA SearchesMeetThreshold ==
  ASSUME NEW d \in Databases, HitsMeetThreshold(d)
  PROVE  /\ \A n \in ArtistNames : MeetThreshold(ArtistSearch(d, n))
         /\ \A a \in ArtistIds, n \in RecordingNames :
               d.blobs[a] # None /\ RecordingSearch(d, a, n) # None
                  => MeetThreshold(RecordingSearch(d, a, n))
<1>1. ASSUME NEW s \in Seq(Hit), MeetThreshold(s)
      PROVE  MeetThreshold(SortByConfidence(s))
  BY <1>1, SortCorrect DEF MeetThreshold
<1>2. ASSUME NEW n \in ArtistNames PROVE MeetThreshold(ArtistSearch(d, n))
  <2>1. d.single[n] \in Seq(Hit) /\ d.multiple[n] \in Seq(Hit)
    BY SearchFunctionsAssumption DEF Database
  <2>2. MeetThreshold(d.single[n]) /\ MeetThreshold(d.multiple[n])
    BY DEF HitsMeetThreshold
  <2>3. d.single[n] \o d.multiple[n] \in Seq(Hit)
        /\ MeetThreshold(d.single[n] \o d.multiple[n])
    <3> DEFINE one == d.single[n]
               more == d.multiple[n]
    <3>1. one \in Seq(Hit) /\ more \in Seq(Hit)
      BY <2>1
    <3>2. /\ \A i \in DOMAIN one : one[i].confidence >= Threshold
          /\ \A i \in DOMAIN more : more[i].confidence >= Threshold
      BY <2>2 DEF MeetThreshold
    <3> HIDE DEF one, more
    <3>3. one \o more \in Seq(Hit)
      BY <3>1
    <3>4. \A i \in DOMAIN (one \o more) : (one \o more)[i].confidence >= Threshold
      BY <3>1, <3>2
    <3> QED
      BY <3>3, <3>4 DEF MeetThreshold, one, more
  <2> QED
    BY <1>1, <2>3 DEF ArtistSearch
<1>3. ASSUME NEW a \in ArtistIds, NEW n \in RecordingNames, d.blobs[a] # None,
             RecordingSearch(d, a, n) # None
      PROVE  MeetThreshold(RecordingSearch(d, a, n))
  <2>1. d.blobs[a].recordings[n] \in Seq(Hit)
    BY <1>3, IndexSearchType DEF Blob
  <2>2. MeetThreshold(d.blobs[a].recordings[n])
    BY <1>3, Zenon DEF HitsMeetThreshold
  <2> QED
    BY <1>1, <1>3, <2>1, <2>2 DEF RecordingSearch
<1> QED
  BY <1>2, <1>3

\* The candidates of a request are artists that meet the threshold.
LEMMA CandidatesType ==
  ASSUME NEW d \in Databases, HitsMeetThreshold(d), NEW q \in Query
  PROVE  /\ Lookup!Candidates(d, q) \in Seq(Hit)
         /\ MeetThreshold(Lookup!Candidates(d, q))
         /\ \A i \in DOMAIN Lookup!Candidates(d, q) :
               Lookup!Candidates(d, q)[i].id \in ArtistIds
<1>1. q.artist \in ArtistNames
  BY DEF Query
<1>2. Lookup!Candidates(d, q) = IF q.artist \in Encodable
                               THEN ArtistSearch(d, q.artist) ELSE d.stupid[q.artist]
  BY SameSearches DEF Lookup!Candidates
<1>3. MeetThreshold(d.stupid[q.artist])
  BY <1>1 DEF HitsMeetThreshold
<1> QED
  BY <1>1, <1>2, <1>3, ArtistSearchType, SearchesMeetThreshold

-----------------------------------------------------------------------------
(* How far the machine has got with the request.                           *)

Candidates == Lookup!Candidates(db, query)

ErrorsUpTo(n) == \A e \in errors : e[2] \in 1..n

\* Before artists are selected nothing has failed, and the name looked up is
\* that of the request.
NamesInv ==
    Running({"artist_name_check", "artist_search", "clean_artist_name",
             "stupid_artist_search"}) =>
       /\ errors = {}
       /\ artist_match_index = -1
       /\ current_state = "artist_search" =>
             query.artist \in Encodable /\ current_artist_credit_name = query.artist
       /\ current_state = "stupid_artist_search" =>
             query.artist \notin Encodable /\ current_artist_credit_name = query.artist
       /\ current_state = "clean_artist_name" => Candidates = <<>>

\* The candidates before the one selected do not decide, and no call has
\* failed for it or a later one.
ArtistsInv ==
    /\ Running(AtArtists) => artist_matches = Candidates
    /\ Running({"select_artist_match"}) =>
          /\ Passed(db, query, errors, artist_match_index + 1)
          /\ ErrorsUpTo(artist_match_index + 1)
    /\ Running(AtArtist \cup {"success_fetch_metadata"}) =>
          /\ artist_match_index + 1 \in DOMAIN Candidates
          /\ selected_artist_credit_id = Candidates[artist_match_index + 1].id
          /\ Passed(db, query, errors, artist_match_index)
          /\ ErrorsUpTo(artist_match_index)

\* Without a release in the request the best recording is the only one tried;
\* with one, the recordings before the one selected do not match.
RecordingsInv ==
    LET a        == selected_artist_credit_id
        best     == query.release = NoName
        found    == ~best /\ Lookup!Releases(db, query, a) \notin {None, <<>>}
        matching == Lookup!Matching(db, query, a)
    IN  /\ Running({"recording_search"}) => recording_match_index = -1
        /\ Running(AtRecordings) => recording_matches # <<>>
        /\ Running({"select_recording_match"}) =>
              /\ best => recording_match_index = -1
              /\ found => \A j \in matching : j > recording_match_index + 1
        /\ Running(AtRecording) =>
              /\ best => recording_match_index = 0
              /\ found => \A j \in matching : j > recording_match_index
        /\ Running({"evaluate_match"}) /\ ~best =>
              release_matches = Lookup!Releases(db, query, a)

\* A match is that of the candidate selected, and a failure is an answer.
MatchInv ==
    /\ Running({"success_fetch_metadata"}) =>
          /\ Lookup!Decides(db, query, selected_artist_credit_id)
          /\ search_match = Lookup!MatchOf(db, query, selected_artist_credit_id, {})
    /\ status # "running" \/ current_state # "success_fetch_metadata"
          => search_match = None
    /\ Running({"fail"}) => Lookup!Answer(db, query, errors) = None

LookupInv == NamesInv /\ ArtistsInv /\ RecordingsInv /\ MatchInv

IInv == MachineInv /\ FreshInv /\ LookupInv

\* What nmslib and the builders are trusted with: hits above the threshold, and
\* links to every canonical release.
Trusted == \A d \in Databases : HitsMeetThreshold(d) /\ CanonicalLinks(d)

Implements == [Lookup!Next]_Lookup!vars

\* A transition within a search is a step MappingLookup does not see.
LEMMA Unseen ==
  ASSUME UNCHANGED <<db, query, status, answer, errors>>
  PROVE  Implements
BY DEF Implements, Lookup!vars

\* Only three of the states call the database.
LEMMA NothingFailed ==
  ASSUME current_state \notin {"recording_search", "lookup_canonical_release",
                               "success_fetch_metadata"}
  PROVE  errors \cup Failed = errors
<1>1. ~LoadFails /\ ~CanonicalFails /\ ~MetadataFails
  BY DEF LoadFails, CanonicalFails, MetadataFails, In
<1> QED
  BY <1>1 DEF Failed

\* Before an artist is selected only NamesInv speaks of the state.
LEMMA NoArtistYet ==
  ASSUME current_state' \in {"artist_name_check", "artist_search",
                             "clean_artist_name", "stupid_artist_search"},
         search_match' = None, NamesInv'
  PROVE  LookupInv'
BY DEF LookupInv, ArtistsInv, RecordingsInv, MatchInv, Running, AtArtists,
       AtArtist, AtRecordings, AtRecording

\* When artists are there the first is to be selected.
LEMMA ArtistsFound ==
  ASSUME current_state' = "select_artist_match", search_match' = None,
         artist_matches' = Candidates', artist_match_index' = -1, errors' = {},
         Candidates' \in Seq(Hit)
  PROVE  LookupInv'
<1>1. /\ Passed(db, query, errors, artist_match_index + 1)'
      /\ ErrorsUpTo(artist_match_index + 1)'
  BY DEF Passed, ErrorsUpTo, Candidates
<1> QED
  BY <1>1 DEF LookupInv, NamesInv, ArtistsInv, RecordingsInv, MatchInv, Running,
              AtArtists, AtArtist, AtRecordings, AtRecording

\* A failure of the search is one of the lookup.
LEMMA Failing ==
  ASSUME current_state' = "fail", search_match' = None,
         (Lookup!Answer(db, query, errors))' = None
  PROVE  LookupInv'
BY DEF LookupInv, NamesInv, ArtistsInv, RecordingsInv, MatchInv, Running,
       AtArtists, AtArtist, AtRecordings, AtRecording

\* do_artist_name_check: the name looked up is that of the request.
LEMMA NameCheckLookup ==
  ASSUME IInv, DoArtistNameCheck, errors' = errors \cup Failed
  PROVE  LookupInv' /\ Implements
<1>1. /\ current_state = "artist_name_check" /\ status = "running"
      /\ current_artist_credit_name' = query.artist
      /\ UNCHANGED <<db, query, artist_match_index>>
  BY DEF DoArtistNameCheck, In, requestVars, matchVars, artistVars
<1>2. errors' = errors
  BY <1>1, NothingFailed
<1>3. /\ current_state' = IF query.artist \in Encodable
                          THEN "artist_search" ELSE "stupid_artist_search"
      /\ UNCHANGED <<status, answer, search_match>>
  BY <1>1, EnterTable DEF DoArtistNameCheck, Enter, Goes
<1>4. NamesInv'
  BY <1>1, <1>2, <1>3 DEF IInv, LookupInv, NamesInv, Running
<1> QED
  BY <1>1, <1>2, <1>3, <1>4, NoArtistYet, Unseen DEF IInv, LookupInv, MatchInv

\* do_artist_search: the candidates of a name that can be encoded.
LEMMA ArtistSearchLookup ==
  ASSUME IInv, Trusted, DoArtistSearch, errors' = errors \cup Failed
  PROVE  LookupInv' /\ Implements
<1>1. /\ current_state = "artist_search" /\ status = "running"
      /\ query \in Query /\ db \in Databases
      /\ UNCHANGED <<db, query, artist_match_index>>
  BY DEF DoArtistSearch, In, requestVars, IInv, MachineInv, TypeOK
<1>2. errors' = errors
  BY <1>1, NothingFailed
<1>3. /\ errors = {} /\ artist_match_index = -1 /\ search_match = None
      /\ query.artist \in Encodable
      /\ ArtistSearch(db, current_artist_credit_name) = Candidates
  BY <1>1, SameSearches DEF IInv, LookupInv, NamesInv, MatchInv, Running, Candidates,
                            Lookup!Candidates
<1>4. Candidates \in Seq(Hit) /\ Candidates' = Candidates
  BY <1>1, CandidatesType DEF Candidates, Trusted
<1>5. CASE Candidates # <<>>
  <2>1. artist_matches' = Candidates /\ Enter("has_matches")
    BY <1>3, <1>5 DEF DoArtistSearch
  <2>2. /\ current_state' = "select_artist_match"
        /\ UNCHANGED <<status, answer, search_match>>
    BY <1>1, <2>1, EnterTable DEF Enter, Goes
  <2> QED
    BY <1>1, <1>2, <1>3, <1>4, <2>1, <2>2, ArtistsFound, Unseen
<1>6. CASE Candidates = <<>> /\ has_cleaned_artist
  <2>1. /\ current_state' = "clean_artist_name"
        /\ UNCHANGED <<status, answer, search_match>>
    BY <1>1, <1>3, <1>6, EnterTable DEF DoArtistSearch, Enter, Goes
  <2>2. NamesInv'
    BY <1>1, <1>2, <1>3, <1>4, <1>6, <2>1 DEF NamesInv, Running
  <2> QED
    BY <1>1, <1>2, <1>3, <2>1, <2>2, NoArtistYet, Unseen
<1>7. CASE Candidates = <<>> /\ ~has_cleaned_artist
  <2>1. status' = "idle" /\ answer' = None /\ search_match' = None
        /\ UNCHANGED current_state
    BY <1>1, <1>3, <1>7
       DEF DoArtistSearch, Enter, EnterWith, Return, Transitions
  <2>2. LookupInv'
    BY <2>1 DEF LookupInv, NamesInv, ArtistsInv, RecordingsInv, MatchInv, Running
  <2>3. Lookup!Answer(db, query, errors) = None
    BY <1>7, AnswerNone DEF Candidates
  <2>4. Lookup!Reply
    BY <1>1, <1>2, <2>1, <2>3, RequestsAssumption DEF Lookup!Reply
  <2> QED
    BY <2>2, <2>4 DEF Implements, Lookup!Next
<1> QED
  BY <1>5, <1>6, <1>7

\* do_clean_artist_name is entered with no candidate, whatever it does next.
LEMMA CleanLookup ==
  ASSUME IInv, DoCleanArtistName, errors' = errors \cup Failed
  PROVE  LookupInv' /\ Implements
<1>1. /\ current_state = "clean_artist_name" /\ status = "running"
      /\ UNCHANGED <<db, query, artist_match_index>>
  BY DEF DoCleanArtistName, In, requestVars, matchVars, artistVars
<1>2. errors' = errors
  BY <1>1, NothingFailed
<1>3. /\ errors = {} /\ artist_match_index = -1 /\ search_match = None
      /\ Candidates = <<>>
  BY <1>1 DEF IInv, LookupInv, NamesInv, MatchInv, Running
<1>4. /\ current_state' \in {"artist_name_check", "fail"}
      /\ UNCHANGED <<status, answer, search_match>>
  BY <1>1, EnterTable DEF DoCleanArtistName, Enter, Goes
<1>5. Lookup!Answer(db, query, errors) = None
  BY <1>3, AnswerNone DEF Candidates
<1>6. CASE current_state' = "artist_name_check"
  <2>1. NamesInv'
    BY <1>1, <1>2, <1>3, <1>6 DEF NamesInv, Running
  <2> QED
    BY <1>1, <1>2, <1>3, <1>4, <1>6, <2>1, NoArtistYet, Unseen
<1>7. CASE current_state' = "fail"
  <2>1. (Lookup!Answer(db, query, errors))' = None
    BY <1>1, <1>2, <1>5
  <2> QED
    BY <1>1, <1>2, <1>3, <1>4, <1>7, <2>1, Failing, Unseen
<1> QED
  BY <1>4, <1>6, <1>7

\* do_stupid_artist_search: the candidates of any other name.
LEMMA StupidSearchLookup ==
  ASSUME IInv, Trusted, DoStupidArtistSearch, errors' = errors \cup Failed
  PROVE  LookupInv' /\ Implements
<1>1. /\ current_state = "stupid_artist_search" /\ status = "running"
      /\ query \in Query /\ db \in Databases
      /\ UNCHANGED <<db, query>> /\ artist_match_index' = -1
  BY DEF DoStupidArtistSearch, In, requestVars, IInv, MachineInv, TypeOK
<1>2. errors' = errors
  BY <1>1, NothingFailed
<1>3. /\ errors = {} /\ search_match = None
      /\ db.stupid[current_artist_credit_name] = Candidates
  BY <1>1 DEF IInv, LookupInv, NamesInv, MatchInv, Running, Candidates,
              Lookup!Candidates
<1>4. Candidates \in Seq(Hit) /\ Candidates' = Candidates
  BY <1>1, CandidatesType DEF Candidates, Trusted
<1>5. CASE Candidates # <<>>
  <2>1. artist_matches' = Candidates /\ Enter("has_matches")
    BY <1>3, <1>5 DEF DoStupidArtistSearch
  <2>2. /\ current_state' = "select_artist_match"
        /\ UNCHANGED <<status, answer, search_match>>
    BY <1>1, <2>1, EnterTable DEF Enter, Goes
  <2> QED
    BY <1>1, <1>2, <1>3, <1>4, <2>1, <2>2, ArtistsFound, Unseen
<1>6. CASE Candidates = <<>>
  <2>1. current_state' = "fail" /\ UNCHANGED <<status, answer, search_match>>
    BY <1>1, <1>3, <1>6, EnterTable DEF DoStupidArtistSearch, Enter, Goes
  <2>2. Lookup!Answer(db, query, errors) = None
    BY <1>6, AnswerNone DEF Candidates
  <2>3. (Lookup!Answer(db, query, errors))' = None
    BY <1>1, <1>2, <2>2
  <2> QED
    BY <1>1, <1>2, <1>3, <2>1, <2>3, Failing, Unseen
<1> QED
  BY <1>5, <1>6

\* Where an artist is selected, in terms of MappingLookup.
LEMMA Selected ==
  ASSUME IInv, Trusted, Running(AtArtist \cup {"success_fetch_metadata"})
  PROVE  /\ query \in Query /\ db \in Databases
         /\ Candidates \in Seq(Hit)
         /\ artist_match_index \in Nat
         /\ artist_match_index + 1 \in DOMAIN Candidates
         /\ selected_artist_credit_id = Candidates[artist_match_index + 1].id
         /\ selected_artist_credit_id \in ArtistIds
         /\ Passed(db, query, errors, artist_match_index)
         /\ \A call : <<call, artist_match_index + 1>> \notin errors
<1>1. /\ query \in Query /\ db \in Databases
      /\ artist_match_index \in Nat \cup {-1}
      /\ artist_match_index + 1 \in DOMAIN Candidates
      /\ selected_artist_credit_id = Candidates[artist_match_index + 1].id
      /\ Passed(db, query, errors, artist_match_index)
      /\ ErrorsUpTo(artist_match_index)
  BY DEF IInv, MachineInv, TypeOK, ArtistsReady, LookupInv, ArtistsInv, Running
<1>2. /\ Candidates \in Seq(Hit)
      /\ \A i \in DOMAIN Candidates : Candidates[i].id \in ArtistIds
  BY <1>1, CandidatesType DEF Candidates, Trusted
<1>3. artist_match_index \in Nat
  BY <1>1, <1>2
<1>4. ASSUME NEW call PROVE <<call, artist_match_index + 1>> \notin errors
  BY <1>1, <1>3 DEF ErrorsUpTo
<1> QED
  BY <1>1, <1>2, <1>3, <1>4

\* If the candidate selected decides, the answer is the decision about it,
\* whatever else fails for it.
LEMMA DecidingAnswer ==
  ASSUME IInv, Trusted, Running(AtArtist \cup {"success_fetch_metadata"}),
         Lookup!Decides(db, query, selected_artist_credit_id),
         NEW more, <<"load", artist_match_index + 1>> \notin more
  PROVE  Lookup!Answer(db, query, errors \cup more)
           = Lookup!Decision(db, query, selected_artist_credit_id,
                {call \in Lookup!Calls : <<call, artist_match_index + 1>> \in more})
<1> DEFINE n == artist_match_index + 1
           errs == errors \cup more
<1>1. /\ Candidates \in Seq(Hit) /\ artist_match_index \in Nat
      /\ n \in DOMAIN Candidates
      /\ selected_artist_credit_id = Candidates[n].id
      /\ Passed(db, query, errors, artist_match_index)
      /\ \A call : <<call, n>> \notin errors
  BY Selected
<1>2. n - 1 = artist_match_index
  BY <1>1
<1>3. Passed(db, query, errs, n - 1)
  BY <1>1, <1>2, PassedWithErrors
<1>4. Decided(db, query, errs, n)
  BY <1>1 DEF Decided, Candidates
<1>5. {call \in Lookup!Calls : <<call, n>> \in errs}
        = {call \in Lookup!Calls : <<call, n>> \in more}
  BY <1>1
<1>6. /\ Lookup!Candidates(db, query) \in Seq(Hit)
      /\ n \in DOMAIN Lookup!Candidates(db, query)
      /\ selected_artist_credit_id = Lookup!Candidates(db, query)[n].id
  BY <1>1 DEF Candidates
<1> HIDE DEF n, errs
<1>7. AnsweredBy(db, query, errs, n)
  BY <1>3, <1>4, <1>6, AnswerFirst
<1> QED
  BY <1>5, <1>6, <1>7 DEF AnsweredBy, n, errs

\* Leaving a candidate that does not decide for the next one.
LEMMA NextCandidate ==
  ASSUME IInv, Trusted, Running(AtArtist), UNCHANGED <<db, query, artistVars>>,
         current_state' = "select_artist_match", search_match' = None,
         errors' \in {errors, errors \cup {<<"load", artist_match_index + 1>>}},
         ~Decided(db, query, errors', artist_match_index + 1)
  PROVE  LookupInv'
<1> DEFINE n == artist_match_index + 1
<1>1. /\ Candidates \in Seq(Hit) /\ artist_match_index \in Nat
      /\ Passed(db, query, errors, artist_match_index)
  BY Selected DEF Running
<1>2. ErrorsUpTo(artist_match_index) /\ artist_matches = Candidates
  BY DEF IInv, LookupInv, ArtistsInv, Running, AtArtist, AtArtists
<1>3. errors' \in {errors, errors \cup {<<"load", n>>}}
  OBVIOUS
<1>4. Passed(db, query, errors', artist_match_index)
  <2>1. Passed(db, query, errors \cup {<<"load", n>>}, artist_match_index)
    BY <1>1, PassedWithErrors
  <2> QED
    BY <1>1, <1>3, <2>1
<1>5. Passed(db, query, errors', n)
  <2>1. \A i \in DOMAIN Lookup!Candidates(db, query) :
           i <= n => i <= artist_match_index \/ i = n
    BY <1>1 DEF Candidates
  <2> QED
    BY <1>4, <2>1 DEF Passed
<1>6. ErrorsUpTo(n)'
  BY <1>1, <1>2, <1>3 DEF ErrorsUpTo, artistVars
<1>7. /\ Passed(db, query, errors, artist_match_index + 1)'
      /\ ErrorsUpTo(artist_match_index + 1)'
      /\ artist_matches' = Candidates'
  BY <1>2, <1>5, <1>6 DEF artistVars, Candidates
<1> QED
  BY <1>7 DEF LookupInv, NamesInv, ArtistsInv, RecordingsInv, MatchInv, Running,
              AtArtists, AtArtist, AtRecordings, AtRecording

\* Going on with the candidate selected.
LEMMA SameCandidate ==
  ASSUME IInv, Running(AtArtist), UNCHANGED <<db, query, errors, artistVars>>,
         current_state' \in AtArtist, search_match' = None, RecordingsInv'
  PROVE  LookupInv'
<1>1. ArtistsInv'
  BY DEF IInv, LookupInv, ArtistsInv, Running, AtArtists, AtArtist, AtRecordings,
         AtRecording, artistVars, Candidates, ErrorsUpTo
<1> QED
  BY <1>1 DEF LookupInv, NamesInv, MatchInv, Running, AtArtist, AtRecordings,
              AtRecording

\* do_select_artist_match: the next candidate, or none is left to decide.
LEMMA SelectArtistLookup ==
  ASSUME IInv, Trusted, DoSelectArtistMatch, errors' = errors \cup Failed
  PROVE  LookupInv' /\ Implements
<1> DEFINE i == Following(artist_match_index)
<1>1. /\ current_state = "select_artist_match" /\ status = "running"
      /\ query \in Query /\ db \in Databases
      /\ UNCHANGED <<db, query, artist_matches>> /\ artist_match_index' = i
  BY DEF DoSelectArtistMatch, In, requestVars, IInv, MachineInv, TypeOK
<1>2. errors' = errors
  BY <1>1, NothingFailed
<1>3. /\ artist_matches = Candidates /\ search_match = None
      /\ artist_match_index \in Nat \cup {-1}
      /\ Passed(db, query, errors, artist_match_index + 1)
      /\ ErrorsUpTo(artist_match_index + 1)
  BY <1>1 DEF IInv, MachineInv, ArtistsReady, LookupInv, ArtistsInv, MatchInv, Running,
              AtArtists
<1>4. /\ Candidates \in Seq(Hit) /\ MeetThreshold(Candidates)
      /\ Candidates' = Candidates
  BY <1>1, CandidatesType DEF Candidates, Trusted
<1>5. i = artist_match_index + 1 /\ i \in Nat
  BY <1>3 DEF Following
<1>6. CASE MeetsThreshold(artist_matches, i)
  <2>1. /\ current_state' = "recording_search"
        /\ UNCHANGED <<status, answer, search_match>>
        /\ selected_artist_credit_id' = Elem(artist_matches, i).id
        /\ recording_match_index' = -1
    BY <1>1, <1>6, EnterTable DEF DoSelectArtistMatch, Enter, Goes
  <2>2. i + 1 \in DOMAIN Candidates
    BY <1>3, <1>4, <1>5, <1>6 DEF MeetsThreshold
  <2>3. /\ artist_match_index' + 1 \in DOMAIN Candidates'
        /\ selected_artist_credit_id' = Candidates'[artist_match_index' + 1].id
        /\ Passed(db, query, errors, artist_match_index)'
        /\ ErrorsUpTo(artist_match_index)'
    BY <1>1, <1>2, <1>3, <1>4, <1>5, <2>1, <2>2 DEF Elem, ErrorsUpTo
  <2>4. ArtistsInv'
    BY <1>1, <1>3, <1>4, <2>1, <2>3
       DEF ArtistsInv, Running, AtArtists, AtArtist, AtRecordings, AtRecording
  <2>5. NamesInv' /\ RecordingsInv' /\ MatchInv'
    BY <1>3, <2>1 DEF NamesInv, RecordingsInv, MatchInv, Running, AtRecordings,
                      AtRecording
  <2> QED
    BY <1>1, <1>2, <2>1, <2>4, <2>5, Unseen DEF LookupInv
<1>7. CASE ~MeetsThreshold(artist_matches, i)
  <2>1. /\ current_state' = "fail"
        /\ UNCHANGED <<status, answer, search_match>>
    BY <1>1, <1>7, EnterTable DEF DoSelectArtistMatch, Enter, Goes
  <2>2. i >= Len(Candidates)
    BY <1>3, <1>4, <1>5, <1>7 DEF MeetsThreshold, Elem, MeetThreshold
  <2>3. \A j \in DOMAIN Lookup!Candidates(db, query) : ~Decided(db, query, errors, j)
    BY <1>3, <1>4, <1>5, <2>2 DEF Passed, Candidates
  <2>4. Lookup!Answer(db, query, errors) = None
    BY <2>3, AnswerNone
  <2>5. (Lookup!Answer(db, query, errors))' = None
    BY <1>1, <1>2, <2>4
  <2> QED
    BY <1>1, <1>2, <1>3, <2>1, <2>5, Failing, Unseen
<1> QED
  BY <1>6, <1>7

\* do_recording_search: a candidate without recordings does not decide, nor
\* does one whose index cannot be read.
LEMMA RecordingSearchLookup ==
  ASSUME IInv, Trusted, DoRecordingSearch, errors' = errors \cup Failed
  PROVE  LookupInv' /\ Implements
<1> DEFINE a == selected_artist_credit_id
           n == artist_match_index + 1
<1>1. /\ current_state = "recording_search" /\ status = "running"
      /\ UNCHANGED <<db, query, artistVars, recording_match_index>>
      /\ Running(AtArtist)
  BY DEF DoRecordingSearch, In, requestVars, Running, AtArtist
<1>2. PICK index \in Opened :
         /\ release_recording_index' = index
         /\ \/ index = None /\ Enter("no_matches")
            \/ /\ index # None
               /\ recording_matches' = RecordingSearch(db, index, query.recording)
               /\ Enter(HasMatches(recording_matches'))
  BY DEF DoRecordingSearch
<1>3. /\ Candidates \in Seq(Hit) /\ artist_match_index \in Nat
      /\ n \in DOMAIN Candidates /\ a = Candidates[n].id /\ a \in ArtistIds
      /\ query \in Query /\ db \in Databases
  BY <1>1, Selected DEF Running
<1>4. search_match = None
  BY <1>1 DEF IInv, LookupInv, MatchInv
<1>5. index # None => index = a /\ db.blobs[a] # None
  BY <1>3 DEF Opened, LoadIndex, IInv, MachineInv, IndexReady
<1>6. /\ UNCHANGED <<status, answer, search_match>>
      /\ current_state' = IF index = None \/ HasMatches(recording_matches') = "no_matches"
                          THEN "select_artist_match" ELSE "select_recording_match"
  BY <1>1, <1>2, EnterTable DEF HasMatches, Enter, Goes
<1>7. Failed = IF index = None /\ db.blobs[a] # None THEN {<<"load", n>>} ELSE {}
  <2>1. ~CanonicalFails /\ ~MetadataFails
    BY <1>1 DEF CanonicalFails, MetadataFails, In
  <2>2. LoadFails <=> index = None /\ db.blobs[a] # None
    BY <1>1, <1>2, <1>3, <1>6, SearchFunctionsAssumption DEF LoadFails, In, LoadIndex
  <2> QED
    BY <2>1, <2>2 DEF Failed
<1>8. Lookup!Recordings(db, query, a)
        = IF db.blobs[a] = None THEN None ELSE RecordingSearch(db, a, query.recording)
  BY SameSearches DEF Lookup!Recordings
<1>9. CASE index = None \/ HasMatches(recording_matches') = "no_matches"
  <2>1. ~Decided(db, query, errors', n)
    <3>1. CASE index = None /\ db.blobs[a] # None
      BY <1>7, <3>1 DEF Decided
    <3>2. CASE index = None /\ db.blobs[a] = None
      BY <1>3, <1>8, <3>2 DEF Decided, Lookup!Decides, Candidates
    <3>3. CASE index # None
      <4>1. recording_matches' \in {None, <<>>}
        BY <1>9, <3>3 DEF HasMatches
      <4>2. Lookup!Recordings(db, query, a) \in {None, <<>>}
        BY <1>2, <1>5, <1>8, <3>3, <4>1
      <4> QED
        BY <1>3, <4>2 DEF Decided, Lookup!Decides, Candidates
    <3> QED
      BY <3>1, <3>2, <3>3
  <2>2. LookupInv'
    BY <1>1, <1>4, <1>6, <1>7, <1>9, <2>1, NextCandidate
  <2>3. Implements
    <3>1. CASE Failed = {}
      BY <1>1, <1>6, <3>1, Unseen
    <3>2. CASE Failed = {<<"load", n>>}
      <4>1. Lookup!Err("load")
        BY <1>1, <1>3, <1>6, <3>2, RequestsAssumption DEF Lookup!Err, Candidates
      <4> QED
        BY <4>1 DEF Implements, Lookup!Next, Lookup!Calls
    <3> QED
      BY <1>7, <3>1, <3>2
  <2> QED
    BY <2>2, <2>3
<1>10. CASE index # None /\ HasMatches(recording_matches') # "no_matches"
  <2>1. /\ errors' = errors /\ current_state' = "select_recording_match"
        /\ recording_matches' # <<>>
    BY <1>6, <1>7, <1>10 DEF HasMatches
  <2>2. recording_match_index = -1 /\ query.recording \in RecordingNames
    BY <1>1, <1>3 DEF IInv, LookupInv, RecordingsInv, Running, Query
  <2>3. \A j \in Lookup!Matching(db, query, a) : j > 0
    <3>1. Lookup!Recordings(db, query, a) \in Seq(Hit) \cup {None}
      BY <1>3, <1>8, <2>2, IndexSearchType
    <3>2. Lookup!Recordings(db, query, a) # None
      BY <1>2, <1>5, <1>8, <1>10 DEF HasMatches
    <3> QED
      BY <3>1, <3>2 DEF Lookup!Matching
  <2>4. RecordingsInv'
    BY <1>1, <2>1, <2>2, <2>3
       DEF RecordingsInv, Running, AtRecordings, AtRecording, artistVars
  <2> QED
    BY <1>1, <1>4, <1>6, <2>1, <2>4, SameCandidate, Unseen
       DEF AtArtist, AtRecordings
<1> QED
  BY <1>6, <1>9, <1>10

\* The recordings of the candidate selected, in terms of MappingLookup.
LEMMA Recorded ==
  ASSUME IInv, Trusted, Running(AtRecordings)
  PROVE  LET a == selected_artist_credit_id
         IN  /\ a = Candidates[artist_match_index + 1].id /\ a \in ArtistIds
             /\ db \in Databases /\ query \in Query
             /\ release_recording_index = a /\ db.blobs[a] # None
             /\ recording_matches = Lookup!Recordings(db, query, a)
             /\ recording_matches \in Seq(Hit) /\ recording_matches # <<>>
             /\ recording_matches # None
             /\ MeetThreshold(recording_matches)
             /\ recording_match_index \in Nat \cup {-1}
<1> DEFINE a == selected_artist_credit_id
<1>1. /\ a = Candidates[artist_match_index + 1].id /\ a \in ArtistIds
      /\ db \in Databases /\ query \in Query
  BY Selected DEF Running, AtArtist
<1>2. /\ release_recording_index = a /\ db.blobs[a] # None
      /\ recording_matches = RecordingSearch(db, a, query.recording)
      /\ recording_matches # None /\ recording_matches \in Seq(Hit)
      /\ recording_match_index \in Nat \cup {-1}
  BY DEF IInv, MachineInv, TypeOK, IndexReady, RecordingsReady
<1>3. recording_matches # <<>>
  BY DEF IInv, LookupInv, RecordingsInv
<1>4. recording_matches = Lookup!Recordings(db, query, a)
  BY <1>2, SameSearches DEF Lookup!Recordings
<1>5. MeetThreshold(recording_matches)
  BY <1>1, <1>2, SearchesMeetThreshold DEF Trusted, Query
<1> QED
  BY <1>1, <1>2, <1>3, <1>4, <1>5

\* The recording selected, and the match that is evaluated for it.
LEMMA RecordingSelected ==
  ASSUME IInv, Trusted, Running(AtRecording)
  PROVE  /\ recording_match_index + 1 \in DOMAIN recording_matches
         /\ recording_match_index \in Nat
         /\ selected_recording_id = recording_matches[recording_match_index + 1].id
BY Recorded DEF IInv, MachineInv, RecordingsReady, Running, AtRecordings, Elem

\* A search that takes the process down answers nothing.
LEMMA CrashLookup ==
  ASSUME IInv, RecordingSearchCrashes, errors' = errors \cup Failed
  PROVE  LookupInv' /\ Implements
<1>1. /\ current_state = "recording_search" /\ status = "running"
      /\ status' = "crashed"
      /\ UNCHANGED <<db, query, answer, search_match, current_state>>
  BY DEF RecordingSearchCrashes, In, requestVars
<1>2. errors' = errors
  BY <1>1 DEF Failed, LoadFails, CanonicalFails, MetadataFails, In
<1>3. search_match' = None
  BY <1>1 DEF IInv, LookupInv, MatchInv
<1>4. LookupInv'
  BY <1>1, <1>3 DEF LookupInv, NamesInv, ArtistsInv, RecordingsInv, MatchInv, Running
<1> QED
  BY <1>1, <1>2, <1>4 DEF Implements, Lookup!vars

\* do_select_recording_match: the next recording, or none is left to match.
LEMMA SelectRecordingLookup ==
  ASSUME IInv, Trusted, DoSelectRecordingMatch, errors' = errors \cup Failed
  PROVE  LookupInv' /\ Implements
<1> DEFINE a == selected_artist_credit_id
           i == Following(recording_match_index)
<1>1. /\ current_state = "select_recording_match" /\ status = "running"
      /\ Running(AtRecordings) /\ Running(AtArtist)
      /\ UNCHANGED <<db, query, artistVars>> /\ recording_match_index' = i
      /\ UNCHANGED recording_matches
  BY DEF DoSelectRecordingMatch, In, requestVars, Running, AtArtist, AtRecordings
<1>2. errors' = errors /\ search_match = None
  BY <1>1, NothingFailed DEF IInv, LookupInv, MatchInv
<1>3. /\ a = Candidates[artist_match_index + 1].id
      /\ recording_matches = Lookup!Recordings(db, query, a)
      /\ recording_matches \in Seq(Hit) /\ recording_matches # <<>>
      /\ MeetThreshold(recording_matches)
      /\ recording_match_index \in Nat \cup {-1}
  BY <1>1, Recorded
<1>4. i = recording_match_index + 1 /\ i \in Nat
  BY <1>3 DEF Following
<1>5. /\ query.release = NoName => recording_match_index = -1
      /\ query.release # NoName
            /\ Lookup!Releases(db, query, a) \notin {None, <<>>}
            => \A j \in Lookup!Matching(db, query, a) : j > i
  <2>1. Running({"select_recording_match"}) /\ RecordingsInv
    BY <1>1 DEF Running, IInv, LookupInv
  <2> QED
    BY <1>4, <2>1 DEF RecordingsInv
<1>6. CASE MeetsThreshold(recording_matches, i)
  <2>1. /\ current_state' = "has_release_argument"
        /\ UNCHANGED <<status, answer, search_match>>
    BY <1>1, <1>6, EnterTable DEF DoSelectRecordingMatch, Enter, Goes
  <2>2. RecordingsInv'
    BY <1>1, <1>3, <1>4, <1>5, <2>1
       DEF RecordingsInv, Running, AtRecordings, AtRecording, artistVars
  <2> QED
    BY <1>1, <1>2, <2>1, <2>2, SameCandidate, Unseen
       DEF AtArtist, AtRecordings, AtRecording
<1>7. CASE ~MeetsThreshold(recording_matches, i)
  <2>1. /\ current_state' = "select_artist_match"
        /\ UNCHANGED <<status, answer, search_match>>
    BY <1>1, <1>7, EnterTable DEF DoSelectRecordingMatch, Enter, Goes
  <2>2. i >= Len(recording_matches)
    BY <1>3, <1>4, <1>7 DEF MeetsThreshold, Elem, MeetThreshold
  <2>3. query.release # NoName
    BY <1>3, <1>4, <1>5, <2>2
  <2>4. ~Lookup!Decides(db, query, a)
    <3>1. CASE Lookup!Releases(db, query, a) \in {None, <<>>}
      BY <2>3, <3>1 DEF Lookup!Decides
    <3>2. CASE Lookup!Releases(db, query, a) \notin {None, <<>>}
      <4>1. \A j \in Lookup!Matching(db, query, a) : j > i /\ j \in DOMAIN recording_matches
        BY <1>3, <1>5, <2>3, <3>2 DEF Lookup!Matching
      <4>2. Lookup!Matching(db, query, a) = {}
        BY <1>3, <1>4, <2>2, <4>1
      <4> QED
        BY <2>3, <4>2 DEF Lookup!Decides
    <3> QED
      BY <3>1, <3>2
  <2>5. ~Decided(db, query, errors', artist_match_index + 1)
    BY <1>3, <2>4 DEF Decided, Candidates
  <2> QED
    BY <1>1, <1>2, <2>1, <2>5, NextCandidate, Unseen
<1> QED
  BY <1>6, <1>7

\* do_has_release_argument decides nothing.
LEMMA HasReleaseLookup ==
  ASSUME IInv, DoHasReleaseArgument, errors' = errors \cup Failed
  PROVE  LookupInv' /\ Implements
<1>1. /\ current_state = "has_release_argument" /\ status = "running"
      /\ Running(AtArtist) /\ UNCHANGED <<db, query, artistVars, recordingVars>>
  BY DEF DoHasReleaseArgument, In, requestVars, matchVars, Running, AtArtist,
         AtRecordings, AtRecording
<1>2. errors' = errors /\ search_match = None
  BY <1>1, NothingFailed DEF IInv, LookupInv, MatchInv
<1>3. /\ current_state' \in {"release_search", "lookup_canonical_release"}
      /\ UNCHANGED <<status, answer, search_match>>
  BY <1>1, EnterTable DEF DoHasReleaseArgument, Enter, Goes
<1>4. RecordingsInv'
  BY <1>1, <1>3 DEF IInv, LookupInv, RecordingsInv, Running, AtRecordings, AtRecording,
                    artistVars, recordingVars
<1> QED
  BY <1>1, <1>2, <1>3, <1>4, SameCandidate, Unseen
     DEF AtArtist, AtRecordings, AtRecording

\* do_release_search: a candidate without the release does not decide.
LEMMA ReleaseSearchLookup ==
  ASSUME IInv, Trusted, DoReleaseSearch, errors' = errors \cup Failed
  PROVE  LookupInv' /\ Implements
<1> DEFINE a == selected_artist_credit_id
<1>1. /\ current_state = "release_search" /\ status = "running"
      /\ Running(AtArtist) /\ Running(AtRecordings)
      /\ UNCHANGED <<db, query, artistVars, recordingVars>>
  BY DEF DoReleaseSearch, In, requestVars, Running, AtArtist, AtRecordings, AtRecording
<1>2. errors' = errors /\ search_match = None
  BY <1>1, NothingFailed DEF IInv, LookupInv, MatchInv
<1>3. query.release # NoName
  BY <1>1 DEF IInv, MachineInv, ReleaseReady, Running
<1>4. /\ a = Candidates[artist_match_index + 1].id
      /\ release_recording_index = a
  BY <1>1, Recorded
<1>5. /\ release_matches' = Lookup!Releases(db, query, a)
      /\ Enter(HasMatches(release_matches'))
  BY <1>4, SameSearches DEF DoReleaseSearch, Lookup!Releases
<1>6. /\ UNCHANGED <<status, answer, search_match>>
      /\ current_state' = IF release_matches' \in {None, <<>>}
                          THEN "select_artist_match" ELSE "evaluate_match"
  BY <1>1, <1>5, EnterTable DEF HasMatches, Enter, Goes
<1>7. CASE release_matches' \in {None, <<>>}
  <2>1. ~Decided(db, query, errors', artist_match_index + 1)
    BY <1>3, <1>4, <1>5, <1>7 DEF Decided, Lookup!Decides, Candidates
  <2> QED
    BY <1>1, <1>2, <1>6, <1>7, <2>1, NextCandidate, Unseen
<1>8. CASE release_matches' \notin {None, <<>>}
  <2>1. RecordingsInv'
    BY <1>1, <1>5, <1>6, <1>8
       DEF IInv, LookupInv, RecordingsInv, Running, AtRecordings, AtRecording,
           artistVars, recordingVars
  <2> QED
    BY <1>1, <1>2, <1>6, <1>8, <2>1, SameCandidate, Unseen
       DEF AtArtist, AtRecordings, AtRecording
<1> QED
  BY <1>7, <1>8

\* do_lookup_canonical_release: a candidate without it decides for no match.
LEMMA CanonicalLookup ==
  ASSUME IInv, Trusted, DoLookupCanonicalRelease, errors' = errors \cup Failed
  PROVE  LookupInv' /\ Implements
<1> DEFINE a == selected_artist_credit_id
           n == artist_match_index + 1
           canonical == Canonical(db, a, selected_recording_id)
<1>1. /\ current_state = "lookup_canonical_release" /\ status = "running"
      /\ Running(AtArtist) /\ Running(AtRecordings) /\ Running(AtRecording)
      /\ UNCHANGED <<db, query, artistVars, recordingVars>>
  BY DEF DoLookupCanonicalRelease, In, requestVars, Running, AtArtist,
         AtRecordings, AtRecording
<1>2. search_match = None /\ query.release = NoName /\ release_match_index # 0
  BY <1>1 DEF IInv, LookupInv, MatchInv, MachineInv, ReleaseReady, Running, FreshInv
<1>3. PICK release \in {canonical} \cup (IF DbFaults THEN {None} ELSE {}) :
         IF release = None
         THEN release_matches' = None /\ Enter("no_matches")
         ELSE release_matches' = CanonicalResult(release) /\ Enter("has_matches")
  BY <1>2 DEF DoLookupCanonicalRelease
<1>4. /\ Candidates \in Seq(Hit) /\ artist_match_index \in Nat
      /\ n \in DOMAIN Candidates /\ a = Candidates[n].id
      /\ Passed(db, query, errors, artist_match_index)
      /\ \A call : <<call, n>> \notin errors
  BY <1>1, Selected DEF Running
<1>5. /\ recording_matches = Lookup!Recordings(db, query, a)
      /\ recording_matches \notin {None, <<>>}
      /\ db \in Databases
  BY <1>1, Recorded
<1>6. Lookup!Decides(db, query, a)
  BY <1>2, <1>5 DEF Lookup!Decides
<1>7. /\ recording_match_index = 0
      /\ selected_recording_id = recording_matches[1].id
  BY <1>1, <1>2, RecordingSelected DEF IInv, LookupInv, RecordingsInv
<1>8. UNCHANGED <<status, answer, search_match>>
      /\ current_state' = IF release = None THEN "fail" ELSE "evaluate_match"
  BY <1>1, <1>3, EnterTable DEF Enter, Goes
<1>9. Failed = IF release_matches' = None /\ canonical # None
               THEN {<<"canonical", n>>} ELSE {}
  <2>1. ~LoadFails /\ ~MetadataFails
    BY <1>1 DEF LoadFails, MetadataFails, In
  <2>2. CanonicalFails <=> release_matches' = None /\ canonical # None
    BY <1>1 DEF CanonicalFails, In
  <2> QED
    BY <2>1, <2>2 DEF Failed
<1>10. CASE release = None
  <2>1. release_matches' = None
    BY <1>3, <1>10
  <2>2. Lookup!MatchOf(db, query, a, {call \in Lookup!Calls : <<call, n>> \in Failed})
          = None
    <3>1. Lookup!Canonical(db, a, Lookup!Recordings(db, query, a)[1].id) = canonical
      BY <1>5, <1>7, SameSearches
    <3>2. canonical # None => <<"canonical", n>> \in Failed
      BY <1>9, <2>1
    <3> QED
      BY <1>2, <3>1, <3>2 DEF Lookup!MatchOf, Lookup!Calls
  <2>3. (Lookup!Answer(db, query, errors))' = None
    <3>1. <<"load", n>> \notin Failed
      BY <1>9
    <3>2. Lookup!Answer(db, query, errors \cup Failed)
            = Lookup!Decision(db, query, a,
                 {call \in Lookup!Calls : <<call, n>> \in Failed})
      BY <1>1, <1>6, <3>1, DecidingAnswer DEF Running
    <3> QED
      BY <1>1, <2>2, <3>2 DEF Lookup!Decision
  <2>4. LookupInv'
    BY <1>1, <1>2, <1>8, <1>10, <2>3, Failing
  <2>5. Implements
    <3>1. CASE Failed = {}
      BY <1>1, <1>8, <3>1, Unseen
    <3>2. CASE Failed = {<<"canonical", n>>}
      <4>1. query # None
        BY <1>1, RequestsAssumption DEF IInv, MachineInv
      <4>2. Lookup!Err("canonical")
        BY <1>1, <1>4, <1>8, <3>2, <4>1 DEF Lookup!Err, Candidates
      <4> QED
        BY <4>2 DEF Implements, Lookup!Next, Lookup!Calls
    <3> QED
      BY <1>9, <3>1, <3>2
  <2> QED
    BY <2>4, <2>5
<1>11. CASE release # None
  <2>1. release = canonical /\ release_matches' # None
    <3>1. release = canonical
      BY <1>3, <1>11
    <3>2. CanonicalResult(canonical) \in Seq(Hit)
      BY <1>5, <1>11, <3>1, CanonicalType
    <3> QED
      BY <1>3, <1>11, <3>1, <3>2, SearchFunctionsAssumption
  <2>2. errors' = errors
    BY <1>9, <2>1
  <2>3. RecordingsInv'
    BY <1>1, <1>2, <1>5, <1>7, <1>8, <1>11
       DEF RecordingsInv, Running, AtRecordings, AtRecording, artistVars,
           recordingVars
  <2> QED
    BY <1>1, <1>2, <1>8, <1>11, <2>2, <2>3, SameCandidate, Unseen
       DEF AtArtist, AtRecordings, AtRecording
<1> QED
  BY <1>10, <1>11

\* do_evaluate_match: the first recording on the release is the match.
LEMMA EvaluateLookup ==
  ASSUME IInv, Trusted, DoEvaluateMatch, errors' = errors \cup Failed
  PROVE  LookupInv' /\ Implements
<1> DEFINE a == selected_artist_credit_id
           n == artist_match_index + 1
           i == recording_match_index + 1
           rel == release_matches[1]
           match == FindMatch(db, a, a, rel, recording_matches[i])
<1>1. /\ current_state = "evaluate_match" /\ status = "running"
      /\ Running(AtArtist) /\ Running(AtRecordings) /\ Running(AtRecording)
      /\ UNCHANGED <<db, query, artistVars, recordingVars>>
  BY DEF DoEvaluateMatch, In, requestVars, matchVars, Running, AtArtist,
         AtRecordings, AtRecording
<1>2. errors' = errors
  BY <1>1, NothingFailed
<1>3. /\ Candidates \in Seq(Hit) /\ artist_match_index \in Nat
      /\ n \in DOMAIN Candidates /\ a = Candidates[n].id
      /\ Passed(db, query, errors, artist_match_index)
      /\ ErrorsUpTo(artist_match_index)
  BY <1>1, Selected DEF Running, IInv, LookupInv, ArtistsInv
<1>4. /\ recording_matches = Lookup!Recordings(db, query, a)
      /\ recording_matches \in Seq(Hit)
      /\ recording_matches \notin {None, <<>>}
      /\ release_recording_index = a
  BY <1>1, Recorded
<1>5. /\ recording_match_index \in Nat /\ i \in DOMAIN recording_matches
      /\ selected_recording_id = recording_matches[i].id
  BY <1>1, RecordingSelected
<1>6. release_match_index = 0 /\ release_matches \notin {None, <<>>}
  BY <1>1 DEF IInv, MachineInv, ReleaseReady, Running
<1>7. /\ search_match' = match /\ UNCHANGED <<status, answer>>
      /\ current_state' = IF match = None THEN "select_recording_match"
                                          ELSE "success_fetch_metadata"
  <2>1. EnterWith(IF match = None THEN "doesnt_meet_threshold"
                                  ELSE "meets_threshold", match)
    BY <1>4, <1>6 DEF DoEvaluateMatch, Elem
  <2> QED
    BY <1>1, <2>1, EnterTable DEF Goes
<1>8. Implements
  BY <1>1, <1>2, <1>7, Unseen
<1>9. query.release # NoName => release_matches = Lookup!Releases(db, query, a)
  <2>1. Running({"evaluate_match"}) /\ RecordingsInv
    BY <1>1 DEF Running, IInv, LookupInv
  <2> QED
    BY <2>1 DEF RecordingsInv
<1>10. query.release # NoName => \A j \in Lookup!Matching(db, query, a) : j >= i
  <2>1. Running(AtRecording) /\ RecordingsInv
    BY <1>1 DEF IInv, LookupInv
  <2>2. query.release # NoName =>
           \A j \in Lookup!Matching(db, query, a) : j > recording_match_index
    BY <1>6, <1>9, <2>1 DEF RecordingsInv
  <2>3. \A j \in Lookup!Matching(db, query, a) : j \in Nat
    BY <1>4 DEF Lookup!Matching
  <2> QED
    BY <1>5, <2>2, <2>3
<1>11. query.release # NoName =>
          (i \in Lookup!Matching(db, query, a) <=> match # None)
  BY <1>4, <1>5, <1>9, SameSearches DEF Lookup!Matching
<1>12. CASE match = None
  <2>1. query.release # NoName
    BY <1>1, <1>7, <1>12, CanonicalEvaluates DEF IInv, Trusted
  <2>2. \A j \in Lookup!Matching(db, query, a) : j > i
    <3>1. \A j \in Lookup!Matching(db, query, a) : j \in Nat /\ j # i
      BY <1>4, <1>11, <1>12, <2>1 DEF Lookup!Matching
    <3> QED
      BY <1>5, <1>10, <2>1, <3>1
  <2>3. RecordingsInv'
    BY <1>1, <1>4, <1>7, <1>12, <2>1, <2>2
       DEF RecordingsInv, Running, AtRecordings, AtRecording, artistVars,
           recordingVars
  <2> QED
    BY <1>1, <1>2, <1>7, <1>8, <1>12, <2>3, SameCandidate
       DEF AtArtist, AtRecordings
<1>13. CASE match # None
  <2>1. /\ Lookup!Decides(db, query, a)
        /\ match = Lookup!MatchOf(db, query, a, {})
    <3>1. CASE query.release = NoName
      <4>1. recording_match_index = 0
        BY <1>1, <3>1 DEF IInv, LookupInv, RecordingsInv
      <4>2. LET release == Canonical(db, a, selected_recording_id)
            IN  release # None /\ release_matches = CanonicalResult(release)
        BY <1>1, <3>1 DEF IInv, FreshInv
      <4>3. match = Lookup!MatchOf(db, query, a, {})
        BY <1>4, <1>5, <3>1, <4>1, <4>2, SameSearches DEF Lookup!MatchOf
      <4> QED
        BY <1>4, <3>1, <4>3 DEF Lookup!Decides
    <3>2. CASE query.release # NoName
      <4>1. i \in Lookup!Matching(db, query, a)
        BY <1>11, <1>13, <3>2
      <4>2. \A j \in Lookup!Matching(db, query, a) : j \in Nat /\ i <= j
        BY <1>4, <1>5, <1>10, <3>2 DEF Lookup!Matching
      <4>3. (CHOOSE k \in Lookup!Matching(db, query, a) :
                \A j \in Lookup!Matching(db, query, a) : k <= j) = i
        BY <1>5, <4>1, <4>2
      <4>4. Lookup!MatchOf(db, query, a, {})
              = Lookup!FindMatch(db, a, a, Lookup!Releases(db, query, a)[1],
                   Lookup!Recordings(db, query, a)[i])
        BY <3>2, <4>3, Zenon DEF Lookup!MatchOf
      <4>5. match = Lookup!MatchOf(db, query, a, {})
        BY <1>4, <1>9, <3>2, <4>4, SameSearches
      <4> QED
        BY <1>4, <1>6, <1>9, <3>2, <4>1, <4>5 DEF Lookup!Decides
    <3> QED
      BY <3>1, <3>2
  <2>2. /\ artist_match_index' + 1 \in DOMAIN Candidates'
        /\ selected_artist_credit_id' = Candidates'[artist_match_index' + 1].id
        /\ Passed(db, query, errors, artist_match_index)'
        /\ ErrorsUpTo(artist_match_index)'
    BY <1>1, <1>2, <1>3 DEF artistVars, Candidates, ErrorsUpTo
  <2> HIDE DEF match
  <2>3. current_state' = "success_fetch_metadata" /\ search_match' = match
    BY <1>7, <1>13
  <2>4. ArtistsInv'
    BY <2>2, <2>3 DEF ArtistsInv, Running, AtArtists, AtArtist, AtRecordings,
                      AtRecording
  <2>5. NamesInv' /\ RecordingsInv'
    BY <2>3 DEF NamesInv, RecordingsInv, Running, AtRecordings, AtRecording
  <2>6. MatchInv'
    <3>1. /\ Lookup!Decides(db, query, selected_artist_credit_id)'
          /\ search_match' = Lookup!MatchOf(db, query, selected_artist_credit_id, {})'
      BY <1>1, <2>1, <2>3 DEF artistVars
    <3> QED
      BY <1>1, <1>7, <2>3, <3>1 DEF MatchInv, Running
  <2> QED
    BY <1>8, <2>4, <2>5, <2>6 DEF LookupInv
<1> QED
  BY <1>12, <1>13

\* The search that fails is answered.
LEMMA FailLookup ==
  ASSUME IInv, Trusted, DoFail, errors' = errors \cup Failed
  PROVE  LookupInv' /\ Implements
<1>1. /\ current_state = "fail" /\ status = "running" /\ Running({"fail"})
      /\ status' = "idle" /\ answer' = search_match /\ search_match' = None
      /\ UNCHANGED <<db, query>>
  BY DEF DoFail, In, Return, Running, requestVars
<1>2. errors' = errors
  BY <1>1, NothingFailed
<1>3. search_match = None /\ Lookup!Answer(db, query, errors) = None
  BY <1>1 DEF IInv, LookupInv, MatchInv
<1>4. LookupInv'
  BY <1>1 DEF LookupInv, NamesInv, ArtistsInv, RecordingsInv, MatchInv, Running
<1>5. query # None
  BY <1>1, RequestsAssumption DEF IInv, MachineInv
<1>6. Lookup!Reply
  BY <1>1, <1>2, <1>3, <1>5 DEF Lookup!Reply
<1> QED
  BY <1>4, <1>6 DEF Implements, Lookup!Next

\* A match is answered, with its metadata if it can be read.
LEMMA SuccessLookup ==
  ASSUME IInv, Trusted, DoSuccessFetchMetadata, errors' = errors \cup Failed
  PROVE  LookupInv' /\ Implements
<1> DEFINE a == selected_artist_credit_id
           n == artist_match_index + 1
<1>1. /\ current_state = "success_fetch_metadata" /\ status = "running"
      /\ Running({"success_fetch_metadata"})
      /\ Running(AtArtist \cup {"success_fetch_metadata"})
      /\ UNCHANGED <<db, query>>
  BY DEF DoSuccessFetchMetadata, In, Running, requestVars
<1>2. PICK found \in BOOLEAN :
         /\ found \in {HasMetadata(db, search_match), FALSE}
         /\ Return([search_match EXCEPT !.metadata = found])
  BY DEF DoSuccessFetchMetadata, HasMetadata
<1>3. status' = "idle" /\ search_match' = None
      /\ answer' = [search_match EXCEPT !.metadata = found]
  BY <1>2 DEF Return
<1>4. search_match \in Match
  BY <1>1 DEF IInv, MachineInv, TypeOK, MatchReady
<1>5. /\ Lookup!Decides(db, query, a)
      /\ search_match = Lookup!MatchOf(db, query, a, {})
  BY <1>1 DEF IInv, LookupInv, MatchInv
<1>6. answer'.metadata = found
  BY <1>3, <1>4 DEF Match
<1>7. Failed = IF HasMetadata(db, search_match) /\ ~found
               THEN {<<"metadata", n>>} ELSE {}
  <2>1. ~LoadFails /\ ~CanonicalFails
    BY <1>1 DEF LoadFails, CanonicalFails, In
  <2>2. MetadataFails <=> HasMetadata(db, search_match) /\ ~found
    BY <1>1, <1>6 DEF MetadataFails, In
  <2> QED
    BY <2>1, <2>2 DEF Failed
<1>8. Lookup!Answer(db, query, errors \cup Failed)
        = Lookup!Decision(db, query, a,
             {call \in Lookup!Calls : <<call, n>> \in Failed})
  <2>1. <<"load", n>> \notin Failed
    BY <1>7
  <2> QED
    BY <1>1, <1>5, <2>1, DecidingAnswer
<1>9. answer' = Lookup!Answer(db, query, errors')
  <2> DEFINE failed == {call \in Lookup!Calls : <<call, n>> \in Failed}
  <2>1. "canonical" \notin failed
        /\ ("metadata" \in failed <=> HasMetadata(db, search_match) /\ ~found)
    BY <1>7 DEF Lookup!Calls
  <2>2. Lookup!MatchOf(db, query, a, failed) = search_match
    BY <1>5, <2>1 DEF Lookup!MatchOf
  <2> HIDE DEF failed
  <2>3. Lookup!HasMetadata(db, search_match) = HasMetadata(db, search_match)
    BY SameSearches
  <2>4. (HasMetadata(db, search_match) /\ "metadata" \notin failed) = found
    BY <1>2, <2>1 DEF HasMetadata
  <2>5. search_match # None
    BY <1>4, SearchFunctionsAssumption
  <2>6. Lookup!Decision(db, query, a, failed)
          = [search_match EXCEPT !.metadata =
                HasMetadata(db, search_match) /\ "metadata" \notin failed]
    BY <2>2, <2>3, <2>5 DEF Lookup!Decision
  <2> QED
    BY <1>3, <1>8, <2>4, <2>6 DEF failed
<1>10. LookupInv'
  BY <1>3 DEF LookupInv, NamesInv, ArtistsInv, RecordingsInv, MatchInv, Running
<1>11. query # None
  BY <1>1, RequestsAssumption DEF IInv, MachineInv
<1>12. CASE Failed = {}
  <2>1. Lookup!Reply
    BY <1>1, <1>3, <1>9, <1>11, <1>12 DEF Lookup!Reply
  <2> QED
    BY <1>10, <2>1 DEF Implements, Lookup!Next
<1>13. CASE Failed = {<<"metadata", n>>}
  <2>1. n \in DOMAIN Candidates
    BY <1>1, Selected
  <2>2. Lookup!Err("metadata")
    BY <1>1, <1>3, <1>9, <1>11, <1>13, <2>1 DEF Lookup!Err, Candidates
  <2> QED
    BY <1>10, <2>2 DEF Implements, Lookup!Next, Lookup!Calls
<1> QED
  BY <1>7, <1>12, <1>13

\* A request is asked.
LEMMA SearchLookup ==
  ASSUME IInv, NEW q \in Query, FaultSearch(q)
  PROVE  LookupInv' /\ Implements
<1>1. /\ status = "idle" /\ status' = "running" /\ query' = q /\ answer' = None
      /\ errors' = {} /\ current_state' = "artist_name_check"
      /\ artist_match_index' = -1 /\ search_match' = None /\ UNCHANGED db
  BY DEF FaultSearch, Search, ResetStateVariables
<1>2. NamesInv'
  BY <1>1 DEF NamesInv
<1>3. LookupInv'
  BY <1>1, <1>2, NoArtistYet
<1>4. q \in Lookup!Request /\ Lookup!Ask(q)
  BY <1>1 DEF Query, Lookup!Request, Lookup!Ask
<1> QED
  BY <1>3, <1>4 DEF Implements, Lookup!Next

\* Every step keeps LookupInv and is one of MappingLookup, or none.
LEMMA NextLookup ==
  ASSUME IInv, Trusted, [FaultNext]_faultVars
  PROVE  LookupInv' /\ Implements
<1>1. CASE \E q \in Query : FaultSearch(q)
  BY <1>1, SearchLookup
<1>2. CASE FaultStep
  BY <1>2, NameCheckLookup, ArtistSearchLookup, CleanLookup, StupidSearchLookup,
     SelectArtistLookup, RecordingSearchLookup, CrashLookup, SelectRecordingLookup,
     HasReleaseLookup, ReleaseSearchLookup, CanonicalLookup, EvaluateLookup,
     FailLookup, SuccessLookup
     DEF FaultStep, Step
<1>3. CASE UNCHANGED faultVars
  <2>1. UNCHANGED <<errors, vars>>
    BY <1>3 DEF faultVars
  <2>2. LookupInv'
    BY <2>1
       DEF IInv, LookupInv, NamesInv, ArtistsInv, RecordingsInv, MatchInv, Running,
           Candidates, ErrorsUpTo, vars, requestVars, nameVars, matchVars,
           artistVars, recordingVars, releaseVars
  <2> QED
    BY <2>1, <2>2, Unseen DEF vars, requestVars
<1> QED
  BY <1>1, <1>2, <1>3 DEF FaultNext

-----------------------------------------------------------------------------
(* The refinement.                                                         *)

\* The machine of the search implements MappingLookup, whatever the data
\* directory holds and whichever database calls fail: if hits are those that
\* meet the threshold and a canonical release is linked to its recordings, a
\* request is answered once, by the first candidate that decides it, and the
\* answer depends on nothing but the request, the data and what failed.
THEOREM LookupImplemented ==
  ASSUME Trusted
  PROVE  FaultSpec => RefinesLookup
<1>1. FaultInit => IInv /\ Lookup!Init
  <2> SUFFICES ASSUME FaultInit PROVE IInv /\ Lookup!Init
    OBVIOUS
  <2>1. MachineInv
    BY InitMachine DEF FaultInit
  <2>2. FreshInv /\ LookupInv
    BY DEF FaultInit, Init, FreshInv, LookupInv, NamesInv, ArtistsInv,
           RecordingsInv, MatchInv, Running
  <2> QED
    BY <2>1, <2>2 DEF IInv, FaultInit, Init, Lookup!Init
<1>2. IInv /\ [FaultNext]_faultVars => IInv' /\ [Lookup!Next]_Lookup!vars
  <2> SUFFICES ASSUME IInv, [FaultNext]_faultVars PROVE IInv' /\ Implements
    BY DEF Implements
  <2>1. [Next]_vars
    BY DEF FaultNext, FaultSearch, FaultStep, Next, faultVars
  <2>2. MachineInv' /\ FreshInv'
    BY <2>1, NextMachine, NextFresh DEF IInv, Trusted
  <2> QED
    BY <2>2, NextLookup DEF IInv
<1> QED
  BY <1>1, <1>2, PTL DEF FaultSpec, RefinesLookup, Lookup!Spec
=============================================================================
