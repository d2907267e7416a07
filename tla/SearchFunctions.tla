--------------------------- MODULE SearchFunctions ---------------------------
(***************************************************************************)
(* What a search reads (search.hpp): the artist indexes, the index of each *)
(* artist's recordings and releases, and the mapping table. No search      *)
(* changes what another one finds (FuzzyIndex: VectorStable), so it is a   *)
(* value here, a Database d, and the search functions are operators on it. *)
(*                                                                         *)
(* The result of a fuzzy search is data: for every name that may be asked, *)
(* the hits FuzzyIndex::search returns. Confidences are percentages.       *)
(***************************************************************************)
EXTENDS StableSort

CONSTANTS
    ArtistNames, ReleaseNames, RecordingNames,  \* what a request may ask for
    NoName,        \* the empty string
    Encodable,     \* the names encode_string leaves some text of
    ArtistIds, ReleaseIds, RecordingIds,
    Databases,     \* the contents of the data directory considered
    Threshold,     \* artist_threshold = recording_threshold, in percent
    None           \* nullptr

\* An IndexResult; the source names the search it comes from.
Hit == [id : Nat, result_index : Nat, confidence : Nat,
        source : {"s", "m", "c", "l", "r"}]

ReleaseRecordingLink ==
    [release_index : Nat, release_id : ReleaseIds, recording_id : RecordingIds]

\* A ReleaseRecordingIndex; not built if the artist had no encodable recording.
Blob == [built      : BOOLEAN,
         recordings : [RecordingNames -> Seq(Hit)],
         releases   : [ReleaseNames -> Seq(Hit)],
         links      : Seq(Seq(ReleaseRecordingLink))]

Row == [artist_credit_id : ArtistIds, release_artist_credit_id : ArtistIds,
        release_id : ReleaseIds, recording_id : RecordingIds, score : Nat]

Database == [single   : [ArtistNames -> Seq(Hit)],
             multiple : [ArtistNames -> Seq(Hit)],
             stupid   : [ArtistNames -> Seq(Hit)],
             blobs    : [ArtistIds -> Blob \cup {None}],
             mapping  : SUBSET Row]

Match == [artist_credit_id : ArtistIds, release_id : ReleaseIds,
          recording_id : RecordingIds, metadata : BOOLEAN]

\* The hits of an artist search are ids of artists, as RecordingIndex and
\* ArtistIndex write them.
ASSUME SearchFunctionsAssumption ==
    /\ Databases \subseteq Database
    /\ \A d \in Databases : \A n \in ArtistNames :
          /\ \A i \in DOMAIN d.single[n] : d.single[n][i].id \in ArtistIds
          /\ \A i \in DOMAIN d.multiple[n] : d.multiple[n][i].id \in ArtistIds
          /\ \A i \in DOMAIN d.stupid[n] : d.stupid[n][i].id \in ArtistIds
    /\ ArtistIds \subseteq Nat /\ ReleaseIds \subseteq Nat
    /\ RecordingIds \subseteq Nat
    /\ Threshold \in Nat
    /\ None \notin Blob /\ None \notin Match /\ None \notin Seq(Hit)
    /\ None \notin ArtistIds

-----------------------------------------------------------------------------
\* std::sort by confidence in descending order.
SortByConfidence(s) == SortBy(s, [i \in 1..Len(s) |-> -s[i].confidence])

\* The single artist index and the multiple artist index together, best first.
ArtistSearch(d, name) == SortByConfidence(d.single[name] \o d.multiple[name])

\* The index of artist a as load_recording_release_index returns it; the
\* pointer is stood for by the artist.
LoadIndex(d, a) == IF d.blobs[a] = None THEN None ELSE a

\* recording_search and release_search on the index of artist a; a name
\* without word characters gives nullptr.
RecordingSearch(d, a, name) ==
    IF name \in Encodable THEN SortByConfidence(d.blobs[a].recordings[name])
                          ELSE None

ReleaseSearch(d, a, name) ==
    IF name \in Encodable THEN SortByConfidence(d.blobs[a].releases[name])
                          ELSE None

\* FuzzyIndex::search returns nullptr if there is no index, and
\* recording_search reads the size of that result.
SearchesNullIndex(d, a, name) == name \in Encodable /\ ~d.blobs[a].built

\* get_canonical_release_id: the release of the first row by score; SQLite's
\* choice among rows of equal score is fixed.
Canonical(d, a, recording) ==
    LET found == {r \in d.mapping : /\ r.artist_credit_id = a
                                    /\ r.recording_id = recording}
        best  == {r \in found : \A s \in found : r.score <= s.score}
    IN  IF best = {} THEN None ELSE (CHOOSE r \in best : TRUE).release_id

CanonicalResult(release) ==
    <<[id |-> release, result_index |-> 0, confidence |-> 100, source |-> "r"]>>

\* The candidates of find_match among the links of the recording found: the
\* link that lower_bound stops at, if it is of the canonical release, or the
\* first that has the release text found.
LowerBound(ls, release) ==
    {i \in DOMAIN ls : /\ ls[i].release_id >= release
                       /\ \A j \in DOMAIN ls : j < i => ls[j].release_id < release}

Linked(ls, rel) ==
    IF rel.source = "r"
    THEN {i \in LowerBound(ls, rel.id) : ls[i].release_id = rel.id}
    ELSE {i \in DOMAIN ls :
            /\ ls[i].release_index = rel.result_index
            /\ \A j \in DOMAIN ls : j < i => ls[j].release_index # rel.result_index}

\* A mutant of FindMatch: the ids of the texts found, not those of the link.
FindMatchByText(d, a, index, rel, rec) ==
    LET links == d.blobs[index].links
        ls    == links[rec.result_index]
    IN  IF rec.result_index \notin DOMAIN links \/ Linked(ls, rel) = {} THEN None
        ELSE [artist_credit_id |-> a, release_id |-> rel.id,
              recording_id |-> rec.id, metadata |-> FALSE]

FindMatch(d, a, index, rel, rec) ==
    LET links == d.blobs[index].links
        ls    == links[rec.result_index]
    IN  IF rec.result_index \notin DOMAIN links \/ Linked(ls, rel) = {} THEN None
        ELSE LET link == ls[CHOOSE i \in Linked(ls, rel) : TRUE]
             IN  [artist_credit_id |-> a, release_id |-> link.release_id,
                  recording_id |-> link.recording_id, metadata |-> FALSE]

\* fetch_metadata finds its row.
HasMetadata(d, m) ==
    \E r \in d.mapping : /\ r.release_id = m.release_id
                         /\ r.recording_id = m.recording_id

-----------------------------------------------------------------------------
(* What FuzzyIndex and the builder of the indexes (RecordingIndex)         *)
(* guarantee.                                                              *)

\* FuzzyIndex::search returns no hit below the confidence it is called with,
\* which is that of artist_threshold and recording_threshold in every search.
MeetThreshold(hits) == \A i \in DOMAIN hits : hits[i].confidence >= Threshold

HitsMeetThreshold(d) ==
    /\ \A n \in ArtistNames : /\ MeetThreshold(d.single[n])
                              /\ MeetThreshold(d.multiple[n])
                              /\ MeetThreshold(d.stupid[n])
    /\ \A a \in ArtistIds : d.blobs[a] # None =>
          \A n \in RecordingNames : MeetThreshold(d.blobs[a].recordings[n])

\* Every link comes from a row of the artist.
GenuineLinks(d) ==
    \A a \in ArtistIds : d.blobs[a] # None =>
       \A i \in DOMAIN d.blobs[a].links : \A j \in DOMAIN d.blobs[a].links[i] :
          \E r \in d.mapping :
             /\ r.release_id = d.blobs[a].links[i][j].release_id
             /\ r.recording_id = d.blobs[a].links[i][j].recording_id
             /\ a \in {r.artist_credit_id, r.release_artist_credit_id}

\* The canonical release of a recording that a search may find is among the
\* links of that recording.
CanonicalLinks(d) ==
    \A a \in ArtistIds : d.blobs[a] # None =>
       \A n \in RecordingNames : \A i \in DOMAIN d.blobs[a].recordings[n] :
          LET hit     == d.blobs[a].recordings[n][i]
              release == Canonical(d, a, hit.id)
          IN  release # None =>
                 /\ hit.result_index \in DOMAIN d.blobs[a].links
                 /\ Linked(d.blobs[a].links[hit.result_index],
                           CanonicalResult(release)[1]) # {}
=============================================================================
