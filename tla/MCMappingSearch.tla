--------------------------- MODULE MCMappingSearch ---------------------------
(* Small data directories for MappingSearch, their indexes built from small *)
(* mapping tables by the definitions of RecordingIndexData.                 *)
EXTENDS MappingSearch

Names == {"Song", "Songs", "Tune", "Album", "Live", "Other", "***"}

MCArtistNames    == {"Queen", "Queen (live)", "Nobody", "!!!"}
MCReleaseNames   == {"Album", "Live", "Other", "***"}
MCRecordingNames == {"Song", "Songs", "***"}
MCEncodable      == {"Queen", "Queen (live)", "Nobody", "Song", "Songs", "Tune",
                     "Album", "Live", "Other"}
MCClean == [n \in MCArtistNames |-> IF n = "Queen (live)" THEN "Queen" ELSE n]

\* Of the encodings only equality matters; a name may be its own text.
Data == INSTANCE RecordingIndexData
           WITH Encode <- [n \in Names |-> IF n \in MCEncodable THEN n ELSE ""],
                NoText <- ""

\* "Song" and "Songs" are found for each other, the exact one first.
Confidence(text, name) ==
    CASE text = name -> 100
      [] {text, name} = {"Song", "Songs"} -> 80
      [] OTHER -> 0

Hits(entries, name, source) ==
    LET hit(i) == [id |-> entries[i].id, result_index |-> i,
                   confidence |-> Confidence(entries[i].text, name),
                   source |-> source]
    IN  Data!SelectSeq([i \in DOMAIN entries |-> hit(i)],
                       LAMBDA h : h.confidence >= 70)

BlobOf(m, a) ==
    LET built == Data!Build(CHOOSE q \in Data!QueryResults(m, a) : TRUE, {})
    IN  [built      |-> built.recordings # <<>>,
         recordings |-> [n \in MCRecordingNames |-> Hits(built.recordings, n, "c")],
         releases   |-> [n \in MCReleaseNames |-> Hits(built.releases, n, "l")],
         links      |-> [i \in DOMAIN built.links |->
                           [j \in DOMAIN built.links[i] |->
                               [release_index |-> built.links[i][j].release_index,
                                release_id |-> built.links[i][j].release_id,
                                recording_id |-> built.links[i][j].recording_id]]]]

ArtistHit(id, confidence, source) ==
    [id |-> id, result_index |-> id, confidence |-> confidence,
     source |-> source]

\* Both artists are found for "Queen", the second one with more confidence,
\* and for "!!!", and none for the other names.
DataDirectory(m, blobs) ==
    [single   |-> [n \in MCArtistNames |->
                     IF n = "Queen" THEN <<ArtistHit(3, 80, "s")>> ELSE <<>>],
     multiple |-> [n \in MCArtistNames |->
                     IF n = "Queen" THEN <<ArtistHit(4, 90, "m")>> ELSE <<>>],
     stupid   |-> [n \in MCArtistNames |->
                     IF n = "!!!" THEN <<ArtistHit(3, 75, "s"),
                                        ArtistHit(4, 100, "s")>>
                                  ELSE <<>>],
     blobs    |-> blobs,
     mapping  |-> {[artist_credit_id |-> r.artist_credit_id,
                    release_artist_credit_id |-> r.release_artist_credit_id,
                    release_id |-> r.release_id,
                    recording_id |-> r.recording_id,
                    score |-> r.score] : r \in m}]

MappingRow(ac, rac, release, release_name, recording, recording_name, score) ==
    [artist_credit_id |-> ac, release_artist_credit_id |-> rac,
     release_id |-> release, release_name |-> release_name,
     recording_id |-> recording, recording_name |-> recording_name,
     score |-> score]

\* Recording 11 is on two releases, 12 has a similar name, 13 cannot be
\* encoded, 14 is the other artist's on a release of artist 3; of 15 only the
\* release is ever asked for.
AllRows ==
    {MappingRow(3, 3, 21, "Album", 11, "Song", 1),
     MappingRow(3, 3, 22, "Live", 11, "Song", 3),
     MappingRow(3, 3, 22, "Live", 12, "Songs", 2),
     MappingRow(3, 3, 23, "***", 13, "***", 2),
     MappingRow(4, 3, 21, "Album", 14, "Song", 4),
     MappingRow(4, 4, 24, "Live", 15, "Tune", 1)}

Complete(m) ==
    DataDirectory(m, [a \in {3, 4} |->
        IF \E r \in m : r.artist_credit_id = a THEN BlobOf(m, a) ELSE None])

CompleteDatabases == {Complete(m) : m \in SUBSET AllRows}

\* No artist is without an encodable recording.
SearchableDatabases ==
    {d \in CompleteDatabases : \A a \in {3, 4} :
        d.blobs[a] # None => d.blobs[a].built}

\* Something can be found, whatever else cannot.
FruitfulDatabases ==
    {d \in CompleteDatabases : \E a \in {3, 4} :
        d.blobs[a] # None /\ d.blobs[a].built}

\* What RecordingIndex is checked to deliver is what the searches rely on.
ASSUME BuilderDelivers ==
    \A d \in CompleteDatabases :
       GenuineLinks(d) /\ CanonicalLinks(d) /\ HitsMeetThreshold(d)
=============================================================================
