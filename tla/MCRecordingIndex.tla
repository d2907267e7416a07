--------------------------- MODULE MCRecordingIndex ---------------------------
(* Small mapping tables for RecordingIndex.                                *)
EXTENDS RecordingIndex

\* Two names with one text, a name of its own, and one without any text.
Names == {"Song", "song!", "Tune", "Album", "album?", "Live", "***"}

MCEncode ==
    [n \in Names |-> CASE n \in {"Song", "song!"} -> "song"
                       [] n \in {"Album", "album?"} -> "album"
                       [] n = "Tune" -> "tune"
                       [] n = "Live" -> "live"
                       [] n = "***" -> ""]

Row(ac, rac, release, release_name, recording, recording_name, score) ==
    [artist_credit_id |-> ac, release_artist_credit_id |-> rac,
     release_id |-> release, release_name |-> release_name,
     recording_id |-> recording, recording_name |-> recording_name,
     score |-> score]

\* Artist 3 has two recordings of one name, one of another, one without word
\* characters; recording 14 is artist 4's, on a release of artist 3.
AllRows ==
    {Row(3, 3, 21, "Album", 11, "Song", 2), Row(3, 3, 22, "album?", 11, "Song", 1),
     Row(3, 3, 22, "album?", 12, "song!", 3), Row(3, 4, 23, "***", 12, "song!", 1),
     Row(3, 3, 21, "Album", 13, "***", 1),
     Row(4, 3, 21, "Album", 14, "Tune", 2), Row(3, 3, 24, "Live", 15, "Tune", 2)}

MCMappings == SUBSET AllRows
MCAliasTables == {{}, {<<11, "Live">>, <<12, "Album">>},
                  {<<11, "Tune">>, <<15, "Live">>, <<14, "Live">>, <<11, "***">>}}
=============================================================================
