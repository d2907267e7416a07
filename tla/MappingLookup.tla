---------------------------- MODULE MappingLookup ----------------------------
(***************************************************************************)
(* What a mapping lookup promises, without its state machine: a request is *)
(* answered, once, by the first artist candidate that decides it. Database *)
(* errors on the way make the answer poorer, never another one.            *)
(***************************************************************************)
EXTENDS SearchFunctions

VARIABLES
    db,        \* what the data directory holds
    request,   \* the request being answered, or None
    errors,    \* what failed for it, and at which candidate
    reply      \* the answer to the last request, or None

vars == <<db, request, errors, reply>>

Request == [artist : ArtistNames, release : ReleaseNames \cup {NoName},
            recording : RecordingNames]

\* The candidates for the artist, in the order they are tried: those of the
\* indexes of names with word characters or of the index of the others.
Candidates(d, q) ==
    IF q.artist \in Encodable THEN ArtistSearch(d, q.artist)
                              ELSE d.stupid[q.artist]

\* What candidate a has for the request: its recordings, its releases, and
\* the first recording on the best release, or none of them.
Recordings(d, q, a) ==
    IF d.blobs[a] = None THEN None ELSE RecordingSearch(d, a, q.recording)

Releases(d, q, a) == ReleaseSearch(d, a, q.release)

Matching(d, q, a) ==
    {i \in DOMAIN Recordings(d, q, a) :
        FindMatch(d, a, a, Releases(d, q, a)[1], Recordings(d, q, a)[i]) # None}

\* What may fail: reading a candidate's index, the canonical release, or the
\* metadata of the match.
Calls == {"load", "canonical", "metadata"}

\* A candidate without a recording of that name is passed over. If a release
\* is asked for, so is one without that release, or without a link between
\* the best release and a recording. If none is asked for, the best recording
\* decides: its canonical release is the answer, or there is none.
Decides(d, q, a) ==
    /\ Recordings(d, q, a) \notin {None, <<>>}
    /\ q.release # NoName => /\ Releases(d, q, a) \notin {None, <<>>}
                             /\ Matching(d, q, a) # {}

\* A canonical release that cannot be read is taken for missing.
MatchOf(d, q, a, failed) ==
    LET recordings == Recordings(d, q, a)
        release == Canonical(d, a, recordings[1].id)
        first   == CHOOSE i \in Matching(d, q, a) :
                      \A j \in Matching(d, q, a) : i <= j
    IN  IF q.release # NoName
        THEN FindMatch(d, a, a, Releases(d, q, a)[1], recordings[first])
        ELSE IF "canonical" \in failed \/ release = None THEN None
        ELSE FindMatch(d, a, a, CanonicalResult(release)[1], recordings[1])

Decision(d, q, a, failed) ==
    LET match == MatchOf(d, q, a, failed)
    IN  IF match = None THEN None
        ELSE [match EXCEPT !.metadata = HasMetadata(d, match) /\ "metadata" \notin failed]

\* A candidate whose index cannot be read is passed over.
Answer(d, q, errs) ==
    LET candidates == Candidates(d, q)
        failed(i)  == {call \in Calls : <<call, i>> \in errs}
        deciding   == {i \in DOMAIN candidates :
                          "load" \notin failed(i) /\ Decides(d, q, candidates[i].id)}
        first      == CHOOSE i \in deciding : \A j \in deciding : i <= j
    IN  IF deciding = {} THEN None
        ELSE Decision(d, q, candidates[first].id, failed(first))

Init ==
    /\ db \in Databases
    /\ request = None
    /\ errors = {}
    /\ reply = None

Ask(q) ==
    /\ request = None
    /\ request' = q
    /\ errors' = {}
    /\ reply' = None
    /\ UNCHANGED db

\* The last thing that may fail, reading the metadata, ends the request.
Err(call) ==
    /\ request # None
    /\ \E i \in DOMAIN Candidates(db, request) : errors' = errors \cup {<<call, i>>}
    /\ IF call = "metadata"
       THEN reply' = Answer(db, request, errors') /\ request' = None
       ELSE UNCHANGED <<request, reply>>
    /\ UNCHANGED db

Reply ==
    /\ request # None
    /\ reply' = Answer(db, request, errors)
    /\ request' = None
    /\ UNCHANGED <<db, errors>>

Next ==
    \/ \E q \in Request : Ask(q)
    \/ \E call \in Calls : Err(call)
    \/ Reply

Spec == Init /\ [][Next]_vars
=============================================================================
