-------------------------- MODULE RecordingIndexData --------------------------
(***************************************************************************)
(* How the index of one artist is built (recording_index.hpp), as data:    *)
(* every encodable recording name and every release name gets a position   *)
(* at its first row, every row becomes a link between the two, the aliases *)
(* of the recordings are appended with a copy of the links, and at last    *)
(* the links of each recording are sorted by release.                      *)
(*                                                                         *)
(* The maps from string to index hand out indexes in order of insertion,   *)
(* so a map is the sequence of its entries here and the index of a string  *)
(* is its position, counted from 1.                                        *)
(***************************************************************************)
EXTENDS StableSort, SequencesExt

CONSTANTS
    Encode,      \* encode_string: the text of every name
    NoText       \* the empty string, the text of a name without word characters

\* The rows fetch_query selects, and the orders it may return them in.
Selected(m, a) ==
    {r \in m : r.release_artist_credit_id = a \/ r.artist_credit_id = a}

InQueryOrder(r, s) ==
    \/ r.score < s.score
    \/ r.score = s.score /\ r.release_id <= s.release_id

QueryResults(m, a) ==
    {q \in SetToSeqs(Selected(m, a)) :
        \A i, j \in DOMAIN q : i < j => InQueryOrder(q[i], q[j])}

-----------------------------------------------------------------------------
(* The builder's data: entries [text, id] and, per recording, its links.   *)

EmptyIndex == [recordings |-> <<>>, releases |-> <<>>, links |-> <<>>]

Known(entries, text) == \E i \in DOMAIN entries : entries[i].text = text
Position(entries, text) == CHOOSE i \in DOMAIN entries : entries[i].text = text

\* string_index_map.at(), or on out_of_range a new index for the string; the
\* first id that comes with a text stands for it.
Insert(entries, text, id) ==
    IF Known(entries, text) THEN entries
                            ELSE Append(entries, [text |-> text, id |-> id])

\* A mutant of AddRow: only the first row of a recording gives a link.
AddFirstRow(b, row) ==
    LET text     == Encode[row.recording_name]
        releases == Insert(b.releases, Encode[row.release_name], row.release_id)
        link == [release_index |-> Position(releases, Encode[row.release_name]),
                 release_id    |-> row.release_id,
                 recording_id  |-> row.recording_id]
    IN  IF text = NoText \/ Known(b.recordings, text) THEN b
        ELSE [recordings |-> Insert(b.recordings, text, row.recording_id),
              releases   |-> releases,
              links      |-> Append(b.links, <<link>>)]

AddRow(b, row) ==
    LET releases   == Insert(b.releases, Encode[row.release_name], row.release_id)
        recordings == Insert(b.recordings, Encode[row.recording_name],
                             row.recording_id)
        at   == Position(recordings, Encode[row.recording_name])
        link == [release_index |-> Position(releases, Encode[row.release_name]),
                 release_id    |-> row.release_id,
                 recording_id  |-> row.recording_id]
    IN  IF Encode[row.recording_name] = NoText THEN b
        ELSE [recordings |-> recordings,
              releases   |-> releases,
              links      |-> IF at > Len(b.links)
                             THEN Append(b.links, <<link>>)
                             ELSE [b.links EXCEPT ![at] = Append(@, link)]]

\* The aliases of the ids that stand for a recording name, encoded, unless
\* the text is that of a recording already.
NewAliases(b, table) ==
    {[id |-> p[1], text |-> Encode[p[2]]] : p \in
        {q \in table : /\ \E i \in DOMAIN b.recordings : b.recordings[i].id = q[1]
                       /\ Encode[q[2]] # NoText
                       /\ ~Known(b.recordings, Encode[q[2]])}}

\* A mutant of AddAlias: the links of the last recording are copied.
AddAliasToLast(b, alias) ==
    [b EXCEPT !.recordings = Append(@, [text |-> alias.text, id |-> alias.id]),
              !.links      = Append(@, Last(@))]

AddAlias(b, alias) ==
    LET original == CHOOSE i \in DOMAIN b.recordings :
                       b.recordings[i].id = alias.id
    IN  [b EXCEPT !.recordings = Append(@, [text |-> alias.text, id |-> alias.id]),
                  !.links      = Append(@, b.links[original])]

\* A mutant of SortLinks: the links stay in the order of the rows.
UnsortedLinks(b) == b

\* By release id.
SortLinks(b) ==
    [b EXCEPT !.links = [i \in DOMAIN @ |->
        SortBy(@[i], [j \in 1..Len(@[i]) |-> @[i][j].release_id])]]

\* The whole of build_recording_release_indexes, the aliases in some order.
Build(q, table) ==
    LET named == FoldLeft(AddRow, EmptyIndex, q)
    IN  SortLinks(FoldLeft(AddAlias, named,
                           SetToSeq(NewAliases(named, table))))
=============================================================================
