---------------------------- MODULE RecordingIndex ----------------------------
(***************************************************************************)
(* The builder of one artist's index at work (recording_index.hpp): it     *)
(* reads the rows of the query one by one, any of which may be the last    *)
(* before a database error, then appends the aliases and sorts the links.  *)
(***************************************************************************)
EXTENDS RecordingIndexData

CONSTANTS
    Artist,      \* the artist credit whose index is built
    Mappings,    \* the mapping tables considered: sets of rows
    AliasTables, \* what recording_alias may hold: sets of <<recording id, name>>
    DbFaults     \* whether reading the rows may end in a database exception

MappingRow ==
    [artist_credit_id : Nat, release_artist_credit_id : Nat,
     release_id : Nat, release_name : DOMAIN Encode,
     recording_id : Nat, recording_name : DOMAIN Encode, score : Int]

ASSUME MappingAssumption ==
    /\ \A m \in Mappings : IsFiniteSet(m) /\ m \subseteq MappingRow
    /\ \A t \in AliasTables : \A p \in t : p[1] \in Nat /\ p[2] \in DOMAIN Encode

\* A recording has one name. make_mapping selects it from a table that repeats
\* the name with every release of the recording.
ASSUME RecordingNamed ==
    \A m \in Mappings : \A r, s \in m :
        r.recording_id = s.recording_id => r.recording_name = s.recording_name

VARIABLES
    mapping,     \* the mapping table
    aliases,     \* the alias table
    phase,       \* what the builder does next
    rows,        \* rows of the query not yet read
    failed,      \* whether the reading of the rows was cut short
    pending,     \* aliases not yet added
    building     \* the index under construction

vars == <<mapping, aliases, phase, rows, failed, pending, building>>

Init ==
    /\ mapping \in Mappings
    /\ aliases \in AliasTables
    /\ phase = "rows"
    /\ rows \in QueryResults(mapping, Artist)
    /\ failed = FALSE
    /\ pending = {}
    /\ building = EmptyIndex

ReadRow ==
    /\ phase = "rows"
    /\ rows # <<>>
    /\ building' = AddRow(building, Head(rows))
    /\ rows' = Tail(rows)
    /\ UNCHANGED <<mapping, aliases, phase, failed, pending>>

\* A database exception ends the reading; it is logged, and the index is built
\* from the rows read so far.
QueryFails ==
    /\ DbFaults
    /\ phase = "rows"
    /\ rows # <<>>
    /\ rows' = <<>>
    /\ failed' = TRUE
    /\ UNCHANGED <<mapping, aliases, phase, pending, building>>

\* The rows are read; the aliases are collected before the first is added.
CollectAliases ==
    /\ phase = "rows"
    /\ rows = <<>>
    /\ pending' = NewAliases(building, aliases)
    /\ phase' = "aliases"
    /\ UNCHANGED <<mapping, aliases, rows, failed, building>>

AppendAlias ==
    /\ phase = "aliases"
    /\ \E alias \in pending :
          /\ building' = AddAlias(building, alias)
          /\ pending' = pending \ {alias}
    /\ UNCHANGED <<mapping, aliases, phase, rows, failed>>

Finish ==
    /\ phase = "aliases"
    /\ pending = {}
    /\ building' = SortLinks(building)
    /\ phase' = "done"
    /\ UNCHANGED <<mapping, aliases, rows, failed, pending>>

Next == ReadRow \/ QueryFails \/ CollectAliases \/ AppendAlias \/ Finish

Spec == Init /\ [][Next]_vars

-----------------------------------------------------------------------------
(* Properties of the finished index.                                       *)

Done == phase = "done"

Link(row) ==
    {l \in [release_index : DOMAIN building.releases,
            release_id : {row.release_id}, recording_id : {row.recording_id}] :
        building.releases[l.release_index].text = Encode[row.release_name]}

\* If none was lost to a database error, every row of the artist can be found:
\* under its recording's text there is a link to its release, filed under the
\* release's text.
RowsFound ==
    Done /\ ~failed => \A r \in Selected(mapping, Artist) : Encode[r.recording_name] # NoText =>
       \E i \in DOMAIN building.recordings :
          /\ building.recordings[i].text = Encode[r.recording_name]
          /\ Range(building.links[i]) \cap Link(r) # {}

\* The index makes nothing up: the id of an entry is that of a recording of the
\* artist, with the entry's text for its name or an alias, and the links under
\* it come from the rows whose recordings share that recording's text.
LinksGenuine ==
    Done => \A i \in DOMAIN building.recordings :
       LET entry == building.recordings[i]
       IN  \E s \in Selected(mapping, Artist) :
              /\ s.recording_id = entry.id
              /\ \/ Encode[s.recording_name] = entry.text
                 \/ \E p \in aliases : p[1] = entry.id /\ Encode[p[2]] = entry.text
              /\ \A l \in Range(building.links[i]) :
                    \E r \in Selected(mapping, Artist) :
                       /\ l \in Link(r)
                       /\ Encode[r.recording_name] = Encode[s.recording_name]

\* No canonical release is lost, which find_match looks up by binary search: the
\* links are sorted, and those of the id that stands for a text have it.
CanonicalFound ==
    Done /\ ~failed => \A i \in DOMAIN building.recordings :
       LET ls == building.links[i]
       IN  /\ \A j, k \in DOMAIN ls :
                 j < k => ls[j].release_id <= ls[k].release_id
           /\ \A r \in mapping :
                 (/\ r.artist_credit_id = Artist
                  /\ r.recording_id = building.recordings[i].id)
                    => \E j \in DOMAIN ls : ls[j].release_id = r.release_id
=============================================================================
