---------------------------- MODULE DataDirectory ----------------------------
(***************************************************************************)
(* The life of mapping.db. make_mapping creates it and fills the table     *)
(* mapping from PostgreSQL by way of a CSV file (make_mapping.cpp);        *)
(* make_indexes adds the three artist indexes (artist_index.hpp) and an    *)
(* index for every artist of the mapping (make_indexes.cpp; the loop is in *)
(* IndexerThread, and one commit of it a step here); the server starts     *)
(* only if it can load the artist indexes. Every step may fail or be the   *)
(* last before the process is killed, and the programs are run again,      *)
(* while PostgreSQL's data change.                                         *)
(***************************************************************************)
EXTENDS Naturals, FiniteSets, Sequences, SequencesExt

CONSTANTS
    Credits,     \* artist credit ids
    Names,       \* names of artists and what is made of them, sequences of words
    Latin,       \* the words in Latin letters
    Encode,      \* encode_string, on Names
    EncodeStupid,\* encode_string_for_stupid_artists, on Names
    Sources,     \* what PostgreSQL may hold
    Multiline,   \* names with a line break
    Faults,      \* whether databases fail and processes are killed
    None         \* no such file

Texts == {Encode[n] : n \in Names} \cup {EncodeStupid[n] : n \in Names}
Entry == Credits \X Texts

\* A row of the query for the credits of one artist or for those of several.
Credit == [id : Credits, name : Names, sort_names : Seq(Names)]

\* The rows of both queries, those of the query for aliases of single artists,
\* and those of MAPPING_QUERY, of which the credit and a name are kept.
Source == [single   : SUBSET Credit,
           aliases  : SUBSET (Credits \X Names),
           multiple : SUBSET Credit,
           rows     : SUBSET (Credits \X Names)]

\* What load_artist_data makes of the sort names of a credit: jp is taken from
\* artist_credit_names as acn is, so each is there twice and no join phrase is.
CreditSortName(sort_names) ==
    FlattenSeq([i \in DOMAIN sort_names |-> sort_names[i] \o sort_names[i]])

\* PostgreSQL counts ids from 1.
ASSUME DataDirectoryAssumption ==
    /\ Credits \subseteq Nat \ {0}
    /\ \A credits \in SUBSET Credits : credits # None
    /\ \A s \in Sources : s \in Source
    /\ \A s \in Sources : \A c \in s.single \cup s.multiple :
          CreditSortName(c.sort_names) \in Names
    /\ Multiline \subseteq Names
    /\ Faults \in BOOLEAN
    /\ \A n \in Names : Encode[n] # <<>> => Encode[n] \in Names

VARIABLES
    source,       \* what PostgreSQL holds
    step,         \* what the program that runs does next
    csv,          \* import.csv
    mapping,      \* the credits in the table mapping, None without the file
    tables,       \* whether the file has its tables
    artists,      \* the artist indexes in index_cache, by their kind
    recordings,   \* the credits with an index in index_cache
    stupid_data,  \* memory of make_indexes
    report        \* of the last make_indexes: whether it met an error

vars == <<source, step, csv, mapping, tables, artists, recordings,
          stupid_data, report>>

Kinds == {"single", "stupid", "multiple"}
Steps == {"idle", "schema", "export", "import",
          "single", "stupid", "multiple", "recordings"}

NoArtists == [k \in {} |-> {}]

\* FuzzyIndex::build refuses an empty list, so no index is empty.
TypeOK ==
    /\ source \in Sources
    /\ step \in Steps
    /\ csv \subseteq Credits \X Names
    /\ mapping = None \/ mapping \subseteq Credits
    /\ tables \in BOOLEAN
    /\ DOMAIN artists \subseteq Kinds
    /\ \A k \in DOMAIN artists : artists[k] \subseteq Entry /\ artists[k] # {}
    /\ recordings \subseteq Credits
    /\ stupid_data \subseteq Entry
    /\ report \in {"none", "running", "error", "stale", "skipped", "done"}

Init ==
    /\ source \in Sources
    /\ step = "idle"
    /\ csv = {}
    /\ mapping = None
    /\ tables = FALSE
    /\ artists = NoArtists
    /\ recordings = {}
    /\ stupid_data = {}
    /\ report = "none"

-----------------------------------------------------------------------------
(* make_mapping.                                                           *)

\* It refuses to touch a file that is there.
CreateFile ==
    /\ step = "idle" /\ mapping = None
    /\ mapping' = {}
    /\ step' = "schema"
    /\ UNCHANGED <<source, csv, tables, artists, recordings, stupid_data, report>>

CreateTables ==
    /\ step = "schema"
    /\ tables' = TRUE
    /\ step' = "export"
    /\ UNCHANGED <<source, csv, mapping, artists, recordings, stupid_data, report>>

Export ==
    /\ step = "export"
    /\ csv' = source.rows
    /\ step' = "import"
    /\ UNCHANGED <<source, mapping, tables, artists, recordings, stupid_data,
                   report>>

\* The file is read by lines: a record with a line break is two lines with too
\* few fields, and those are skipped. The rows are one transaction; what
\* follows, the indexes of SQLite and the removal of the file, may fail.
Readable(records) == {r \in records : r[2] \notin Multiline}

Import ==
    /\ step = "import"
    /\ mapping' = {r[1] : r \in Readable(csv)}
    /\ csv' \in {{}} \cup (IF Faults THEN {csv} ELSE {})
    /\ step' = "idle"
    /\ UNCHANGED <<source, tables, artists, recordings, stupid_data, report>>

-----------------------------------------------------------------------------
(* make_indexes.                                                           *)

\* A mutant of MakeIndexes: it always starts from an empty table.
MakeIndexesAnew(skip_artists, force_rebuild) ==
    /\ step = "idle" /\ tables
    /\ ~(skip_artists /\ force_rebuild)
    /\ artists' = NoArtists /\ recordings' = {}
    /\ step' = IF skip_artists THEN "recordings" ELSE "single"
    /\ report' = IF skip_artists THEN "skipped" ELSE "running"
    /\ UNCHANGED <<source, csv, mapping, tables, stupid_data>>

\* Its options. Without the tables nothing it does has an effect.
MakeIndexes(skip_artists, force_rebuild) ==
    /\ step = "idle" /\ tables
    /\ ~(skip_artists /\ force_rebuild)
    /\ IF force_rebuild
       THEN artists' = NoArtists /\ recordings' = {}
       ELSE UNCHANGED <<artists, recordings>>
    /\ step' = IF skip_artists THEN "recordings" ELSE "single"
    /\ report' = IF skip_artists THEN "skipped" ELSE "running"
    /\ UNCHANGED <<source, csv, mapping, tables, stupid_data>>

\* A name in Latin and other letters and a sort name in Latin ones only.
IsTransliterated(name, sort_name) ==
    /\ ToSet(name) \cap Latin # {}
    /\ ToSet(name) \ Latin # {}
    /\ ToSet(sort_name) \subseteq Latin

\* A mutant of Loaded: the sort name replaces the name.
LoadedSortName(credits) ==
    {<<c.id, IF IsTransliterated(c.name, CreditSortName(c.sort_names))
             THEN CreditSortName(c.sort_names) ELSE c.name>> : c \in credits}

\* What load_artist_data makes of the rows of a query: the names, and beside
\* the transliterated ones the text of their sort names.
Loaded(credits) ==
    {<<c.id, c.name>> : c \in credits} \cup
    {<<c.id, CreditSortName(c.sort_names)>> :
        c \in {x \in credits : IsTransliterated(x.name, CreditSortName(x.sort_names))}}

\* What load_artist_data or load_artist_aliases give, or nothing and a message.
Reads(data) == {data} \cup (IF Faults THEN {{}} ELSE {})

\* An insert, or an update of the row that is there.
WithIndex(kind, entries) ==
    [k \in DOMAIN artists \cup {kind} |->
        IF k = kind THEN entries ELSE artists[k]]

\* A mutant of Save: the row that is there stays.
SaveNew(kind, entries, troubled, then) ==
    /\ artists' = IF kind \in DOMAIN artists THEN artists
                  ELSE WithIndex(kind, entries)
    /\ report' = IF troubled THEN "error" ELSE report
    /\ step' = then

\* The insert or update of one artist index, an error of which is printed;
\* nor does an earlier error end the program.
Save(kind, entries, troubled, then) ==
    /\ \/ /\ artists' = WithIndex(kind, entries)
          /\ report' = IF troubled THEN "error" ELSE report
       \/ /\ Faults
          /\ report' = "error"
          /\ UNCHANGED artists
    /\ step' = then

\* build() throws if there is nothing to index, and nothing catches it.
Throw ==
    /\ step' = "idle"
    /\ stupid_data' = {}
    /\ report' = "error"
    /\ UNCHANGED artists

\* Names without word characters but with some text go to the stupid index;
\* the index of single artists gets the others.
IsStupid(name) == Encode[name] = <<>> /\ EncodeStupid[name] # <<>>

StupidEntries(names) ==
    {<<e[1], EncodeStupid[e[2]]>> : e \in {x \in names : IsStupid(x[2])}}

SingleEntries(names) ==
    {<<e[1], Encode[e[2]]>> : e \in {x \in names : ~IsStupid(x[2])}}

\* The names that have word characters, encoded; the others are left out.
WordEntries(names) ==
    {<<e[1], Encode[e[2]]>> : e \in {x \in names : Encode[x[2]] # <<>>}}

\* A mutant of BuildSingle: an empty list is indexed.
BuildSingleUnchecked ==
    /\ step = "single"
    /\ \E names \in Reads(Loaded(source.single)), aliases \in Reads(WordEntries(source.aliases)) :
          /\ stupid_data' = StupidEntries(names \cup aliases)
          /\ Save("single", SingleEntries(names \cup aliases), FALSE, "stupid")
    /\ UNCHANGED <<source, csv, mapping, tables, recordings>>

\* Aliases come encoded and are encoded again with the names.
BuildSingle ==
    /\ step = "single"
    /\ \E names \in Reads(Loaded(source.single)), aliases \in Reads(WordEntries(source.aliases)) :
          LET all      == names \cup aliases
              troubled == \/ names # Loaded(source.single)
                          \/ aliases # WordEntries(source.aliases)
          IN  IF SingleEntries(all) = {} THEN Throw
              ELSE /\ stupid_data' = StupidEntries(all)
                   /\ Save("single", SingleEntries(all), troubled, "stupid")
    /\ UNCHANGED <<source, csv, mapping, tables, recordings>>

\* A mutant of BuildStupid: the row is not written.
BuildStupidUnsaved ==
    /\ step = "stupid"
    /\ step' = "multiple"
    /\ stupid_data' = {}
    /\ UNCHANGED <<source, csv, mapping, tables, artists, recordings, report>>

\* Without stupid artists there is no index of them, and an old one stays.
BuildStupid ==
    /\ step = "stupid"
    /\ IF stupid_data = {} THEN step' = "multiple" /\ UNCHANGED <<artists, report>>
       ELSE Save("stupid", stupid_data, FALSE, "multiple")
    /\ stupid_data' = {}
    /\ UNCHANGED <<source, csv, mapping, tables, recordings>>

BuildMultiple ==
    /\ step = "multiple"
    /\ \E names \in Reads(Loaded(source.multiple)) :
          IF WordEntries(names) = {} THEN Throw
          ELSE /\ Save("multiple", WordEntries(names),
                       names # Loaded(source.multiple), "recordings")
               /\ UNCHANGED stupid_data
    /\ UNCHANGED <<source, csv, mapping, tables, recordings>>

\* A mutant of Pending: one credit id too many is left out.
PendingBeyond == {c \in mapping : c > 3} \ recordings

\* The artists of the mapping without an index; the first two credits are
\* special purpose ones.
Pending == {c \in mapping : c > 2} \ recordings

\* One batch is committed.
Commit ==
    /\ step = "recordings"
    /\ \E batch \in SUBSET Pending :
          batch # {} /\ recordings' = recordings \cup batch
    /\ UNCHANGED <<source, step, csv, mapping, tables, artists, stupid_data, report>>

Finish ==
    /\ step = "recordings"
    /\ Pending = {}
    /\ step' = "idle"
    /\ report' = IF report = "running" THEN "done" ELSE report
    /\ UNCHANGED <<source, csv, mapping, tables, artists, recordings, stupid_data>>

-----------------------------------------------------------------------------
(* What ends a program, and what happens around it.                        *)

\* The process is killed, or gives up on an error of a database: make_mapping
\* at any of its steps, make_indexes where it opens one.
Stop ==
    /\ Faults
    /\ step # "idle"
    /\ step' = "idle"
    /\ stupid_data' = {}
    /\ report' = IF step \in {"schema", "export", "import"} THEN report ELSE "error"
    /\ UNCHANGED <<source, csv, mapping, tables, artists, recordings>>

\* MusicBrainz moves on, at any time.
Update ==
    /\ source' \in Sources \ {source}
    /\ report' = "stale"
    /\ UNCHANGED <<step, csv, mapping, tables, artists, recordings, stupid_data>>

\* The operator removes the file, to create a new one.
RemoveFile ==
    /\ step = "idle" /\ mapping # None
    /\ mapping' = None
    /\ tables' = FALSE
    /\ artists' = NoArtists
    /\ recordings' = {}
    /\ report' = "none"
    /\ UNCHANGED <<source, step, csv, stupid_data>>

Next ==
    \/ CreateFile \/ CreateTables \/ Export \/ Import
    \/ \E skip, force \in BOOLEAN : MakeIndexes(skip, force)
    \/ BuildSingle \/ BuildStupid \/ BuildMultiple \/ Commit \/ Finish
    \/ Stop \/ Update \/ RemoveFile

Spec == Init /\ [][Next]_vars

-----------------------------------------------------------------------------
(* Properties.                                                             *)

\* What load_artist_data and load_artist_aliases give build together.
Indexed == Loaded(source.single) \cup WordEntries(source.aliases)

\* ArtistIndex::load succeeds.
Loads == DOMAIN artists = Kinds

\* What an index has; nothing if there is none.
EntriesOf(kind) == IF kind \in DOMAIN artists THEN artists[kind] ELSE {}

\* A run that met no error leaves a directory the server starts on, provided
\* that there is a stupid artist (artist_index.hpp:661): errors are printed
\* and the run goes on, so three rows of three steps must all be there.
SuccessStarts == report = "done" /\ StupidEntries(Indexed) # {} => Loads

\* After a run that met no error every name of a credit is in the index that
\* do_artist_name_check sends its text to (fsm.hpp:264-275), under the text a
\* search for it has, and so is every alias with word characters that is encoded
\* for good the first time: aliases are encoded twice (artist_index.hpp:419,462)
\* and those without word characters are dropped (:420). Of sort names nothing
\* is said: they are in the index, but written twice (:365).
NamesFound ==
    report = "done" =>
       /\ \A c \in source.single :
             IF Encode[c.name] # <<>>
             THEN <<c.id, Encode[c.name]>> \in EntriesOf("single")
             ELSE EncodeStupid[c.name] # <<>>
                    => <<c.id, EncodeStupid[c.name]>> \in EntriesOf("stupid")
       /\ \A a \in source.aliases :
             LET text == Encode[a[2]] IN
             text # <<>> /\ Encode[text] = text => <<a[1], text>> \in EntriesOf("single")
       /\ \A c \in source.multiple :
             Encode[c.name] # <<>> => <<c.id, Encode[c.name]>> \in EntriesOf("multiple")

\* And nothing is in them that is not made of a row PostgreSQL has at the time:
\* of a name, of an alias, or of the sort names of a transliterated credit, each
\* of them twice; although the file may hold rows of runs on older data and of
\* runs that stopped half way. But the stupid index stays when the last stupid
\* artist goes (artist_index.hpp:521), and a name of blanks is in the index of
\* single artists under the empty text.
NothingStale ==
    report = "done" =>
       /\ \A e \in EntriesOf("single") :
             \E n \in Indexed : e = <<n[1], Encode[n[2]]>> /\ ~IsStupid(n[2])
       /\ \A e \in EntriesOf("multiple") :
             \E n \in Loaded(source.multiple) : e = <<n[1], Encode[n[2]]>> /\ e[2] # <<>>
       /\ (\E n \in Indexed : IsStupid(n[2])) =>
             \A e \in EntriesOf("stupid") :
                \E n \in Indexed : e = <<n[1], EncodeStupid[n[2]]>> /\ IsStupid(n[2])

\* However often make_indexes was killed between two commits, with artists
\* skipped or not, a run that comes to its end leaves every artist of the
\* mapping that is not special purpose indexed (indexer_thread.hpp:13-24).
MappedIndexed ==
    report \in {"done", "skipped"} /\ step = "idle"
        => recordings = {c \in mapping : c \notin {1, 2}}

\* A directory the server starts on stays one, through failures too, unless
\* --force-rebuild empties the table or the file is removed.
StaysLoadable ==
    [][Loads => \/ Loads'
                \/ step = "idle" /\ artists' = NoArtists /\ recordings' = {}
                   /\ (step' = "single" \/ mapping' = None)]_vars
=============================================================================
