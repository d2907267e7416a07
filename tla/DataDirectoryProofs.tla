-------------------------- MODULE DataDirectoryProofs --------------------------
(***************************************************************************)
(* Proofs about DataDirectory for any contents of PostgreSQL and any       *)
(* encoding of names, with or without faults.                              *)
(***************************************************************************)
EXTENDS DataDirectory, TLAPS

(* Lists of names and what is indexed of them.                             *)

\* What is indexed of names are entries; the names that come encoded from the
\* query for aliases are names.
LEMMA EntriesTyped ==
  ASSUME NEW names, names \subseteq Credits \X Names
  PROVE  /\ StupidEntries(names) \subseteq Entry
         /\ SingleEntries(names) \subseteq Entry
         /\ WordEntries(names) \subseteq Entry
         /\ WordEntries(names) \subseteq Credits \X Names
<1>1. \A e \in names : e[1] \in Credits /\ e[2] \in Names
  OBVIOUS
<1>2. \A n \in Names : Encode[n] \in Texts /\ EncodeStupid[n] \in Texts
  BY DEF Texts
<1>3. \A n \in Names : Encode[n] # <<>> => Encode[n] \in Names
  BY DataDirectoryAssumption
<1> QED
  BY <1>1, <1>2, <1>3 DEF StupidEntries, SingleEntries, WordEntries, Entry

\* So is what load_artist_data makes of the rows of a query.
LEMMA LoadedTyped ==
  ASSUME NEW credits, credits \subseteq Credit,
         \A c \in credits : CreditSortName(c.sort_names) \in Names
  PROVE  Loaded(credits) \subseteq Credits \X Names
<1>1. \A c \in credits : c.id \in Credits /\ c.name \in Names
  BY DEF Credit
<1>2. {<<c.id, c.name>> : c \in credits} \subseteq Credits \X Names
  BY <1>1
<1> DEFINE transliterated ==
       {x \in credits : IsTransliterated(x.name, CreditSortName(x.sort_names))}
<1>3. \A c \in transliterated : c.id \in Credits /\ CreditSortName(c.sort_names) \in Names
  BY <1>1
<1> HIDE DEF transliterated
<1>4. {<<c.id, CreditSortName(c.sort_names)>> : c \in transliterated}
         \subseteq Credits \X Names
  BY <1>3
<1> QED
  BY <1>2, <1>4 DEF Loaded, transliterated

\* So is what the builders read of the source, all of it or nothing.
LEMMA ReadsTyped ==
  ASSUME NEW src \in Sources
  PROVE  /\ src.rows \subseteq Credits \X Names
         /\ \A names \in Reads(Loaded(src.single)),
               aliases \in Reads(WordEntries(src.aliases)) :
               names \cup aliases \subseteq Credits \X Names
         /\ \A names \in Reads(Loaded(src.multiple)) : names \subseteq Credits \X Names
<1>1. src \in Source
  BY DataDirectoryAssumption
<1>2. /\ src.single \subseteq Credit /\ src.aliases \subseteq Credits \X Names
      /\ src.multiple \subseteq Credit /\ src.rows \subseteq Credits \X Names
  BY <1>1 DEF Source
<1>3. \A c \in src.single \cup src.multiple : CreditSortName(c.sort_names) \in Names
  BY DataDirectoryAssumption
<1>4. /\ Loaded(src.single) \subseteq Credits \X Names
      /\ Loaded(src.multiple) \subseteq Credits \X Names
  BY <1>2, <1>3, LoadedTyped
<1>5. WordEntries(src.aliases) \subseteq Credits \X Names
  BY <1>2, EntriesTyped
<1> QED
  BY <1>2, <1>4, <1>5 DEF Reads

-----------------------------------------------------------------------------
(* The inductive invariant.                                                *)

\* The table mapping: its artists are indexed as long as it is there, and a
\* mapping without its rows yet has no indexes.
MappingKept ==
    /\ mapping = None => step = "idle" /\ ~tables /\ recordings = {}
    /\ mapping = None \/ step \in {"schema", "export", "import"} =>
          report \in {"none", "stale"}
    /\ step \in {"schema", "export", "import"} => recordings = {}
    /\ \A c \in recordings : c \in mapping /\ c > 2
    /\ MappedIndexed

Has(kind, entries) == kind \in DOMAIN artists /\ artists[kind] = entries

\* What a run that met no error has done by its step.
ArtistsKept ==
    /\ report = "running" => step \in {"single", "stupid", "multiple", "recordings"}
    /\ report = "done" => step = "idle"
    /\ report = "running" /\ step = "stupid" =>
          /\ Has("single", SingleEntries(Indexed))
          /\ stupid_data = StupidEntries(Indexed)
    /\ report = "done" \/ (report = "running" /\ step \in {"multiple", "recordings"}) =>
          /\ Has("single", SingleEntries(Indexed))
          /\ StupidEntries(Indexed) # {} =>
                Has("stupid", StupidEntries(Indexed))
    /\ report = "done" \/ (report = "running" /\ step = "recordings") =>
          Has("multiple", WordEntries(Loaded(source.multiple)))

IInv == TypeOK /\ MappingKept /\ ArtistsKept

-----------------------------------------------------------------------------
(* Types.                                                                  *)

\* A row of index_cache is typed after it is saved, and the others are.
LEMMA SaveTyped ==
  ASSUME TypeOK, NEW kind \in Kinds, NEW entries, entries \subseteq Entry,
         entries # {}, NEW troubled, NEW then, Save(kind, entries, troubled, then)
  PROVE  /\ DOMAIN artists' \subseteq Kinds
         /\ \A k \in DOMAIN artists' : artists'[k] \subseteq Entry /\ artists'[k] # {}
         /\ step' = then /\ report' \in {report, "error"}
<1>1. step' = then /\ report' \in {report, "error"}
  BY DEF Save
<1>2. CASE UNCHANGED artists
  BY <1>1, <1>2 DEF TypeOK
<1>3. CASE artists' = WithIndex(kind, entries)
  BY <1>1, <1>3 DEF TypeOK, WithIndex
<1> QED
  BY <1>2, <1>3 DEF Save

LEMMA InitTypeOK ==
  ASSUME Init
  PROVE  TypeOK
BY DEF Init, TypeOK, Steps, NoArtists

LEMMA NextTypeOK ==
  ASSUME TypeOK, MappingKept, [Next]_vars
  PROVE  TypeOK'
<1> USE DEF TypeOK, Steps
<1>1. CASE CreateFile
  BY <1>1 DEF CreateFile
<1>2. CASE CreateTables
  BY <1>2 DEF CreateTables
<1>3. CASE Export
  BY <1>3, ReadsTyped DEF Export
<1>4. CASE Import
  <2>1. mapping' = {r[1] : r \in Readable(csv)} /\ csv' \subseteq csv
        /\ step' = "idle"
        /\ UNCHANGED <<source, tables, artists, recordings, stupid_data, report>>
    BY <1>4 DEF Import
  <2>2. mapping' \subseteq Credits
    BY <2>1 DEF Readable
  <2> QED
    BY <2>1, <2>2
<1>5. ASSUME NEW skip \in BOOLEAN, NEW force \in BOOLEAN, MakeIndexes(skip, force)
      PROVE  TypeOK'
  BY <1>5 DEF MakeIndexes, NoArtists
<1>6. CASE BuildSingle
  <2>1. PICK names \in Reads(Loaded(source.single)), aliases \in Reads(WordEntries(source.aliases)) :
           IF SingleEntries(names \cup aliases) = {} THEN Throw
           ELSE \E troubled :
                   /\ stupid_data' = StupidEntries(names \cup aliases)
                   /\ Save("single", SingleEntries(names \cup aliases), troubled, "stupid")
    BY <1>6 DEF BuildSingle
  <2>2. UNCHANGED <<source, csv, mapping, tables, recordings>>
    BY <1>6 DEF BuildSingle
  <2>3. names \cup aliases \subseteq Credits \X Names
    BY ReadsTyped
  <2>4. CASE SingleEntries(names \cup aliases) = {}
    BY <2>1, <2>2, <2>4 DEF Throw
  <2>5. CASE SingleEntries(names \cup aliases) # {}
    <3>1. PICK troubled :
             /\ stupid_data' = StupidEntries(names \cup aliases)
             /\ Save("single", SingleEntries(names \cup aliases), troubled, "stupid")
      BY <2>1, <2>5
    <3>2. /\ StupidEntries(names \cup aliases) \subseteq Entry
          /\ SingleEntries(names \cup aliases) \subseteq Entry
      BY <2>3, EntriesTyped
    <3>3. /\ DOMAIN artists' \subseteq Kinds
          /\ \A k \in DOMAIN artists' : artists'[k] \subseteq Entry /\ artists'[k] # {}
          /\ step' = "stupid" /\ report' \in {report, "error"}
      <4>1. "single" \in Kinds
        BY DEF Kinds
      <4> HIDE DEF TypeOK
      <4> QED
        BY <2>5, <3>1, <3>2, <4>1, SaveTyped
    <3> QED
      BY <2>2, <3>1, <3>2, <3>3
  <2> QED
    BY <2>4, <2>5
<1>7. CASE BuildStupid
  <2>1. UNCHANGED <<source, csv, mapping, tables, recordings>> /\ stupid_data' = {}
    BY <1>7 DEF BuildStupid
  <2>2. CASE stupid_data = {}
    BY <1>7, <2>1, <2>2 DEF BuildStupid
  <2>3. CASE stupid_data # {}
    <3>1. Save("stupid", stupid_data, FALSE, "multiple") /\ "stupid" \in Kinds
      BY <1>7, <2>3 DEF BuildStupid, Kinds
    <3>2. /\ DOMAIN artists' \subseteq Kinds
          /\ \A k \in DOMAIN artists' : artists'[k] \subseteq Entry /\ artists'[k] # {}
          /\ step' = "multiple" /\ report' \in {report, "error"}
      <4>1. stupid_data \subseteq Entry
        OBVIOUS
      <4> HIDE DEF TypeOK
      <4> QED
        BY <2>3, <3>1, <4>1, SaveTyped
    <3> QED
      BY <2>1, <3>2
  <2> QED
    BY <2>2, <2>3
<1>8. CASE BuildMultiple
  <2>1. PICK names \in Reads(Loaded(source.multiple)) :
           IF WordEntries(names) = {} THEN Throw
           ELSE /\ Save("multiple", WordEntries(names), names # Loaded(source.multiple),
                        "recordings")
                /\ UNCHANGED stupid_data
    BY <1>8 DEF BuildMultiple
  <2>2. UNCHANGED <<source, csv, mapping, tables, recordings>>
    BY <1>8 DEF BuildMultiple
  <2>3. CASE WordEntries(names) = {}
    BY <2>1, <2>2, <2>3 DEF Throw
  <2>4. CASE WordEntries(names) # {}
    <3>1. WordEntries(names) \subseteq Entry /\ "multiple" \in Kinds
      BY ReadsTyped, EntriesTyped DEF Kinds
    <3>2. /\ DOMAIN artists' \subseteq Kinds
          /\ \A k \in DOMAIN artists' : artists'[k] \subseteq Entry /\ artists'[k] # {}
          /\ step' = "recordings" /\ report' \in {report, "error"}
      <4> HIDE DEF TypeOK
      <4> QED
        BY <2>1, <2>4, <3>1, SaveTyped
    <3> QED
      BY <2>1, <2>2, <2>4, <3>2
  <2> QED
    BY <2>3, <2>4
<1>9. CASE Commit
  <2>1. PICK batch \in SUBSET Pending : recordings' = recordings \cup batch
    BY <1>9 DEF Commit
  <2>2. UNCHANGED <<source, step, csv, mapping, tables, artists, stupid_data, report>>
    BY <1>9 DEF Commit
  <2>3. mapping \subseteq Credits
    BY <1>9 DEF Commit, MappingKept
  <2>4. Pending \subseteq Credits
    BY <2>3 DEF Pending
  <2> QED
    BY <2>1, <2>2, <2>4
<1>10. CASE Finish
  BY <1>10 DEF Finish
<1>11. CASE Stop
  BY <1>11 DEF Stop
<1>12. CASE Update
  BY <1>12 DEF Update
<1>13. CASE RemoveFile
  BY <1>13 DEF RemoveFile, NoArtists
<1>14. CASE UNCHANGED vars
  BY <1>14 DEF vars
<1> QED
  BY <1>1, <1>2, <1>3, <1>4, <1>5, <1>6, <1>7, <1>8, <1>9, <1>10, <1>11, <1>12,
     <1>13, <1>14 DEF Next

-----------------------------------------------------------------------------
(* The table mapping and the indexes of its artists.                       *)

\* A step of the artist indexes says nothing of the mapping.
LEMMA ArtistStep ==
  ASSUME BuildSingle \/ BuildStupid \/ BuildMultiple
  PROVE  /\ step \in {"single", "stupid", "multiple"}
         /\ step' \in {"idle", "stupid", "multiple", "recordings"}
         /\ report' \in {report, "error"}
         /\ step' = "idle" => report' = "error"
         /\ UNCHANGED <<source, csv, mapping, tables, recordings>>
<1>1. CASE BuildSingle
  BY <1>1 DEF BuildSingle, Save, Throw
<1>2. CASE BuildStupid
  BY <1>2 DEF BuildStupid, Save
<1>3. CASE BuildMultiple
  BY <1>3 DEF BuildMultiple, Save, Throw
<1> QED
  BY <1>1, <1>2, <1>3

LEMMA NextMappingKept ==
  ASSUME TypeOK, MappingKept, [Next]_vars
  PROVE  MappingKept'
<1> USE DEF MappingKept, MappedIndexed
<1>1. CASE CreateFile
  <2>1. {} # None
    BY DataDirectoryAssumption
  <2> QED
    BY <1>1, <2>1 DEF CreateFile
<1>2. CASE CreateTables
  BY <1>2 DEF CreateTables
<1>3. CASE Export
  BY <1>3 DEF Export
<1>4. CASE Import
  <2>1. mapping' = {r[1] : r \in Readable(csv)}
        /\ step = "import" /\ step' = "idle"
        /\ UNCHANGED <<source, tables, artists, recordings, stupid_data, report>>
    BY <1>4 DEF Import
  <2>2. mapping' \subseteq Credits
    BY <2>1 DEF Readable, TypeOK
  <2>3. mapping' # None
    BY <2>2, DataDirectoryAssumption
  <2> QED
    BY <2>1, <2>3
<1>5. ASSUME NEW skip \in BOOLEAN, NEW force \in BOOLEAN, MakeIndexes(skip, force)
      PROVE  MappingKept'
  BY <1>5 DEF MakeIndexes
<1>6. CASE BuildSingle \/ BuildStupid \/ BuildMultiple
  BY <1>6, ArtistStep
<1>7. CASE Commit
  BY <1>7 DEF Commit, Pending
<1>8. CASE Finish
  <2>1. /\ step = "recordings" /\ Pending = {} /\ step' = "idle"
        /\ UNCHANGED <<source, csv, mapping, tables, artists, recordings, stupid_data>>
    BY <1>8 DEF Finish
  <2>2. mapping \subseteq Nat \ {0}
    BY <2>1, DataDirectoryAssumption DEF TypeOK
  <2>3. recordings = {c \in mapping : c \notin {1, 2}}
    <3>1. \A c \in mapping : c > 2 <=> c \notin {1, 2}
      BY <2>2
    <3>2. \A c \in mapping : c > 2 => c \in recordings
      BY <2>1 DEF Pending
    <3>3. \A c \in recordings : c \in mapping /\ c > 2
      OBVIOUS
    <3> QED
      BY <3>1, <3>2, <3>3, Zenon
  <2> QED
    BY <2>1, <2>3
<1>9. CASE Stop
  BY <1>9 DEF Stop
<1>10. CASE Update
  BY <1>10 DEF Update
<1>11. CASE RemoveFile
  BY <1>11 DEF RemoveFile
<1>12. CASE UNCHANGED vars
  BY <1>12 DEF vars
<1> QED
  BY <1>1, <1>2, <1>3, <1>4, <1>5, <1>6, <1>7, <1>8, <1>9, <1>10, <1>11, <1>12 DEF Next

-----------------------------------------------------------------------------
(* The artist indexes of a run without an error.                           *)

\* A save without an error leaves the index it was given, and the others.
LEMMA SaveKept ==
  ASSUME NEW kind, NEW entries, NEW troubled \in BOOLEAN, NEW then,
         Save(kind, entries, troubled, then), report' # "error"
  PROVE  /\ ~troubled /\ report' = report /\ step' = then
         /\ Has(kind, entries)'
         /\ \A k, old : k # kind /\ Has(k, old) => Has(k, old)'
BY DEF Save, WithIndex, Has

LEMMA NextArtistsKept ==
  ASSUME TypeOK, MappingKept, ArtistsKept, [Next]_vars
  PROVE  ArtistsKept'
<1>1. CASE CreateFile \/ CreateTables \/ Export \/ Import
  <2>1. /\ report \notin {"running", "done"}
        /\ report' = report
    BY <1>1 DEF CreateFile, CreateTables, Export, Import, MappingKept
  <2> QED
    BY <2>1 DEF ArtistsKept
<1>2. ASSUME NEW skip \in BOOLEAN, NEW force \in BOOLEAN, MakeIndexes(skip, force)
      PROVE  ArtistsKept'
  <2>1. \/ report' = "running" /\ step' = "single"
        \/ report' = "skipped"
    BY <1>2 DEF MakeIndexes
  <2> QED
    BY <2>1 DEF ArtistsKept
<1>3. CASE report' \in {"error", "stale", "none"}
  BY <1>3 DEF ArtistsKept
<1>4. ASSUME BuildSingle, report' # "error"
      PROVE  ArtistsKept'
  <2>1. PICK names \in Reads(Loaded(source.single)), aliases \in Reads(WordEntries(source.aliases)) :
           LET troubled == names # Loaded(source.single) \/ aliases # WordEntries(source.aliases)
           IN  IF SingleEntries(names \cup aliases) = {} THEN Throw
               ELSE /\ stupid_data' = StupidEntries(names \cup aliases)
                    /\ Save("single", SingleEntries(names \cup aliases), troubled, "stupid")
    BY <1>4 DEF BuildSingle
  <2> DEFINE troubled == names # Loaded(source.single) \/ aliases # WordEntries(source.aliases)
  <2>2. /\ stupid_data' = StupidEntries(names \cup aliases)
        /\ Save("single", SingleEntries(names \cup aliases), troubled, "stupid")
    BY <1>4, <2>1 DEF Throw
  <2>3. troubled \in BOOLEAN
    OBVIOUS
  <2>4. /\ ~troubled /\ report' = report /\ step' = "stupid"
        /\ Has("single", SingleEntries(names \cup aliases))'
    <3> DEFINE entries == SingleEntries(names \cup aliases)
    <3>1. Save("single", entries, troubled, "stupid")
      BY <2>2
    <3> HIDE DEF troubled, entries
    <3>2. /\ ~troubled /\ report' = report /\ step' = "stupid"
          /\ Has("single", entries)'
      BY <1>4, <2>3, <3>1, SaveKept
    <3> QED
      BY <3>2 DEF entries
  <2>5. names \cup aliases = Indexed /\ Indexed' = Indexed
    BY <1>4, <2>4 DEF Indexed, BuildSingle
  <2>6. step = "single" /\ report # "done"
    BY <1>4 DEF BuildSingle, ArtistsKept
  <2> QED
    BY <2>2, <2>4, <2>5, <2>6 DEF ArtistsKept
<1>5. ASSUME BuildStupid, report' # "error"
      PROVE  ArtistsKept'
  <2>1. step = "stupid" /\ report # "done" /\ source' = source /\ Indexed' = Indexed
    BY <1>5 DEF BuildStupid, ArtistsKept, Indexed
  <2>2. step' = "multiple" /\ report' = report
    BY <1>5 DEF BuildStupid, Save
  <2>3. ASSUME report = "running"
        PROVE  /\ Has("single", SingleEntries(Indexed))'
               /\ StupidEntries(Indexed) # {} => Has("stupid", StupidEntries(Indexed))'
    <3>1. /\ Has("single", SingleEntries(Indexed))
          /\ stupid_data = StupidEntries(Indexed)
      BY <2>1, <2>3 DEF ArtistsKept
    <3>2. CASE stupid_data = {}
      BY <1>5, <2>1, <3>1, <3>2 DEF BuildStupid, Has
    <3>3. CASE stupid_data # {}
      <4>1. PICK data : data = stupid_data
        OBVIOUS
      <4>2. Save("stupid", data, FALSE, "multiple")
        BY <1>5, <3>3, <4>1 DEF BuildStupid
      <4>3. /\ Has("stupid", data)'
            /\ \A k, old : k # "stupid" /\ Has(k, old) => Has(k, old)'
        BY <1>5, <4>2, SaveKept
      <4>4. /\ Has("stupid", StupidEntries(Indexed))'
            /\ Has("single", SingleEntries(Indexed))'
        <5>1. data = StupidEntries(Indexed') /\ Has("single", SingleEntries(Indexed'))
          BY <2>1, <3>1, <4>1
        <5> QED
          BY <4>3, <5>1 DEF Has
      <4> QED
        BY <4>4
    <3> QED
      BY <3>2, <3>3
  <2> QED
    BY <2>1, <2>2, <2>3 DEF ArtistsKept
<1>6. ASSUME BuildMultiple, report' # "error"
      PROVE  ArtistsKept'
  <2>1. /\ step = "multiple" /\ report # "done"
        /\ source' = source /\ Indexed' = Indexed
    BY <1>6 DEF BuildMultiple, ArtistsKept, Indexed
  <2>2. PICK names \in Reads(Loaded(source.multiple)) :
           Save("multiple", WordEntries(names), names # Loaded(source.multiple), "recordings")
    BY <1>6 DEF BuildMultiple, Throw
  <2>3. /\ names = Loaded(source.multiple) /\ report' = report /\ step' = "recordings"
        /\ Has("multiple", WordEntries(names))'
        /\ \A k, old : k # "multiple" /\ Has(k, old) => Has(k, old)'
    <3> DEFINE troubled == names # Loaded(source.multiple)
    <3>1. troubled \in BOOLEAN
      OBVIOUS
    <3>2. Save("multiple", WordEntries(names), troubled, "recordings")
      BY <2>2
    <3> HIDE DEF troubled
    <3>3. /\ ~troubled /\ report' = report /\ step' = "recordings"
          /\ Has("multiple", WordEntries(names))'
          /\ \A k, old : k # "multiple" /\ Has(k, old) => Has(k, old)'
      BY <1>6, <3>1, <3>2, SaveKept
    <3> QED
      BY <3>3 DEF troubled
  <2>4. Has("multiple", WordEntries(Loaded(source.multiple)))'
    BY <2>1, <2>3 DEF Has
  <2>5. ASSUME report = "running"
        PROVE  /\ Has("single", SingleEntries(Indexed))'
               /\ StupidEntries(Indexed) # {} => Has("stupid", StupidEntries(Indexed))'
    <3>1. /\ Has("single", SingleEntries(Indexed))
          /\ StupidEntries(Indexed) # {} => Has("stupid", StupidEntries(Indexed))
      BY <2>1, <2>5 DEF ArtistsKept
    <3> QED
      BY <2>1, <2>3, <3>1
  <2> QED
    BY <2>1, <2>3, <2>4, <2>5 DEF ArtistsKept
<1>7. CASE Commit \/ Finish \/ UNCHANGED vars
  <2>1. UNCHANGED <<source, artists, stupid_data>>
    BY <1>7 DEF Commit, Finish, vars
  <2>2. /\ Indexed' = Indexed
        /\ \A kind, entries : Has(kind, entries)' = Has(kind, entries)
    BY <2>1 DEF Indexed, Has
  <2>3. CASE Finish
    BY <2>1, <2>2, <2>3 DEF ArtistsKept, Finish
  <2>4. CASE Commit \/ UNCHANGED vars
    <3>1. step' = step /\ report' = report
      BY <2>4 DEF Commit, vars
    <3> QED
      BY <2>1, <2>2, <3>1 DEF ArtistsKept
  <2> QED
    BY <1>7, <2>3, <2>4
<1>8. CASE Stop
  <2>1. /\ step \in {"schema", "export", "import"} => report \in {"none", "stale"}
        /\ report' = IF step \in {"schema", "export", "import"} THEN report ELSE "error"
    BY <1>8 DEF Stop, MappingKept
  <2> QED
    BY <1>3, <2>1
<1>9. CASE Update \/ RemoveFile
  BY <1>3, <1>9 DEF Update, RemoveFile
<1> QED
  BY <1>1, <1>2, <1>3, <1>4, <1>5, <1>6, <1>7, <1>8, <1>9 DEF Next

LEMMA InitIInv ==
  ASSUME Init
  PROVE  IInv
<1>1. MappingKept /\ ArtistsKept
  BY DEF Init, MappingKept, MappedIndexed, ArtistsKept
<1> QED
  BY <1>1, InitTypeOK DEF IInv

THEOREM Invariant == Spec => []IInv
<1>1. Init => IInv
  BY InitIInv
<1>2. IInv /\ [Next]_vars => IInv'
  BY NextTypeOK, NextMappingKept, NextArtistsKept DEF IInv
<1> QED
  BY <1>1, <1>2, PTL DEF Spec

-----------------------------------------------------------------------------
(* What it says of a data directory.                                       *)

\* The rows that the programs write have the types that load expects.
THEOREM TypeCorrect == Spec => []TypeOK
<1>1. IInv => TypeOK
  BY DEF IInv
<1> QED
  BY <1>1, Invariant, PTL

\* A run that came to its end indexed every artist of the mapping, however
\* many runs before it were killed (make_indexes.cpp).
THEOREM EveryArtistIndexed == Spec => []MappedIndexed
<1>1. IInv => MappedIndexed
  BY DEF IInv, MappingKept
<1> QED
  BY <1>1, Invariant, PTL

\* The server starts after a run that met no error and had an artist for each
\* of the three indexes (artist_index.hpp, load).
THEOREM ServerStarts == Spec => []SuccessStarts
<1>1. IInv => SuccessStarts
  BY DEF IInv, ArtistsKept, SuccessStarts, TypeOK, Has, Loads, Kinds
<1> QED
  BY <1>1, Invariant, PTL

\* After a run that met no error no name of a credit is missing from the index
\* that a search for it uses, and no alias that one encoding brings to an end.
THEOREM EveryNameFound == Spec => []NamesFound
<1>1. IInv => NamesFound
  <2> SUFFICES ASSUME IInv, report = "done" PROVE NamesFound
    BY DEF NamesFound
  <2>1. /\ EntriesOf("single") = SingleEntries(Indexed)
        /\ StupidEntries(Indexed) # {} =>
              EntriesOf("stupid") = StupidEntries(Indexed)
        /\ EntriesOf("multiple") = WordEntries(Loaded(source.multiple))
    BY DEF IInv, ArtistsKept, EntriesOf, Has
  <2>2. ASSUME NEW c \in source.single
        PROVE  IF Encode[c.name] # <<>>
               THEN <<c.id, Encode[c.name]>> \in EntriesOf("single")
               ELSE EncodeStupid[c.name] # <<>>
                      => <<c.id, EncodeStupid[c.name]>> \in EntriesOf("stupid")
    <3>1. PICK e : e = <<c.id, c.name>>
      OBVIOUS
    <3>2. e \in Indexed
      BY <3>1 DEF Indexed, Loaded
    <3>3. ASSUME Encode[c.name] # <<>>
          PROVE  <<c.id, Encode[c.name]>> \in SingleEntries(Indexed)
      BY <3>1, <3>2, <3>3 DEF SingleEntries, IsStupid
    <3>4. ASSUME Encode[c.name] = <<>>, EncodeStupid[c.name] # <<>>
          PROVE  <<c.id, EncodeStupid[c.name]>> \in StupidEntries(Indexed)
      BY <3>1, <3>2, <3>4 DEF StupidEntries, IsStupid
    <3> QED
      BY <2>1, <3>3, <3>4
  <2>3. ASSUME NEW a \in source.aliases, Encode[a[2]] # <<>>,
               Encode[Encode[a[2]]] = Encode[a[2]]
        PROVE  <<a[1], Encode[a[2]]>> \in EntriesOf("single")
    <3>1. PICK e : e = <<a[1], Encode[a[2]]>>
      OBVIOUS
    <3>2. e \in Indexed
      BY <2>3, <3>1 DEF Indexed, WordEntries
    <3>3. e = <<e[1], Encode[e[2]]>> /\ ~IsStupid(e[2])
      BY <2>3, <3>1 DEF IsStupid
    <3>4. e \in SingleEntries(Indexed)
      BY <3>2, <3>3 DEF SingleEntries
    <3> QED
      BY <2>1, <3>1, <3>4
  <2>4. ASSUME NEW c \in source.multiple, Encode[c.name] # <<>>
        PROVE  <<c.id, Encode[c.name]>> \in EntriesOf("multiple")
    <3>1. PICK e : e = <<c.id, c.name>>
      OBVIOUS
    <3>2. e \in Loaded(source.multiple)
      BY <3>1 DEF Loaded
    <3> QED
      BY <2>1, <2>4, <3>1, <3>2 DEF WordEntries
  <2> QED
    BY <2>2, <2>3, <2>4 DEF NamesFound
<1> QED
  BY <1>1, Invariant, PTL

\* Nor is anything else in the indexes, whatever runs on older data and runs
\* that stopped half way left in the file.
THEOREM NoNameStale == Spec => []NothingStale
<1>1. IInv => NothingStale
  <2> SUFFICES ASSUME IInv, report = "done" PROVE NothingStale
    BY DEF NothingStale
  <2>1. /\ EntriesOf("single") = SingleEntries(Indexed)
        /\ StupidEntries(Indexed) # {} =>
              EntriesOf("stupid") = StupidEntries(Indexed)
        /\ EntriesOf("multiple") = WordEntries(Loaded(source.multiple))
    BY DEF IInv, ArtistsKept, EntriesOf, Has
  <2>2. ASSUME NEW e \in SingleEntries(Indexed)
        PROVE  \E n \in Indexed : e = <<n[1], Encode[n[2]]>> /\ ~IsStupid(n[2])
    BY DEF SingleEntries
  <2>3. ASSUME NEW e \in WordEntries(Loaded(source.multiple))
        PROVE  \E n \in Loaded(source.multiple) :
                  e = <<n[1], Encode[n[2]]>> /\ e[2] # <<>>
    BY DEF WordEntries
  <2>4. ASSUME NEW e \in StupidEntries(Indexed)
        PROVE  \E n \in Indexed : e = <<n[1], EncodeStupid[n[2]]>> /\ IsStupid(n[2])
    BY DEF StupidEntries
  <2>5. (\E n \in Indexed : IsStupid(n[2])) => StupidEntries(Indexed) # {}
    BY DEF StupidEntries
  <2> QED
    BY <2>1, <2>2, <2>3, <2>4, <2>5 DEF NothingStale
<1> QED
  BY <1>1, Invariant, PTL

\* No step takes the server its directory, a failing one no more than another,
\* except those that mean to.
THEOREM DirectoryStays == Spec => StaysLoadable
<1> DEFINE Reset == /\ step = "idle" /\ artists' = NoArtists /\ recordings' = {}
                    /\ (step' = "single" \/ mapping' = None)
<1>1. ASSUME IInv, [Next]_vars, Loads
      PROVE  Loads' \/ Reset
  <2>1. CASE UNCHANGED artists
    BY <1>1, <2>1 DEF Loads
  <2>2. ASSUME NEW skip \in BOOLEAN, NEW force \in BOOLEAN, MakeIndexes(skip, force)
        PROVE  Loads' \/ Reset
    BY <2>1, <2>2 DEF MakeIndexes
  <2>3. CASE RemoveFile
    BY <2>3 DEF RemoveFile
  <2>4. ASSUME NEW kind \in Kinds, NEW entries, NEW troubled, NEW then,
               Save(kind, entries, troubled, then)
        PROVE  Loads'
    BY <1>1, <2>1, <2>4 DEF Save, WithIndex, Loads
  <2>5. CASE BuildSingle \/ BuildStupid \/ BuildMultiple
    <3>1. \/ UNCHANGED artists
          \/ \E kind \in Kinds : \E entries, troubled, then :
                Save(kind, entries, troubled, then)
      <4>1. CASE BuildSingle
        BY <4>1 DEF BuildSingle, Throw, Kinds
      <4>2. CASE BuildStupid
        BY <4>2 DEF BuildStupid, Kinds
      <4>3. CASE BuildMultiple
        BY <4>3 DEF BuildMultiple, Throw, Kinds
      <4> QED
        BY <2>5, <4>1, <4>2, <4>3
    <3> QED
      BY <2>1, <2>4, <3>1
  <2>6. CASE \/ CreateFile \/ CreateTables \/ Export \/ Import \/ Commit \/ Finish
             \/ Stop \/ Update \/ UNCHANGED vars
    BY <2>1, <2>6 DEF CreateFile, CreateTables, Export, Import, Commit, Finish,
       Stop, Update, vars
  <2> QED
    BY <1>1, <2>2, <2>3, <2>5, <2>6 DEF Next
<1>2. IInv /\ [Next]_vars => [Loads => Loads' \/ Reset]_vars
  BY <1>1
<1> QED
  BY <1>2, Invariant, PTL DEF Spec, StaysLoadable
=============================================================================
