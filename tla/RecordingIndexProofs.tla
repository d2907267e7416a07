------------------------- MODULE RecordingIndexProofs -------------------------
(***************************************************************************)
(* Proofs about RecordingIndex for any mapping table, alias table and      *)
(* encoding, with or without database errors.                              *)
(***************************************************************************)
EXTENDS RecordingIndex, DataLemmas

Texts == {Encode[n] : n \in DOMAIN Encode}
Entry == [text : Texts, id : Nat]
LinkRecord == [release_index : Nat, release_id : Nat, recording_id : Nat]

-----------------------------------------------------------------------------
(* The map from string to index.                                           *)

\* No text has two indexes.
Distinct(entries) ==
    \A i, j \in 1..Len(entries) : entries[i].text = entries[j].text => i = j

\* The position of a known text is that of an entry with it.
LEMMA PositionKnown ==
  ASSUME NEW entries \in Seq(Entry), NEW text, Known(entries, text)
  PROVE  /\ Position(entries, text) \in 1..Len(entries)
         /\ entries[Position(entries, text)].text = text
<1>1. DOMAIN entries = 1..Len(entries)
  BY LenProperties
<1> QED
  BY <1>1 DEF Known, Position

\* new is entries with a place at for text: an old one, or a new one if there
\* was none.
Grown(entries, new, at, text, id) ==
    /\ new \in Seq(Entry)
    /\ at \in 1..Len(new) /\ new[at].text = text
    /\ Len(entries) <= Len(new)
    /\ \A i \in 1..Len(entries) : new[i] = entries[i]
    /\ \/ at \in 1..Len(entries) /\ Len(new) = Len(entries)
       \/ /\ at = Len(entries) + 1 /\ Len(new) = Len(entries) + 1
          /\ new[at].id = id
          /\ \A i \in 1..Len(entries) : entries[i].text # text
    /\ Distinct(entries) => Distinct(new)

\* Inserting a text leaves the indexes handed out before alone.
LEMMA Inserted ==
  ASSUME NEW entries \in Seq(Entry), NEW text \in Texts, NEW id \in Nat
  PROVE  Grown(entries, Insert(entries, text, id),
               Position(Insert(entries, text, id), text), text, id)
<1> DEFINE new == Insert(entries, text, id)
           at  == Position(new, text)
<1> SUFFICES Grown(entries, new, at, text, id)
  OBVIOUS
<1>1. Len(entries) \in Nat /\ DOMAIN entries = 1..Len(entries)
  BY LenProperties
<1>2. CASE Known(entries, text)
  <2>1. new = entries
    BY <1>2 DEF Insert
  <2>2. at \in 1..Len(entries) /\ entries[at].text = text
    BY <1>2, <2>1, PositionKnown
  <2> HIDE DEF new, at
  <2>3. Distinct(entries) => Distinct(new)
    BY <2>1
  <2>4. /\ new \in Seq(Entry)
        /\ at \in 1..Len(new) /\ new[at].text = text
        /\ Len(entries) <= Len(new)
        /\ \A i \in 1..Len(entries) : new[i] = entries[i]
        /\ at \in 1..Len(entries) /\ Len(new) = Len(entries)
    BY <1>1, <2>1, <2>2
  <2> QED
    BY <2>3, <2>4, Zenon DEF Grown
<1>3. CASE ~Known(entries, text)
  <2> DEFINE e == [text |-> text, id |-> id]
  <2>1. new = Append(entries, e) /\ e \in Entry
    BY <1>3 DEF Insert, Entry
  <2> HIDE DEF new, e
  <2>2. /\ new \in Seq(Entry) /\ Len(new) = Len(entries) + 1
        /\ \A i \in 1..Len(entries) : new[i] = entries[i]
        /\ new[Len(entries) + 1] = e
    BY <1>1, <2>1, AppendProperties
  <2>3. \A i \in 1..Len(entries) : entries[i].text # text
    BY <1>1, <1>3 DEF Known
  <2>4. e.text = text /\ e.id = id
    BY DEF e
  <2>5. DOMAIN new = 1..Len(new)
    BY <2>2, LenProperties
  <2>6. Known(new, text)
    <3>1. Len(entries) + 1 \in DOMAIN new /\ new[Len(entries) + 1].text = text
      BY <1>1, <2>2, <2>4, <2>5
    <3> QED
      BY <3>1 DEF Known
  <2>7. at \in 1..Len(new) /\ new[at].text = text
    BY <2>2, <2>6, PositionKnown
  <2> HIDE DEF at
  <2>8. at = Len(entries) + 1
    BY <1>1, <2>2, <2>3, <2>7
  <2>9. Distinct(entries) => Distinct(new)
    BY <1>1, <2>2, <2>3, <2>4 DEF Distinct
  <2>10. /\ Len(entries) <= Len(new)
         /\ at = Len(entries) + 1 /\ new[at].id = id
    BY <1>1, <2>2, <2>4, <2>8
  <2> QED
    BY <2>2, <2>3, <2>7, <2>9, <2>10, Zenon DEF Grown
<1> QED
  BY <1>2, <1>3

-----------------------------------------------------------------------------
(* The data of the builder.                                                *)

Shape(b) ==
    /\ b \in [recordings : Seq(Entry), releases : Seq(Entry),
              links : Seq(Seq(LinkRecord))]
    /\ Len(b.links) = Len(b.recordings)

LinkTo(row, rel) ==
    [release_index |-> rel, release_id |-> row.release_id,
     recording_id |-> row.recording_id]

\* The links in new are those in old and link, which is under at.
Gained(old, new, at, link) ==
    /\ Len(old) <= Len(new)
    /\ \A i \in 1..Len(old) : \A k \in 1..Len(old[i]) :
          k \in 1..Len(new[i]) /\ new[i][k] = old[i][k]
    /\ \E k \in 1..Len(new[at]) : new[at][k] = link
    /\ \A i \in 1..Len(new) : \A k \in 1..Len(new[i]) :
          \/ i \in 1..Len(old) /\ k \in 1..Len(old[i]) /\ new[i][k] = old[i][k]
          \/ i = at /\ new[i][k] = link

\* A link is appended under at, which may be the first place that has none.
WithLink(links, at, link) ==
    IF at > Len(links) THEN Append(links, <<link>>)
                       ELSE [links EXCEPT ![at] = Append(@, link)]

LEMMA LinkAppended ==
  ASSUME NEW links \in Seq(Seq(LinkRecord)), NEW at \in 1..(Len(links) + 1),
         NEW link \in LinkRecord, NEW new,
         new = WithLink(links, at, link)
  PROVE  /\ new \in Seq(Seq(LinkRecord))
         /\ Len(new) = IF at > Len(links) THEN Len(links) + 1 ELSE Len(links)
         /\ Gained(links, new, at, link)
<1>1. Len(links) \in Nat
  BY LenProperties
<1>2. CASE at > Len(links)
  <2> DEFINE one == <<link>>
  <2>1. one \in Seq(LinkRecord) /\ Len(one) = 1 /\ one[1] = link
    OBVIOUS
  <2>2. new = Append(links, one)
    BY <1>2 DEF WithLink
  <2> HIDE DEF one
  <2>3. /\ new \in Seq(Seq(LinkRecord)) /\ Len(new) = Len(links) + 1
        /\ \A i \in 1..Len(links) : new[i] = links[i]
        /\ new[Len(links) + 1] = one
    BY <2>1, <2>2, AppendProperties
  <2>4. at = Len(links) + 1
    BY <1>1, <1>2
  <2>5. new[at] = one
    BY <2>3, <2>4
  <2>6. \A i \in 1..Len(new) : i = at \/ (i \in 1..Len(links) /\ new[i] = links[i])
    BY <1>1, <2>3, <2>4
  <2>7. Gained(links, new, at, link)
    <3>1. Len(links) <= Len(new)
      BY <1>1, <2>3
    <3>2. /\ \E k \in 1..Len(one) : one[k] = link
          /\ \A k \in 1..Len(one) : one[k] = link
      <4>1. 1 \in 1..Len(one) /\ \A k \in 1..Len(one) : k = 1
        BY <2>1
      <4> QED
        BY <2>1, <4>1, Zenon
    <3>3. /\ \E k \in 1..Len(new[at]) : new[at][k] = link
          /\ \A k \in 1..Len(new[at]) : new[at][k] = link
      BY <2>5, <3>2, Zenon
    <3> QED
      BY <2>3, <2>6, <3>1, <3>3, Zenon DEF Gained
  <2> QED
    BY <1>2, <2>3, <2>7
<1>3. CASE at <= Len(links)
  <2> DEFINE old == links[at]
             lst == Append(old, link)
  <2>1. at \in 1..Len(links) /\ DOMAIN links = 1..Len(links)
    BY <1>1, <1>3
  <2>2. old \in Seq(LinkRecord) /\ Len(old) \in Nat
    BY <2>1, ElementOfSeq, LenProperties
  <2>3. /\ lst \in Seq(LinkRecord) /\ Len(lst) = Len(old) + 1
        /\ \A k \in 1..Len(old) : lst[k] = old[k]
        /\ lst[Len(old) + 1] = link
    BY <2>2, AppendProperties
  <2>4. new = [links EXCEPT ![at] = lst]
    BY <1>1, <1>3 DEF WithLink
  <2> HIDE DEF lst
  <2>5. /\ new \in Seq(Seq(LinkRecord)) /\ Len(new) = Len(links)
        /\ \A i \in 1..Len(links) : new[i] = IF i = at THEN lst ELSE links[i]
    <3> DEFINE S == Seq(LinkRecord)
    <3>1. lst \in S
      BY <2>3
    <3>2. links \in [1..Len(links) -> S]
      BY <2>1, ElementOfSeq
    <3> HIDE DEF S
    <3>3. /\ new \in [1..Len(links) -> S]
          /\ \A i \in 1..Len(links) : new[i] = IF i = at THEN lst ELSE links[i]
      BY <2>1, <2>4, <3>1, <3>2
    <3>4. new \in Seq(S) /\ Len(new) = Len(links)
      BY <1>1, <3>3, FunctionIsSeq
    <3> QED
      BY <3>3, <3>4 DEF S
  <2> HIDE DEF old
  <2>6. old = links[at]
    BY DEF old
  <2>7. \E k \in 1..Len(new[at]) : new[at][k] = link
    <3>1. Len(old) + 1 \in 1..Len(lst)
      BY <2>2, <2>3
    <3> QED
      BY <2>1, <2>3, <2>5, <3>1
  <2>8. ASSUME NEW i \in 1..Len(links), NEW k \in 1..Len(links[i])
        PROVE  k \in 1..Len(new[i]) /\ new[i][k] = links[i][k]
    <3>1. CASE i # at
      BY <2>5, <3>1
    <3>2. CASE i = at
      BY <2>2, <2>3, <2>5, <2>6, <3>2
    <3> QED
      BY <3>1, <3>2
  <2>9. ASSUME NEW i \in 1..Len(new), NEW k \in 1..Len(new[i])
        PROVE  \/ /\ i \in 1..Len(links) /\ k \in 1..Len(links[i])
                  /\ new[i][k] = links[i][k]
               \/ i = at /\ new[i][k] = link
    <3>1. CASE i # at
      BY <2>5, <3>1
    <3>2. CASE i = at
      <4>1. k \in 1..(Len(old) + 1) /\ new[i] = lst /\ i \in 1..Len(links)
        BY <2>3, <2>5, <3>2
      <4>2. k \in 1..Len(old) \/ k = Len(old) + 1
        BY <2>2, <4>1
      <4> QED
        BY <2>3, <2>6, <3>2, <4>1, <4>2
    <3> QED
      BY <3>1, <3>2
  <2>10. Gained(links, new, at, link)
    BY <1>1, <2>5, <2>7, <2>8, <2>9 DEF Gained
  <2> QED
    BY <1>1, <1>3, <2>5, <2>10
<1> QED
  BY <1>1, <1>2, <1>3

\* What a row adds.
RowAddedTo(b, new, row, at, rel) ==
    /\ Shape(new)
    /\ Grown(b.recordings, new.recordings, at,
             Encode[row.recording_name], row.recording_id)
    /\ Grown(b.releases, new.releases, rel,
             Encode[row.release_name], row.release_id)
    /\ Gained(b.links, new.links, at, LinkTo(row, rel))

\* The lists of links stay as many as the recordings, whether the recording of
\* the row is new or not.
LEMMA RowAdded ==
  ASSUME NEW b, Shape(b), NEW row \in MappingRow,
         Encode[row.recording_name] # NoText
  PROVE  \E at, rel : RowAddedTo(b, AddRow(b, row), row, at, rel)
<1> DEFINE text == Encode[row.recording_name]
           name == Encode[row.release_name]
           releases   == Insert(b.releases, name, row.release_id)
           recordings == Insert(b.recordings, text, row.recording_id)
           at   == Position(recordings, text)
           rel  == Position(releases, name)
           link == LinkTo(row, rel)
           links == WithLink(b.links, at, link)
           new == AddRow(b, row)
<1>1. /\ text \in Texts /\ name \in Texts
      /\ row.release_id \in Nat /\ row.recording_id \in Nat
  BY DEF MappingRow, Texts
<1>2. /\ b.recordings \in Seq(Entry) /\ b.releases \in Seq(Entry)
      /\ b.links \in Seq(Seq(LinkRecord))
      /\ Len(b.links) = Len(b.recordings) /\ Len(b.links) \in Nat
  <2>1. /\ b.recordings \in Seq(Entry) /\ b.releases \in Seq(Entry)
        /\ b.links \in Seq(Seq(LinkRecord))
        /\ Len(b.links) = Len(b.recordings)
    BY DEF Shape
  <2> QED
    BY <2>1, LenProperties
<1>3. new = [recordings |-> recordings, releases |-> releases, links |-> links]
  BY DEF AddRow, LinkTo, WithLink
<1>4. Grown(b.recordings, recordings, at, text, row.recording_id)
  BY <1>1, <1>2, Inserted
<1>5. Grown(b.releases, releases, rel, name, row.release_id)
  BY <1>1, <1>2, Inserted
<1> HIDE DEF recordings, releases, at, rel, text, name
<1>6. link \in LinkRecord
  <2>1. rel \in Nat
    BY <1>5 DEF Grown
  <2> QED
    BY <1>1, <2>1 DEF LinkRecord, LinkTo
<1>7. at \in 1..(Len(b.links) + 1)
  BY <1>2, <1>4 DEF Grown
<1> HIDE DEF link
<1>8. /\ links \in Seq(Seq(LinkRecord))
      /\ Len(links) = IF at > Len(b.links) THEN Len(b.links) + 1
                                            ELSE Len(b.links)
      /\ Gained(b.links, links, at, link)
  BY <1>2, <1>6, <1>7, LinkAppended
<1> HIDE DEF links
<1>9. Len(links) = Len(recordings)
  BY <1>2, <1>4, <1>8 DEF Grown
<1>10. Shape(new)
  <2>1. recordings \in Seq(Entry) /\ releases \in Seq(Entry)
    BY <1>4, <1>5 DEF Grown
  <2> QED
    BY <1>3, <1>8, <1>9, <2>1 DEF Shape
<1>11. RowAddedTo(b, new, row, at, rel)
  <2>1. new.recordings = recordings /\ new.releases = releases /\ new.links = links
    BY <1>3
  <2> QED
    BY <1>4, <1>5, <1>8, <1>10, <2>1, Zenon DEF RowAddedTo, text, name, link
<1> QED
  BY <1>11

-----------------------------------------------------------------------------
(* What the builder keeps.                                                 *)

\* l is the link of the row r.
Of(l, r, releases) ==
    /\ l.release_index \in 1..Len(releases)
    /\ l.release_id = r.release_id /\ l.recording_id = r.recording_id
    /\ releases[l.release_index].text = Encode[r.release_name]

LinkedAt(b, i, r) ==
    \E k \in 1..Len(b.links[i]) : Of(b.links[i][k], r, b.releases)

\* The rows in read can be found.
FoundIn(b, read) ==
    \A r \in read : Encode[r.recording_name] # NoText =>
       \E i \in 1..Len(b.recordings) :
          /\ b.recordings[i].text = Encode[r.recording_name]
          /\ LinkedAt(b, i, r)

\* An entry has the links of the rows in read with its id.
CanonIn(b, read) ==
    \A i \in 1..Len(b.recordings) : \A r \in read :
       r.recording_id = b.recordings[i].id => LinkedAt(b, i, r)

\* s stands behind the entry at i, by its name or an alias in table.
Behind(b, i, s, sel, table) ==
    /\ s.recording_id = b.recordings[i].id
    /\ \/ Encode[s.recording_name] = b.recordings[i].text
       \/ \E p \in table : /\ p[1] = b.recordings[i].id
                           /\ Encode[p[2]] = b.recordings[i].text
    /\ \A k \in 1..Len(b.links[i]) : \E r \in sel :
          /\ Of(b.links[i][k], r, b.releases)
          /\ Encode[r.recording_name] = Encode[s.recording_name]

Sourced(b, sel, table) ==
    \A i \in 1..Len(b.recordings) :
       \E s \in sel : Behind(b, i, s, sel, table)

Named(b) == \A i \in 1..Len(b.recordings) : b.recordings[i].text # NoText

\* A link stays the link of its row when releases are added.
LEMMA OfKept ==
  ASSUME NEW old \in Seq(Entry), NEW new, NEW at, NEW text, NEW id,
         Grown(old, new, at, text, id), NEW l, NEW r, Of(l, r, old)
  PROVE  Of(l, r, new)
<1>1. Len(old) \in Nat /\ Len(new) \in Nat
  BY LenProperties DEF Grown
<1>2. /\ l.release_index \in 1..Len(new)
      /\ new[l.release_index] = old[l.release_index]
  BY <1>1 DEF Grown, Of
<1> QED
  BY <1>2 DEF Of

\* What a row adds, seen from the links: the old ones stay, and there is one
\* more, under the text of the row.
LEMMA RowLinks ==
  ASSUME NEW b, Shape(b), NEW row, NEW new, NEW at, NEW rel,
         RowAddedTo(b, new, row, at, rel)
  PROVE  /\ at \in 1..Len(new.recordings)
         /\ new.recordings[at].text = Encode[row.recording_name]
         /\ LinkedAt(new, at, row)
         /\ \A i \in 1..Len(b.recordings) :
               /\ i \in 1..Len(new.recordings)
               /\ new.recordings[i] = b.recordings[i]
               /\ \A r : LinkedAt(b, i, r) => LinkedAt(new, i, r)
         /\ \A i \in 1..Len(new.recordings) : \A k \in 1..Len(new.links[i]) :
               \/ /\ i \in 1..Len(b.recordings) /\ k \in 1..Len(b.links[i])
                  /\ new.links[i][k] = b.links[i][k]
               \/ i = at /\ Of(new.links[i][k], row, new.releases)
<1> USE DEF RowAddedTo
<1>1. /\ b.recordings \in Seq(Entry) /\ b.releases \in Seq(Entry)
      /\ Len(b.links) = Len(b.recordings)
      /\ new.recordings \in Seq(Entry) /\ new.releases \in Seq(Entry)
      /\ Len(new.links) = Len(new.recordings)
  BY DEF Shape
<1>2. Len(b.recordings) \in Nat /\ Len(new.recordings) \in Nat
  BY <1>1, LenProperties
<1>3. Of(LinkTo(row, rel), row, new.releases)
  <2>1. rel \in 1..Len(new.releases)
        /\ new.releases[rel].text = Encode[row.release_name]
    BY DEF Grown
  <2> QED
    BY <2>1 DEF Of, LinkTo
<1>4. /\ at \in 1..Len(new.recordings)
      /\ new.recordings[at].text = Encode[row.recording_name]
      /\ \A i \in 1..Len(b.recordings) :
            i \in 1..Len(new.recordings) /\ new.recordings[i] = b.recordings[i]
  BY <1>2 DEF Grown
<1>5. LinkedAt(new, at, row)
  BY <1>3 DEF Gained, LinkedAt
<1>6. ASSUME NEW i \in 1..Len(b.recordings), NEW r, LinkedAt(b, i, r)
      PROVE  LinkedAt(new, i, r)
  <2>1. PICK k \in 1..Len(b.links[i]) : Of(b.links[i][k], r, b.releases)
    BY <1>6 DEF LinkedAt
  <2>2. k \in 1..Len(new.links[i]) /\ new.links[i][k] = b.links[i][k]
    BY <1>1 DEF Gained
  <2>3. Of(new.links[i][k], r, new.releases)
    BY <1>1, <2>1, <2>2, OfKept
  <2> QED
    BY <2>2, <2>3 DEF LinkedAt
<1>7. ASSUME NEW i \in 1..Len(new.recordings), NEW k \in 1..Len(new.links[i])
      PROVE  \/ /\ i \in 1..Len(b.recordings) /\ k \in 1..Len(b.links[i])
                /\ new.links[i][k] = b.links[i][k]
             \/ i = at /\ Of(new.links[i][k], row, new.releases)
  BY <1>1, <1>3 DEF Gained
<1> QED
  BY <1>4, <1>5, <1>6, <1>7

\* An entry with the id of one of the rows has the text of that row's name.
TextOfId(b, rs) ==
    \A i \in 1..Len(b.recordings), r \in rs :
       r.recording_id = b.recordings[i].id =>
          /\ Encode[r.recording_name] = b.recordings[i].text
          /\ Encode[r.recording_name] # NoText

\* While rows are read, an entry has the name of the recording behind it.
LEMMA EntryName ==
  ASSUME NEW m \in Mappings, NEW sel \in SUBSET m, NEW b, Named(b),
         Sourced(b, sel, {})
  PROVE  TextOfId(b, m)
<1> SUFFICES ASSUME NEW i \in 1..Len(b.recordings), NEW r \in m,
                    r.recording_id = b.recordings[i].id
             PROVE  /\ Encode[r.recording_name] = b.recordings[i].text
                    /\ Encode[r.recording_name] # NoText
  BY DEF TextOfId
<1>1. PICK s \in sel : Behind(b, i, s, sel, {})
  BY DEF Sourced
<1>2. s \in m /\ s.recording_id = r.recording_id
      /\ Encode[s.recording_name] = b.recordings[i].text
  BY <1>1 DEF Behind
<1>3. s.recording_name = r.recording_name
  BY <1>2, RecordingNamed
<1> QED
  BY <1>2, <1>3 DEF Named

\* A row keeps what the entries are backed by.
LEMMA RowSourced ==
  ASSUME NEW sel, NEW b, Shape(b), Named(b), Sourced(b, sel, {}), NEW row \in sel,
         NEW new, NEW at, NEW rel, RowAddedTo(b, new, row, at, rel),
         Distinct(b.recordings), Encode[row.recording_name] # NoText
  PROVE  Distinct(new.recordings) /\ Named(new) /\ Sourced(new, sel, {})
<1>1. Distinct(new.recordings)
  BY Zenon DEF RowAddedTo, Grown
<1>2. /\ \A i \in 1..Len(b.recordings) : new.recordings[i] = b.recordings[i]
      /\ new.recordings[at].text = Encode[row.recording_name]
      /\ \A i \in 1..Len(new.recordings) : \A k \in 1..Len(new.links[i]) :
            \/ /\ i \in 1..Len(b.recordings) /\ k \in 1..Len(b.links[i])
               /\ new.links[i][k] = b.links[i][k]
            \/ i = at /\ Of(new.links[i][k], row, new.releases)
  <2>1. \A i \in 1..Len(b.recordings) : new.recordings[i] = b.recordings[i]
    BY RowLinks
  <2>2. new.recordings[at].text = Encode[row.recording_name]
    BY RowLinks
  <2>3. \A i \in 1..Len(new.recordings) : \A k \in 1..Len(new.links[i]) :
            \/ /\ i \in 1..Len(b.recordings) /\ k \in 1..Len(b.links[i])
               /\ new.links[i][k] = b.links[i][k]
            \/ i = at /\ Of(new.links[i][k], row, new.releases)
    BY RowLinks
  <2> QED
    BY <2>1, <2>2, <2>3
<1>3. \A i \in 1..Len(new.recordings) :
         \/ i \in 1..Len(b.recordings)
         \/ /\ i = at /\ i \notin 1..Len(b.recordings)
            /\ new.recordings[i].id = row.recording_id
  <2>1. Len(b.recordings) \in Nat /\ Len(new.recordings) \in Nat
    <3>1. b.recordings \in Seq(Entry) /\ new.recordings \in Seq(Entry)
      BY DEF RowAddedTo, Shape
    <3> QED
      BY <3>1, LenProperties
  <2>2. \/ Len(new.recordings) = Len(b.recordings)
        \/ /\ at = Len(b.recordings) + 1
           /\ Len(new.recordings) = Len(b.recordings) + 1
           /\ new.recordings[at].id = row.recording_id
    BY DEF RowAddedTo, Grown
  <2> QED
    BY <2>1, <2>2
<1>4. Named(new)
  BY <1>2, <1>3 DEF Named
<1>5. ASSUME NEW l, NEW r, Of(l, r, b.releases) PROVE Of(l, r, new.releases)
  <2>1. b.releases \in Seq(Entry)
        /\ Grown(b.releases, new.releases, rel, Encode[row.release_name], row.release_id)
    BY DEF RowAddedTo, Shape
  <2> QED
    BY <1>5, <2>1, OfKept
<1>6. ASSUME NEW i \in 1..Len(new.recordings)
      PROVE  \E s \in sel : Behind(new, i, s, sel, {})
  <2>1. CASE i \in 1..Len(b.recordings)
    <3>1. PICK s \in sel : Behind(b, i, s, sel, {})
      BY <2>1 DEF Sourced
    <3>2. /\ s.recording_id = new.recordings[i].id
          /\ Encode[s.recording_name] = new.recordings[i].text
      BY <1>2, <2>1, <3>1 DEF Behind
    <3>3. ASSUME NEW k \in 1..Len(new.links[i])
          PROVE  \E r \in sel : /\ Of(new.links[i][k], r, new.releases)
                               /\ Encode[r.recording_name] = Encode[s.recording_name]
      <4>1. CASE k \in 1..Len(b.links[i]) /\ new.links[i][k] = b.links[i][k]
        <5>1. PICK r \in sel : /\ Of(b.links[i][k], r, b.releases)
                              /\ Encode[r.recording_name] = Encode[s.recording_name]
          BY <3>1, <4>1 DEF Behind
        <5> QED
          BY <1>5, <4>1, <5>1
      <4>2. CASE i = at /\ Of(new.links[i][k], row, new.releases)
        BY <1>2, <3>2, <4>2
      <4> QED
        BY <1>2, <4>1, <4>2
    <3> QED
      BY <3>2, <3>3 DEF Behind
  <2>2. CASE /\ i = at /\ i \notin 1..Len(b.recordings)
             /\ new.recordings[i].id = row.recording_id
    <3>1. Behind(new, i, row, sel, {})
      BY <1>2, <2>2 DEF Behind
    <3> QED
      BY <3>1
  <2> QED
    BY <1>3, <2>1, <2>2
<1> QED
  BY <1>1, <1>4, <1>6 DEF Sourced

\* A row that is read is found, and those read before it are.
LEMMA RowFound ==
  ASSUME NEW b, Shape(b), NEW row, NEW new, NEW at, NEW rel,
         RowAddedTo(b, new, row, at, rel), NEW read, FoundIn(b, read)
  PROVE  FoundIn(new, read \cup {row})
<1> SUFFICES ASSUME NEW r \in read \cup {row}, Encode[r.recording_name] # NoText
             PROVE  \E i \in 1..Len(new.recordings) :
                       /\ new.recordings[i].text = Encode[r.recording_name]
                       /\ LinkedAt(new, i, r)
  BY DEF FoundIn
<1>1. CASE r = row
  BY <1>1, RowLinks
<1>2. CASE r \in read
  <2>1. PICK i \in 1..Len(b.recordings) :
           b.recordings[i].text = Encode[r.recording_name] /\ LinkedAt(b, i, r)
    BY <1>2 DEF FoundIn
  <2>2. /\ i \in 1..Len(new.recordings)
        /\ new.recordings[i] = b.recordings[i] /\ LinkedAt(new, i, r)
    BY <2>1, RowLinks
  <2> QED
    BY <2>1, <2>2
<1> QED
  BY <1>1, <1>2

\* Once the rows are found, an entry has the links of its id: a row with that
\* id has the entry's text, and the text has no other entry.
LEMMA FoundCanon ==
  ASSUME NEW m \in Mappings, NEW sel \in SUBSET m, NEW read \in SUBSET sel,
         NEW b, Named(b), Sourced(b, sel, {}), Distinct(b.recordings),
         FoundIn(b, read)
  PROVE  CanonIn(b, read)
<1> SUFFICES ASSUME NEW i \in 1..Len(b.recordings), NEW r \in read,
                    r.recording_id = b.recordings[i].id
             PROVE  LinkedAt(b, i, r)
  BY DEF CanonIn
<1>1. /\ Encode[r.recording_name] = b.recordings[i].text
      /\ Encode[r.recording_name] # NoText
  <2>1. r \in m
    OBVIOUS
  <2>2. TextOfId(b, m)
    BY EntryName
  <2> QED
    BY <2>1, <2>2 DEF TextOfId
<1>2. PICK j \in 1..Len(b.recordings) :
         b.recordings[j].text = Encode[r.recording_name] /\ LinkedAt(b, j, r)
  BY <1>1 DEF FoundIn
<1>3. j = i
  BY <1>1, <1>2 DEF Distinct
<1> QED
  BY <1>2, <1>3

-----------------------------------------------------------------------------
(* Aliases and sorting.                                                    *)

\* An alias has the links of an entry with its id, so it is backed by what
\* backs that entry, has what the id has, and takes nothing from the others.
LEMMA AliasAdded ==
  ASSUME NEW b, Shape(b), Named(b), NEW sel, NEW table, Sourced(b, sel, table),
         NEW alias \in Entry, alias.text # NoText,
         \E i \in 1..Len(b.recordings) : b.recordings[i].id = alias.id,
         \E p \in table : p[1] = alias.id /\ Encode[p[2]] = alias.text,
         NEW read, NEW new, new = AddAlias(b, alias)
  PROVE  /\ Shape(new) /\ Named(new) /\ Sourced(new, sel, table)
         /\ FoundIn(b, read) => FoundIn(new, read)
         /\ CanonIn(b, read) => CanonIn(new, read)
         /\ Len(new.recordings) = Len(b.recordings) + 1
         /\ \A i \in 1..Len(b.recordings) : new.recordings[i] = b.recordings[i]
<1> DEFINE entry == [text |-> alias.text, id |-> alias.id]
           from  == CHOOSE i \in DOMAIN b.recordings : b.recordings[i].id = alias.id
           n == Len(b.recordings)
           recordings == new.recordings
           links == new.links
<1>1. /\ b.recordings \in Seq(Entry) /\ b.releases \in Seq(Entry)
      /\ b.links \in Seq(Seq(LinkRecord)) /\ Len(b.links) = n
  BY DEF Shape
<1>2. n \in Nat /\ DOMAIN b.recordings = 1..n
  BY <1>1, LenProperties
<1>3. from \in 1..n /\ b.recordings[from].id = alias.id
  BY <1>2
<1>4. entry \in Entry /\ entry.text = alias.text /\ entry.id = alias.id
  BY DEF Entry
<1>5. /\ recordings = Append(b.recordings, entry)
      /\ links = Append(b.links, b.links[from])
      /\ new.releases = b.releases
      /\ new \in [recordings : {recordings}, releases : {b.releases}, links : {links}]
  BY <1>1 DEF AddAlias, Shape
<1> HIDE DEF from, entry, recordings, links, n
<1>6. b.links[from] \in Seq(LinkRecord)
  BY <1>1, <1>3, ElementOfSeq
<1>7. /\ recordings \in Seq(Entry) /\ Len(recordings) = n + 1
      /\ \A i \in 1..n : recordings[i] = b.recordings[i]
      /\ recordings[n + 1] = entry
  BY <1>1, <1>4, <1>5, AppendProperties DEF n
<1>8. /\ links \in Seq(Seq(LinkRecord)) /\ Len(links) = n + 1
      /\ \A i \in 1..n : links[i] = b.links[i]
      /\ links[n + 1] = b.links[from]
  <2> DEFINE S == Seq(LinkRecord)
  <2>1. b.links \in Seq(S) /\ b.links[from] \in S
    BY <1>1, <1>6
  <2> HIDE DEF S
  <2>2. /\ links \in Seq(S) /\ Len(links) = n + 1
        /\ \A i \in 1..n : links[i] = b.links[i]
        /\ links[n + 1] = b.links[from]
    BY <1>1, <1>5, <2>1, AppendProperties
  <2> QED
    BY <2>2 DEF S
<1>9. Shape(new)
  BY <1>1, <1>5, <1>7, <1>8 DEF Shape, recordings, links
<1>10. \A i \in 1..(n + 1) : \E j \in 1..n :
          /\ links[i] = b.links[j] /\ recordings[i].id = b.recordings[j].id
          /\ \/ i = j /\ recordings[i] = b.recordings[j]
             \/ i = n + 1 /\ recordings[i] = entry
  <2> SUFFICES ASSUME NEW i \in 1..(n + 1)
               PROVE  \E j \in 1..n :
                         /\ links[i] = b.links[j]
                         /\ recordings[i].id = b.recordings[j].id
                         /\ \/ i = j /\ recordings[i] = b.recordings[j]
                            \/ i = n + 1 /\ recordings[i] = entry
    OBVIOUS
  <2>1. CASE i \in 1..n
    BY <1>7, <1>8, <2>1
  <2>2. CASE i = n + 1
    BY <1>3, <1>4, <1>7, <1>8, <2>2
  <2> QED
    BY <1>2, <2>1, <2>2
<1>11. \A i \in 1..(n + 1), j \in 1..n : \A r : links[i] = b.links[j] =>
          (LinkedAt(b, j, r) => LinkedAt(new, i, r))
  BY <1>5 DEF LinkedAt, links
<1>12. Named(new)
  <2>1. \A i \in 1..(n + 1) : recordings[i].text # NoText
    BY <1>4, <1>10 DEF Named, n
  <2> QED
    BY <1>7, <2>1 DEF Named, recordings
<1>13. Sourced(new, sel, table)
  <2> SUFFICES ASSUME NEW i \in 1..(n + 1)
               PROVE  \E s \in sel : Behind(new, i, s, sel, table)
    BY <1>7 DEF Sourced, recordings
  <2>1. PICK j \in 1..n : 
          /\ links[i] = b.links[j] /\ recordings[i].id = b.recordings[j].id
          /\ \/ i = j /\ recordings[i] = b.recordings[j]
             \/ i = n + 1 /\ recordings[i] = entry
    BY <1>10
  <2>2. PICK s \in sel : Behind(b, j, s, sel, table)
    BY DEF Sourced, n
  <2>3. \/ Encode[s.recording_name] = recordings[i].text
        \/ \E p \in table : /\ p[1] = recordings[i].id
                            /\ Encode[p[2]] = recordings[i].text
    <3>1. CASE i = j /\ recordings[i] = b.recordings[j]
      BY <2>2, <3>1 DEF Behind
    <3>2. CASE recordings[i] = entry
      BY <1>4, <3>2
    <3> QED
      BY <2>1, <3>1, <3>2
  <2>4. Behind(new, i, s, sel, table)
    BY <1>5, <2>1, <2>2, <2>3, Zenon DEF Behind, recordings, links
  <2> QED
    BY <2>4
<1>14. ASSUME FoundIn(b, read) PROVE FoundIn(new, read)
  <2> SUFFICES ASSUME NEW r \in read, Encode[r.recording_name] # NoText
               PROVE  \E i \in 1..(n + 1) :
                         /\ recordings[i].text = Encode[r.recording_name]
                         /\ LinkedAt(new, i, r)
    BY <1>7 DEF FoundIn, recordings
  <2>1. PICK i \in 1..n :
           b.recordings[i].text = Encode[r.recording_name] /\ LinkedAt(b, i, r)
    BY <1>14 DEF FoundIn, n
  <2>2. i \in 1..(n + 1)
    BY <1>2
  <2> QED
    BY <1>7, <1>8, <1>11, <2>1, <2>2
<1>15. ASSUME CanonIn(b, read) PROVE CanonIn(new, read)
  <2> SUFFICES ASSUME NEW i \in 1..(n + 1), NEW r \in read,
                      r.recording_id = recordings[i].id
               PROVE  LinkedAt(new, i, r)
    BY <1>7 DEF CanonIn, recordings
  <2>1. PICK j \in 1..n :
           links[i] = b.links[j] /\ recordings[i].id = b.recordings[j].id
    BY <1>10
  <2>2. LinkedAt(b, j, r)
    BY <1>15, <2>1 DEF CanonIn, n
  <2> QED
    BY <1>11, <2>1, <2>2
<1> QED
  BY <1>7, <1>9, <1>12, <1>13, <1>14, <1>15 DEF recordings, n

SortedLinks(b) ==
    \A i \in 1..Len(b.links) : \A j, k \in 1..Len(b.links[i]) :
       j < k => b.links[i][j].release_id <= b.links[i][k].release_id

\* new is b with the links of each entry in order of the release ids, none
\* lost and none added.
LinksOrdered(b, new) ==
    /\ Shape(new) /\ SortedLinks(new)
    /\ new.recordings = b.recordings /\ new.releases = b.releases
    /\ \A i \in 1..Len(b.links) :
          /\ \A k \in 1..Len(new.links[i]) :
                \E l \in 1..Len(b.links[i]) : new.links[i][k] = b.links[i][l]
          /\ \A l \in 1..Len(b.links[i]) :
                \E k \in 1..Len(new.links[i]) : new.links[i][k] = b.links[i][l]

\* That is what sorting does.
LEMMA LinksSorted ==
  ASSUME NEW b, Shape(b)
  PROVE  LinksOrdered(b, SortLinks(b))
<1> DEFINE n == Len(b.links)
           key(i) == [j \in 1..Len(b.links[i]) |-> b.links[i][j].release_id]
           links == [i \in 1..n |-> SortBy(b.links[i], key(i))]
           new == SortLinks(b)
<1>1. /\ b \in [recordings : Seq(Entry), releases : Seq(Entry),
                links : Seq(Seq(LinkRecord))]
      /\ Len(b.recordings) = n /\ n \in Nat
      /\ DOMAIN b.links = 1..n
      /\ \A i \in 1..n : b.links[i] \in Seq(LinkRecord)
  <2>1. b.links \in Seq(Seq(LinkRecord))
    BY DEF Shape
  <2>2. n \in Nat /\ DOMAIN b.links = 1..n
    BY <2>1, LenProperties
  <2>3. \A i \in 1..n : b.links[i] \in Seq(LinkRecord)
    BY <2>1, ElementOfSeq
  <2> QED
    BY <2>2, <2>3 DEF Shape
<1>2. /\ new = [b EXCEPT !.links = links]
      /\ new.recordings = b.recordings /\ new.releases = b.releases
      /\ new.links = links
  BY <1>1 DEF SortLinks
<1> HIDE DEF new
<1>3. ASSUME NEW i \in 1..n
      PROVE  /\ links[i] \in Seq(LinkRecord) /\ Len(links[i]) = Len(b.links[i])
             /\ \A k \in 1..Len(links[i]) :
                   \E l \in 1..Len(b.links[i]) : links[i][k] = b.links[i][l]
             /\ \A l \in 1..Len(b.links[i]) :
                   \E k \in 1..Len(links[i]) : links[i][k] = b.links[i][l]
             /\ \A j, k \in 1..Len(links[i]) :
                   j < k => links[i][j].release_id <= links[i][k].release_id
  <2> DEFINE s == b.links[i]
             m == Len(s)
             sorted == SortBy(s, key(i))
  <2>1. links[i] = sorted
    OBVIOUS
  <2>2. /\ s \in Seq(LinkRecord) /\ m \in Nat
        /\ \A j \in 1..m : s[j] \in LinkRecord
    <3>1. s \in Seq(LinkRecord)
      BY <1>1
    <3> QED
      BY <3>1, LenProperties, ElementOfSeq
  <2> HIDE DEF links, s, sorted
  <2> DEFINE ids == key(i)
  <2>3. ids \in [1..m -> Int] /\ \A j \in 1..m : ids[j] = s[j].release_id
    <3>1. \A j \in 1..m : s[j].release_id \in Int
      BY <2>2 DEF LinkRecord
    <3>2. ids = [j \in 1..m |-> s[j].release_id]
      BY DEF s
    <3> HIDE DEF ids
    <3> QED
      BY <3>1, <3>2
  <2>4. sorted = SortBy(s, ids)
    BY DEF sorted, s
  <2> HIDE DEF ids
  <2>5. PICK at \in [1..m -> 1..m] :
           /\ SortBy(s, ids) = [k \in 1..m |-> s[at[k]]]
           /\ \A l \in 1..m : \E k \in 1..m : at[k] = l
           /\ \A k, l \in 1..m : k < l => ids[at[k]] <= ids[at[l]]
    BY <2>2, <2>3, SortByCorrect
  <2>6. sorted \in [1..m -> LinkRecord] /\ \A k \in 1..m : sorted[k] = s[at[k]]
    BY <2>2, <2>4, <2>5
  <2>7. sorted \in Seq(LinkRecord) /\ Len(sorted) = m
    BY <2>2, <2>6, FunctionIsSeq
  <2>8. \A k \in 1..m : at[k] \in 1..m
    BY <2>5
  <2>9. \A j, k \in 1..m : j < k => sorted[j].release_id <= sorted[k].release_id
    <3>1. \A j \in 1..m : sorted[j].release_id = ids[at[j]]
      <4> SUFFICES ASSUME NEW j \in 1..m
                   PROVE  sorted[j].release_id = ids[at[j]]
        OBVIOUS
      <4>1. sorted[j] = s[at[j]] /\ at[j] \in 1..m
        BY <2>6, <2>8
      <4> QED
        BY <2>3, <4>1
    <3> QED
      BY <2>5, <3>1, Zenon
  <2>10. \A l \in 1..m : \E k \in 1..m : sorted[k] = s[l]
    BY <2>5, <2>6
  <2> HIDE DEF m
  <2>11. m = Len(s)
    BY DEF m
  <2> QED
    BY <2>1, <2>6, <2>7, <2>8, <2>9, <2>10, <2>11, Zenon DEF s
<1>4. /\ links \in Seq(Seq(LinkRecord)) /\ Len(links) = n
  <2> DEFINE S == Seq(LinkRecord)
  <2>1. links \in [1..n -> S]
    BY <1>3
  <2> HIDE DEF S, links
  <2>2. links \in Seq(S) /\ Len(links) = n
    BY <1>1, <2>1, FunctionIsSeq
  <2> QED
    BY <2>2 DEF S
<1> HIDE DEF links
<1>5. Shape(new)
  BY <1>1, <1>2, <1>4 DEF Shape
<1>6. SortedLinks(new)
  <2>1. \A i \in 1..n : \A j, k \in 1..Len(links[i]) :
           j < k => links[i][j].release_id <= links[i][k].release_id
    BY <1>3
  <2>2. new.links = links /\ Len(links) = n
    BY <1>2, <1>4
  <2> HIDE DEF n
  <2> QED
    BY <2>1, <2>2, Zenon DEF SortedLinks
<1>7. \A i \in 1..Len(b.links) :
         /\ \A k \in 1..Len(new.links[i]) :
               \E l \in 1..Len(b.links[i]) : new.links[i][k] = b.links[i][l]
         /\ \A l \in 1..Len(b.links[i]) :
               \E k \in 1..Len(new.links[i]) : new.links[i][k] = b.links[i][l]
  BY <1>2, <1>3
<1>8. LinksOrdered(b, new)
  BY <1>2, <1>5, <1>6, <1>7, Zenon DEF LinksOrdered
<1> QED
  BY <1>8 DEF new

-----------------------------------------------------------------------------
(* The inductive invariant. While rows are read, no text has two entries;  *)
(* an alias may later repeat a text, and what the canonical releases need   *)
(* of it has been drawn by then.                                           *)

Rows == Selected(mapping, Artist)
Read == Rows \ Range(rows)

PendingOK ==
    \A alias \in pending :
       /\ alias \in Entry /\ alias.text # NoText
       /\ \E i \in 1..Len(building.recordings) : building.recordings[i].id = alias.id
       /\ \E p \in aliases : p[1] = alias.id /\ Encode[p[2]] = alias.text

IInv ==
    /\ mapping \in Mappings /\ aliases \in AliasTables
    /\ phase \in {"rows", "aliases", "done"}
    /\ rows \in Seq(Rows)
    /\ phase # "rows" => rows = <<>>
    /\ Shape(building)
    /\ Named(building)
    /\ phase = "rows" => Distinct(building.recordings)
    /\ Sourced(building, Rows, IF phase = "rows" THEN {} ELSE aliases)
    /\ ~failed => FoundIn(building, Read)
    /\ phase # "rows" /\ ~failed => CanonIn(building, Rows)
    /\ PendingOK
    /\ Done => SortedLinks(building)

LEMMA InitIInv ==
  ASSUME Init
  PROVE  IInv
<1>1. mapping \in Mappings /\ aliases \in AliasTables /\ phase = "rows"
      /\ rows \in QueryResults(mapping, Artist) /\ failed = FALSE
      /\ pending = {} /\ building = EmptyIndex
  BY DEF Init
<1>2. IsFiniteSet(Rows) /\ Cardinality(Rows) \in Nat
  <2>1. IsFiniteSet(mapping) /\ Rows \in SUBSET mapping
    BY <1>1, MappingAssumption DEF Rows, Selected
  <2> QED
    BY <2>1, FS_Subset, FS_CardinalityType
<1>3. /\ rows \in [1..Cardinality(Rows) -> Rows]
      /\ \A i, j \in 1..Cardinality(Rows) : i # j => rows[i] # rows[j]
  BY <1>1 DEF QueryResults, SetToSeqs, Rows
<1>4. rows \in Seq(Rows)
  BY <1>2, <1>3, FunctionIsSeq
<1>5. Read = {}
  <2>1. \A r \in Rows : \E i \in 1..Cardinality(Rows) : rows[i] = r
    BY <1>2, <1>3, InjectiveCovers
  <2> QED
    BY <1>3, <2>1 DEF Read, Range
<1>6. /\ building.recordings = <<>> /\ building.releases = <<>>
      /\ building.links = <<>>
      /\ building \in [recordings : {<<>>}, releases : {<<>>}, links : {<<>>}]
  BY <1>1 DEF EmptyIndex
<1>7. Shape(building)
  <2>1. /\ <<>> \in Seq(Entry) /\ <<>> \in Seq(Seq(LinkRecord))
    OBVIOUS
  <2> QED
    BY <1>6, <2>1 DEF Shape
<1>8. 1..Len(building.recordings) = {}
  BY <1>6
<1>9. Named(building) /\ Distinct(building.recordings)
      /\ Sourced(building, Rows, {})
  BY <1>8 DEF Named, Distinct, Sourced
<1>10. FoundIn(building, Read)
  BY <1>5 DEF FoundIn
<1> QED
  BY <1>1, <1>4, <1>7, <1>9, <1>10 DEF IInv, PendingOK, Done

\* The first row of those left leaves them and is read.
LEMMA ReadStep ==
  ASSUME rows \in Seq(Rows), rows # <<>>, rows' = Tail(rows),
         UNCHANGED mapping
  PROVE  /\ Rows' = Rows /\ Head(rows) \in Rows
         /\ rows' \in Seq(Rows')
         /\ Read' \subseteq Read \cup {Head(rows)}
<1>1. Rows' = Rows
  BY DEF Rows
<1>2. /\ Head(rows) \in Rows /\ Head(rows) = rows[1]
      /\ rows' \in Seq(Rows) /\ Len(rows') = Len(rows) - 1
      /\ \A i \in 1..(Len(rows) - 1) : rows'[i] = rows[i + 1]
  BY HeadTailProperties
<1>3. /\ Len(rows) \in Nat /\ DOMAIN rows = 1..Len(rows)
      /\ DOMAIN rows' = 1..(Len(rows) - 1)
  <2>1. DOMAIN rows' = 1..Len(rows')
    BY <1>2, LenProperties
  <2> QED
    BY <1>2, <2>1, LenProperties
<1>4. ASSUME NEW r \in Range(rows) PROVE r = Head(rows) \/ r \in Range(rows')
  <2>1. PICK i \in 1..Len(rows) : r = rows[i]
    BY <1>3 DEF Range
  <2>2. CASE i = 1
    BY <1>2, <2>1, <2>2
  <2>3. CASE i # 1
    <3>1. i - 1 \in 1..(Len(rows) - 1) /\ (i - 1) + 1 = i
      BY <1>3, <2>3
    <3>2. rows'[i - 1] = r
      BY <1>2, <2>1, <3>1
    <3> QED
      BY <1>3, <3>1, <3>2 DEF Range
  <2> QED
    BY <2>2, <2>3
<1> QED
  BY <1>1, <1>2, <1>4 DEF Read

LEMMA ReadRowIInv ==
  ASSUME IInv, ReadRow
  PROVE  IInv'
<1> DEFINE row == Head(rows)
           new == AddRow(building, row)
<1>1. /\ phase = "rows" /\ rows # <<>> /\ building' = new /\ rows' = Tail(rows)
      /\ UNCHANGED <<mapping, aliases, phase, failed, pending>>
  BY DEF ReadRow
<1>2. /\ mapping \in Mappings /\ aliases \in AliasTables /\ rows \in Seq(Rows)
      /\ Shape(building) /\ Named(building) /\ Distinct(building.recordings)
      /\ Sourced(building, Rows, {})
      /\ ~failed => FoundIn(building, Read)
      /\ PendingOK
  BY <1>1 DEF IInv
<1>3. /\ Rows' = Rows /\ row \in Rows /\ rows' \in Seq(Rows')
      /\ Read' \subseteq Read \cup {row}
  BY <1>1, <1>2, ReadStep
<1>4. Rows \subseteq mapping /\ row \in MappingRow
  BY <1>2, <1>3, MappingAssumption DEF Rows, Selected
<1> HIDE DEF row
<1>5. /\ Shape(new) /\ Named(new) /\ Distinct(new.recordings)
      /\ Sourced(new, Rows, {})
      /\ FoundIn(building, Read) => FoundIn(new, Read')
      /\ \A i \in 1..Len(building.recordings) :
            i \in 1..Len(new.recordings) /\ new.recordings[i] = building.recordings[i]
  <2>1. CASE Encode[row.recording_name] = NoText
    <3>1. new = building
      BY <2>1 DEF AddRow
    <3> HIDE DEF new
    <3>2. FoundIn(building, Read) => FoundIn(building, Read')
      BY <1>3, <2>1 DEF FoundIn
    <3> QED
      BY <1>2, <3>1, <3>2
  <2>2. CASE Encode[row.recording_name] # NoText
    <3>1. PICK at, rel : RowAddedTo(building, new, row, at, rel)
      BY <1>2, <1>4, <2>2, RowAdded
    <3> HIDE DEF new
    <3>2. Distinct(new.recordings) /\ Named(new) /\ Sourced(new, Rows, {})
      BY <1>2, <1>3, <2>2, <3>1, RowSourced
    <3>3. ASSUME FoundIn(building, Read) PROVE FoundIn(new, Read')
      <4>1. FoundIn(new, Read \cup {row})
        BY <1>2, <3>1, <3>3, RowFound
      <4> QED
        BY <1>3, <4>1 DEF FoundIn
    <3>4. \A i \in 1..Len(building.recordings) :
            i \in 1..Len(new.recordings) /\ new.recordings[i] = building.recordings[i]
      BY <1>2, <3>1, RowLinks
    <3> QED
      BY <3>1, <3>2, <3>3, <3>4 DEF RowAddedTo
  <2> QED
    BY <2>1, <2>2
<1> HIDE DEF new
<1>6. PendingOK'
  BY <1>1, <1>2, <1>5 DEF PendingOK
<1> QED
  BY <1>1, <1>2, <1>3, <1>5, <1>6 DEF IInv, Done

\* What was read stays found when the rest is given up.
LEMMA QueryFailsIInv ==
  ASSUME IInv, QueryFails
  PROVE  IInv'
<1>1. /\ phase = "rows" /\ rows' = <<>> /\ failed' = TRUE
      /\ UNCHANGED <<mapping, aliases, phase, pending, building>>
  BY DEF QueryFails
<1>2. Rows' = Rows /\ <<>> \in Seq(Rows)
  BY <1>1 DEF Rows
<1>3. PendingOK'
  BY <1>1 DEF IInv, PendingOK
<1> QED
  BY <1>1, <1>2, <1>3 DEF IInv, Done

LEMMA CollectAliasesIInv ==
  ASSUME IInv, CollectAliases
  PROVE  IInv'
<1>1. /\ phase = "rows" /\ rows = <<>> /\ pending' = NewAliases(building, aliases)
      /\ phase' = "aliases"
      /\ UNCHANGED <<mapping, aliases, rows, failed, building>>
  BY DEF CollectAliases
<1>2. /\ mapping \in Mappings /\ aliases \in AliasTables /\ rows \in Seq(Rows)
      /\ Shape(building) /\ Named(building) /\ Distinct(building.recordings)
      /\ Sourced(building, Rows, {})
      /\ ~failed => FoundIn(building, Read)
  BY <1>1 DEF IInv
<1>3. Rows' = Rows /\ Read' = Read /\ Read = Rows /\ Rows \in SUBSET mapping
  BY <1>1 DEF Rows, Read, Range, Selected
<1>4. Sourced(building, Rows, aliases)
  BY <1>2 DEF Sourced, Behind
<1>5. ASSUME ~failed PROVE CanonIn(building, Rows)
  <2>1. FoundIn(building, Rows)
    BY <1>2, <1>3, <1>5
  <2> QED
    BY <1>2, <1>3, <2>1, FoundCanon
<1>6. PendingOK'
  <2> SUFFICES ASSUME NEW alias \in NewAliases(building, aliases)
               PROVE  /\ alias \in Entry /\ alias.text # NoText
                      /\ \E i \in 1..Len(building.recordings) :
                            building.recordings[i].id = alias.id
                      /\ \E p \in aliases : p[1] = alias.id /\ Encode[p[2]] = alias.text
    BY <1>1 DEF PendingOK
  <2>1. PICK p \in aliases :
           /\ \E i \in DOMAIN building.recordings : building.recordings[i].id = p[1]
           /\ Encode[p[2]] # NoText
           /\ alias = [id |-> p[1], text |-> Encode[p[2]]]
    BY DEF NewAliases
  <2>2. p[1] \in Nat /\ Encode[p[2]] \in Texts
    BY <1>2, MappingAssumption DEF Texts
  <2>3. alias \in Entry /\ alias.id = p[1] /\ alias.text = Encode[p[2]]
    BY <2>1, <2>2 DEF Entry
  <2>4. DOMAIN building.recordings = 1..Len(building.recordings)
    <3>1. building.recordings \in Seq(Entry)
      BY <1>2 DEF Shape
    <3> QED
      BY <3>1, LenProperties
  <2> QED
    BY <2>1, <2>3, <2>4
<1> QED
  BY <1>1, <1>2, <1>3, <1>4, <1>5, <1>6 DEF IInv, Done

LEMMA AppendAliasIInv ==
  ASSUME IInv, AppendAlias
  PROVE  IInv'
<1>1. PICK alias \in pending :
         building' = AddAlias(building, alias) /\ pending' = pending \ {alias}
  BY DEF AppendAlias
<1>2. /\ phase = "aliases" /\ UNCHANGED <<mapping, aliases, phase, rows, failed>>
      /\ Rows' = Rows /\ Read' = Read
  BY DEF AppendAlias, Rows, Read
<1>3. /\ mapping \in Mappings /\ aliases \in AliasTables /\ rows \in Seq(Rows)
      /\ Shape(building) /\ Named(building)
      /\ Sourced(building, Rows, aliases)
      /\ ~failed => FoundIn(building, Read) /\ CanonIn(building, Rows)
      /\ PendingOK /\ rows = <<>>
  BY <1>2 DEF IInv
<1>4. /\ alias \in Entry /\ alias.text # NoText
      /\ \E i \in 1..Len(building.recordings) : building.recordings[i].id = alias.id
      /\ \E p \in aliases : p[1] = alias.id /\ Encode[p[2]] = alias.text
  BY <1>3 DEF PendingOK
<1>5. /\ Shape(building') /\ Named(building') /\ Sourced(building', Rows, aliases)
      /\ Len(building'.recordings) = Len(building.recordings) + 1
      /\ \A i \in 1..Len(building.recordings) :
            building'.recordings[i] = building.recordings[i]
  BY <1>1, <1>3, <1>4, AliasAdded
<1>6. /\ FoundIn(building, Read) => FoundIn(building', Read)
      /\ CanonIn(building, Rows) => CanonIn(building', Rows)
  BY <1>1, <1>3, <1>4, AliasAdded
<1>7. PendingOK'
  <2>1. Len(building.recordings) \in Nat
    <3>1. building.recordings \in Seq(Entry)
      BY <1>3 DEF Shape
    <3> QED
      BY <3>1, LenProperties
  <2>2. \A i \in 1..Len(building.recordings) : i \in 1..Len(building'.recordings)
    BY <1>5, <2>1
  <2> QED
    BY <1>1, <1>2, <1>3, <1>5, <2>2 DEF PendingOK
<1> QED
  BY <1>2, <1>3, <1>5, <1>6, <1>7 DEF IInv, Done

LEMMA FinishIInv ==
  ASSUME IInv, Finish
  PROVE  IInv'
<1>1. /\ phase = "aliases" /\ pending = {} /\ building' = SortLinks(building)
      /\ phase' = "done" /\ UNCHANGED <<mapping, aliases, rows, failed, pending>>
      /\ Rows' = Rows /\ Read' = Read
  BY DEF Finish, Rows, Read
<1>2. /\ mapping \in Mappings /\ aliases \in AliasTables /\ rows \in Seq(Rows)
      /\ Shape(building) /\ Named(building)
      /\ Sourced(building, Rows, aliases)
      /\ ~failed => FoundIn(building, Read) /\ CanonIn(building, Rows)
      /\ rows = <<>>
  BY <1>1 DEF IInv
<1> DEFINE new == building'
<1>3. /\ Shape(new) /\ SortedLinks(new)
      /\ new.recordings = building.recordings /\ new.releases = building.releases
      /\ \A i \in 1..Len(building.links) :
            /\ \A k \in 1..Len(new.links[i]) :
                  \E l \in 1..Len(building.links[i]) :
                     new.links[i][k] = building.links[i][l]
            /\ \A l \in 1..Len(building.links[i]) :
                  \E k \in 1..Len(new.links[i]) :
                     new.links[i][k] = building.links[i][l]
  <2>1. LinksOrdered(building, SortLinks(building))
    BY <1>2, LinksSorted
  <2>2. LinksOrdered(building, new)
    BY <1>1, <2>1, Zenon
  <2> HIDE DEF new
  <2> QED
    BY <2>2, Zenon DEF LinksOrdered
<1>4. Len(building.links) = Len(building.recordings)
  BY <1>2 DEF Shape
<1> HIDE DEF new
<1>5. Named(new)
  BY <1>2, <1>3 DEF Named
<1>6. \A i \in 1..Len(building.recordings) : \A r :
         LinkedAt(building, i, r) => LinkedAt(new, i, r)
  <2> SUFFICES ASSUME NEW i \in 1..Len(building.recordings), NEW r,
                      LinkedAt(building, i, r)
               PROVE  LinkedAt(new, i, r)
    OBVIOUS
  <2>1. PICK l \in 1..Len(building.links[i]) :
           Of(building.links[i][l], r, building.releases)
    BY DEF LinkedAt
  <2>2. PICK k \in 1..Len(new.links[i]) : new.links[i][k] = building.links[i][l]
    BY <1>3, <1>4
  <2> QED
    BY <1>3, <2>1, <2>2 DEF LinkedAt
<1>7. /\ FoundIn(building, Read) => FoundIn(new, Read)
      /\ CanonIn(building, Rows) => CanonIn(new, Rows)
  BY <1>3, <1>6 DEF FoundIn, CanonIn
<1>8. Sourced(new, Rows, aliases)
  <2> SUFFICES ASSUME NEW i \in 1..Len(building.recordings)
               PROVE  \E s \in Rows : Behind(new, i, s, Rows, aliases)
    BY <1>3 DEF Sourced
  <2>1. PICK s \in Rows : Behind(building, i, s, Rows, aliases)
    BY <1>2 DEF Sourced
  <2>2. ASSUME NEW k \in 1..Len(new.links[i])
        PROVE  \E r \in Rows : /\ Of(new.links[i][k], r, new.releases)
                              /\ Encode[r.recording_name] = Encode[s.recording_name]
    <3>1. PICK l \in 1..Len(building.links[i]) :
             new.links[i][k] = building.links[i][l]
      BY <1>3, <1>4
    <3> QED
      BY <1>3, <2>1, <3>1 DEF Behind
  <2>3. Behind(new, i, s, Rows, aliases)
    BY <1>3, <2>1, <2>2 DEF Behind
  <2> QED
    BY <2>3
<1> QED
  BY <1>1, <1>2, <1>3, <1>5, <1>7, <1>8 DEF IInv, Done, PendingOK, new

LEMMA NextIInv ==
  ASSUME IInv, [Next]_vars
  PROVE  IInv'
<1>1. CASE UNCHANGED vars
  BY <1>1 DEF vars, IInv, Done, PendingOK, Rows, Read
<1> QED
  BY <1>1, ReadRowIInv, QueryFailsIInv, CollectAliasesIInv, AppendAliasIInv,
     FinishIInv DEF Next

THEOREM Invariant == Spec => []IInv
BY InitIInv, NextIInv, PTL DEF Spec

-----------------------------------------------------------------------------
(* What it says of the finished index.                                     *)

\* A link of a row is one that the properties speak of.
LEMMA LinkOf ==
  ASSUME Shape(building), NEW i \in 1..Len(building.recordings),
         NEW k \in 1..Len(building.links[i]), NEW r,
         Of(building.links[i][k], r, building.releases)
  PROVE  building.links[i][k] \in Link(r) \cap Range(building.links[i])
<1> DEFINE l == building.links[i][k]
<1>1. /\ building.links \in Seq(Seq(LinkRecord))
      /\ Len(building.links) = Len(building.recordings)
      /\ building.releases \in Seq(Entry)
  BY DEF Shape
<1>2. building.links[i] \in Seq(LinkRecord)
  BY <1>1, ElementOfSeq
<1>3. l \in LinkRecord /\ DOMAIN building.links[i] = 1..Len(building.links[i])
      /\ DOMAIN building.releases = 1..Len(building.releases)
  BY <1>1, <1>2, ElementOfSeq, LenProperties
<1>4. l \in Range(building.links[i])
  BY <1>3 DEF Range
<1> HIDE DEF l
<1>5. l \in Link(r)
  BY <1>3 DEF Link, Of, LinkRecord, l
<1> QED
  BY <1>4, <1>5 DEF l

\* Every row is found unless the database failed: the search of an artist
\* misses none of the artist's recordings (build_recording_release_indexes).
THEOREM EveryRowFound == Spec => []RowsFound
<1>1. IInv => RowsFound
  <2> SUFFICES ASSUME IInv, Done, ~failed, NEW r \in Rows,
                      Encode[r.recording_name] # NoText
               PROVE  \E i \in DOMAIN building.recordings :
                         /\ building.recordings[i].text = Encode[r.recording_name]
                         /\ Range(building.links[i]) \cap Link(r) # {}
    BY DEF RowsFound, Rows
  <2>1. Shape(building) /\ FoundIn(building, Read) /\ Read = Rows
    BY DEF IInv, Done, Read, Range
  <2>2. PICK i \in 1..Len(building.recordings) :
           building.recordings[i].text = Encode[r.recording_name]
           /\ LinkedAt(building, i, r)
    BY <2>1 DEF FoundIn
  <2>3. PICK k \in 1..Len(building.links[i]) :
           Of(building.links[i][k], r, building.releases)
    BY <2>2 DEF LinkedAt
  <2>4. Range(building.links[i]) \cap Link(r) # {}
    BY <2>1, <2>3, LinkOf
  <2>5. DOMAIN building.recordings = 1..Len(building.recordings)
    <3>1. building.recordings \in Seq(Entry)
      BY <2>1 DEF Shape
    <3> QED
      BY <3>1, LenProperties
  <2> QED
    BY <2>2, <2>4, <2>5
<1> QED
  BY <1>1, Invariant, PTL

\* The index makes nothing up, whatever the aliases and wherever the reading
\* ended: what a search returns is a row of the artist.
THEOREM NothingInvented == Spec => []LinksGenuine
<1>1. IInv => LinksGenuine
  <2> SUFFICES ASSUME IInv, Done, NEW i \in DOMAIN building.recordings
               PROVE  \E s \in Rows :
                  /\ s.recording_id = building.recordings[i].id
                  /\ \/ Encode[s.recording_name] = building.recordings[i].text
                     \/ \E p \in aliases :
                           /\ p[1] = building.recordings[i].id
                           /\ Encode[p[2]] = building.recordings[i].text
                  /\ \A l \in Range(building.links[i]) : \E r \in Rows :
                        /\ l \in Link(r)
                        /\ Encode[r.recording_name] = Encode[s.recording_name]
    BY DEF LinksGenuine, Rows
  <2>1. Shape(building) /\ Sourced(building, Rows, aliases)
    BY DEF IInv, Done
  <2>2. /\ i \in 1..Len(building.recordings)
        /\ DOMAIN building.links[i] = 1..Len(building.links[i])
    <3>1. /\ building.recordings \in Seq(Entry)
          /\ building.links \in Seq(Seq(LinkRecord))
          /\ Len(building.links) = Len(building.recordings)
      BY <2>1 DEF Shape
    <3>2. i \in 1..Len(building.recordings)
      BY <3>1, LenProperties
    <3>3. building.links[i] \in Seq(LinkRecord)
      BY <3>1, <3>2, ElementOfSeq
    <3> QED
      BY <3>2, <3>3, LenProperties
  <2>3. PICK s \in Rows : Behind(building, i, s, Rows, aliases)
    BY <2>1, <2>2 DEF Sourced
  <2>4. ASSUME NEW l \in Range(building.links[i])
        PROVE  \E r \in Rows : /\ l \in Link(r)
                              /\ Encode[r.recording_name] = Encode[s.recording_name]
    <3>1. PICK k \in 1..Len(building.links[i]) : l = building.links[i][k]
      BY <2>2 DEF Range
    <3>2. PICK r \in Rows : /\ Of(building.links[i][k], r, building.releases)
                          /\ Encode[r.recording_name] = Encode[s.recording_name]
      BY <2>3 DEF Behind
    <3>3. l \in Link(r)
      BY <2>1, <2>2, <3>1, <3>2, LinkOf
    <3> QED
      BY <3>2, <3>3
  <2> QED
    BY <2>3, <2>4 DEF Behind
<1> QED
  BY <1>1, Invariant, PTL

\* The links of an entry are in order of the releases, as the binary search
\* of find_match needs them, and have every release of the entry's recording.
THEOREM CanonicalKept == Spec => []CanonicalFound
<1>1. IInv => CanonicalFound
  <2> SUFFICES ASSUME IInv, Done, ~failed, NEW i \in DOMAIN building.recordings
               PROVE  /\ \A j, k \in DOMAIN building.links[i] : j < k =>
                            building.links[i][j].release_id
                               <= building.links[i][k].release_id
                      /\ \A r \in mapping :
                            (/\ r.artist_credit_id = Artist
                             /\ r.recording_id = building.recordings[i].id)
                            => \E j \in DOMAIN building.links[i] :
                                  building.links[i][j].release_id = r.release_id
    BY DEF CanonicalFound
  <2>1. /\ Shape(building) /\ SortedLinks(building) /\ CanonIn(building, Rows)
    BY DEF IInv, Done
  <2>2. /\ i \in 1..Len(building.recordings) /\ i \in 1..Len(building.links)
        /\ DOMAIN building.links[i] = 1..Len(building.links[i])
    <3>1. /\ building.recordings \in Seq(Entry)
          /\ building.links \in Seq(Seq(LinkRecord))
          /\ Len(building.links) = Len(building.recordings)
      BY <2>1 DEF Shape
    <3>2. i \in 1..Len(building.recordings)
      BY <3>1, LenProperties
    <3>3. building.links[i] \in Seq(LinkRecord)
      BY <3>1, <3>2, ElementOfSeq
    <3> QED
      BY <3>1, <3>2, <3>3, LenProperties
  <2>3. ASSUME NEW r \in mapping, r.artist_credit_id = Artist,
               r.recording_id = building.recordings[i].id
        PROVE  \E j \in DOMAIN building.links[i] :
                  building.links[i][j].release_id = r.release_id
    <3>1. r \in Rows
      BY <2>3 DEF Rows, Selected
    <3>2. LinkedAt(building, i, r)
      BY <2>1, <2>2, <2>3, <3>1 DEF CanonIn
    <3> QED
      BY <2>2, <3>2 DEF LinkedAt, Of
  <2> QED
    BY <2>1, <2>2, <2>3 DEF SortedLinks
<1> QED
  BY <1>1, Invariant, PTL
=============================================================================
