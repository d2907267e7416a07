---------------------------- MODULE MCDataDirectory ----------------------------
(* PostgreSQL contents for DataDirectory.                                    *)
EXTENDS DataDirectory, TLC

\* encode_string, word by word. "[Petya]" stands for a name in Cyrillic letters,
\* "Igor_" for one whose last letter unidecode makes an apostrophe; "!!!" has no
\* word characters, " " no text at all, "\n" breaks the line.
WordCode ==
    "Air" :> "air" @@ "AIR" :> "air" @@ "air" :> "air" @@ "Sky" :> "sky" @@ "sky" :> "sky"
    @@ "[Petya]" :> "petia" @@ "petia" :> "petia" @@ "Petya" :> "petya" @@ "petya" :> "petya"
    @@ "Igor_" :> "igor'" @@ "igor'" :> "igor" @@ "igor" :> "igor"
Marks == {"!!!", "&"}
Blanks == {" ", "\n"}
MCLatin == (DOMAIN WordCode \cup Marks \cup Blanks) \ {"[Petya]"}

EncodeWords(name) ==
    LET words == SelectSeq(name, LAMBDA w : w \in DOMAIN WordCode)
    IN  [i \in DOMAIN words |-> WordCode[words[i]]]

EncodeStupidWords(name) == SelectSeq(name, LAMBDA w : w \notin Blanks)

\* Credit 2 is special, 5 is of several artists.
PetyaAir == [id |-> 4, name |-> <<"[Petya]", " ", "Air">>, sort_names |-> <<<<"Petya">>>>]
PetyaSky == [id |-> 5, name |-> <<"[Petya]", "&", "Sky">>,
             sort_names |-> <<<<"Petya">>, <<"Sky">>>>]
Plain(id, name) == [id |-> id, name |-> name, sort_names |-> <<name>>]

Rows == {<<2, <<"Air">>>>, <<3, <<"Air">>>>, <<4, <<"Igor_">>>>, <<4, <<"Air", "\n", "Sky">>>>}

WithStupid ==
    [single |-> {Plain(2, <<"!!!">>), Plain(3, <<"AIR">>), PetyaAir},
     aliases |-> {<<3, <<"Air">>>>, <<3, <<"Igor_">>>>, <<4, <<"!!!">>>>, <<4, <<"Sky", " ", "Air">>>>},
     multiple |-> {PetyaSky},
     rows |-> Rows \cup {<<5, <<"Air", "&", "Sky">>>>}]

OtherStupid ==
    [WithStupid EXCEPT !.single = {Plain(2, <<" ">>), Plain(3, <<"Igor_">>), Plain(4, <<"!!!">>)},
                       !.multiple = {Plain(5, <<"Igor_">>)}]

WithoutStupid ==
    [single |-> {Plain(3, <<"AIR">>), Plain(4, <<"Air", "\n", "Sky">>)},
     aliases |-> {<<4, <<"!!!">>>>},
     multiple |-> {Plain(2, <<"!!!">>), Plain(5, <<"Air", "&", "Sky">>)},
     rows |-> {<<3, <<"Air">>>>, <<4, <<"Air", "\n", "Sky">>>>, <<5, <<"Air", "&", "Sky">>>>}]

Empty == [single |-> {Plain(3, <<"!!!">>)}, aliases |-> {}, multiple |-> {}, rows |-> {}]

MCSources == {WithStupid, OtherStupid, WithoutStupid, Empty}

\* The names of these contents, the text of their sort names, and what encoding
\* makes of them.
Given ==
    UNION {{c.name : c \in s.single \cup s.multiple} \cup
           UNION {ToSet(c.sort_names) : c \in s.single \cup s.multiple} \cup
           {CreditSortName(c.sort_names) : c \in s.single \cup s.multiple} \cup
           {r[2] : r \in s.aliases \cup s.rows} : s \in MCSources}
Encoded == {EncodeWords(n) : n \in Given}
MCNames == Given \cup Encoded \cup {EncodeWords(n) : n \in Encoded}
MCEncode == [n \in MCNames |-> EncodeWords(n)]
MCEncodeStupid == [n \in MCNames |-> EncodeStupidWords(n)]
MCMultiline == {n \in MCNames : "\n" \in ToSet(n)}
=============================================================================
