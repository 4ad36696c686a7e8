----------------------------- MODULE MCMovieFile -----------------------------
(* Values for TLC: five kinds of clients and the files they start from.     *)
EXTENDS MovieProperties

TestLists     == {<< << 1, "short" >>, << 2, "long" >> >>, << << 2, "long" >> >>}

TestTrak(id, kind) == [NewTrak(NoTracks(FALSE), id, kind) EXCEPT !.key = 0]

WithSample(t, at) ==
    [t EXCEPT !.samples = << [duration |-> 1, at |-> at, cell |-> << "media", 0 >>] >>]

Moov(traks, next) ==
    [traks |-> traks, next |-> next, iods |-> [present |-> TRUE, ids |-> << >>],
     chpl |-> << >>, items |-> << >>, duration |-> 1]

Box(type, data) == BoxHead(type, HeaderLen + Len(data), FALSE) \o data
FreeBox(n)      == Box("free", Fill(n))
MoovBox(moov)   == Box("moov", << << "moov", moov >> >> \o Fill(MoovRoom(moov) - 1))
Ftyp            == Box("ftyp", << << "ftyp", 1 >>, << "fill" >> >>)
Mdat            == Box("mdat", << << "media", 0 >> >>)

\* One video track; its sample is where the file that holds the moov has it.
OneTrack(at)  == Moov(<< WithSample(TestTrak(1, "vide"), at) >>, 2)

TestDisks == {
    Ftyp \o FreeBox(1) \o Mdat \o MoovBox(OneTrack(9)),               \* moov last
    Ftyp \o MoovBox(OneTrack(11)) \o Mdat,                            \* optimized
    FreeBox(5) \o Mdat \o MoovBox(OneTrack(9)) \o FreeBox(0),         \* room in front
    FreeBox(3) \o Mdat \o FreeBox(1) \o Box("udta", Fill(1)) \o MoovBox(OneTrack(7)) }

\* A track the library cannot read, and a next id that is in use.
OddMovie == Moov(<< TestTrak(1, "broken"), TestTrak(2, "vide") >>, 2)

Client(calls, start) ==
    [calls |-> calls, disk |-> start, ftyp |-> TRUE, iods |-> TRUE, use64 |-> FALSE,
     brand |-> FALSE, truncates |-> TRUE, crash |-> FALSE, sessions |-> 2, steps |-> 4,
     values |-> {}, pictures |-> {}, items |-> {}]

Writers ==
    {[Client({"video", "write"}, d) EXCEPT !.crash = TRUE, !.truncates = t, !.steps = 3] :
        d \in TestDisks, t \in BOOLEAN}
    \cup {[Client({"video", "write"}, << >>) EXCEPT !.crash = TRUE, !.ftyp = f, !.use64 = l,
                                                    !.brand = f, !.sessions = 3, !.steps = 3] :
            f \in BOOLEAN, l \in BOOLEAN}

Editors ==
    {[Client({"video", "od", "scene", "delete"}, << >>) EXCEPT !.iods = i, !.steps = 6] :
        i \in BOOLEAN}
    \cup {Client({"video", "hint", "scene", "isma", "delete"}, << >>),
          [Client({"audio", "video", "od", "text", "subtitle", "isma"}, << >>) EXCEPT
              !.steps = 3],
          Client({"video", "delete"}, MoovBox(OddMovie) \o Mdat)}

Chapterers ==
    {Client({"video", "write", "chapters", "nochapters", "convert", "delete"}, d) :
        d \in {<< >>, Ftyp \o MoovBox(OneTrack(11)) \o Mdat}}
    \cup {[Client({"audio", "video", "text", "chaptertrack", "chapter", "nerochapter", "nochapters",
                    "delete"}, << >>) EXCEPT !.steps = 5]}

\* A name, one of another program, an item of another kind, one without data.
Item(code, mean, values) ==
    [code |-> code, mean |-> mean,
     data |-> [i \in DOMAIN values |-> [type |-> "utf8", value |-> values[i]]]]

Name    == Item("nam", "", << << 79, 108, 100 >> >>)
Private == Item("----", "private", << << 1 >> >>)
Cover   == Item("covr", "", << << 137, 1 >>, << 71 >> >>)

WithItems(items) == [Moov(<< TestTrak(1, "vide") >>, 2) EXCEPT !.items = items]

TestValues ==
    {<< 1, << << 65, 66 >> >> >>, << 2, << 258 >> >>, << 3, << << 259, 4 >> >> >>,
     << 4, << << 5, 261 >> >> >>, << 5, << 262 >> >>, << 6, << 16909063 >> >>,
     << 7, << 8 >> >>, << 8, << 16909065 >> >>}

Pictures == {[type |-> "undefined", value |-> << 255 >>], [type |-> "bmp", value |-> << 71 >>]}

TagDisk(items) == MoovBox(WithItems(items)) \o Mdat

Taggers ==
    {[Client({"tags"}, d) EXCEPT !.values = TestValues, !.steps = 3] :
        d \in {<< >>, TagDisk(<< Private, Name >>)}}
    \cup {[Client({"tags"}, TagDisk(items)) EXCEPT
            !.values = {<< 1, << << 65 >> >> >>, << 1, << << >> >> >>, << 1, Absent >>},
            !.pictures = Pictures] :
              items \in {<< Private, Name, Cover >>,
                         << Cover, Name, Private, Cover, Name, Item("nam", "", << >>) >>}}
    \cup {[Client({"tags", "items"}, TagDisk(<< Private, Name >>)) EXCEPT
            !.items = {Item("nam", "", << << 67 >>, << 68 >> >>), Item("cpil", "", << << 1 >> >>)},
            !.values = {<< 1, << << 65 >> >> >>}]}

TestClients == Writers \cup Editors \cup Chapterers \cup Taggers
=============================================================================
