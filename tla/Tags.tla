-------------------------------- MODULE Tags --------------------------------
(***************************************************************************)
(* iTunes metadata (itmf/Tags.cpp, itmf/CoverArtBox.cpp, itmf/generic.cpp, *)
(* cmeta.cpp): the items of the box moov.udta.meta.ilst, and the tags      *)
(* object a client fetches from them, changes and stores in them.          *)
(*                                                                         *)
(* An item has a code; a mean, for items of code "----"; and data, a       *)
(* sequence of a type and bytes each.  A tags object has fields, each a    *)
(* value or absent; the artwork; and whether the file had any items.  What *)
(* the read-only structure shows is always what the object holds.  Fields  *)
(* stands for the fifty tags of Tags.h: one of each kind of value, in the  *)
(* order c_store stores them.                                              *)
(***************************************************************************)
EXTENDS Integers, Sequences, SequencesExt

Field(code, kind, type, width) ==
    [code |-> code, kind |-> kind, type |-> type, width |-> width]

Fields ==
    << Field("nam", "string", "utf8", 0), Field("gnre", "integer", "implicit", 2),
       Field("trkn", "pair", "implicit", 8), Field("disk", "pair", "implicit", 6),
       Field("tmpo", "integer", "integer", 2), Field("tvsn", "integer", "integer", 4),
       Field("stik", "integer", "integer", 1), Field("plID", "integer", "integer", 8) >>

Absent == << >>    \* NULL; a value v is << v >>
NoTags == [fields |-> [k \in DOMAIN Fields |-> Absent], artwork |-> << >>, any |-> FALSE]

-----------------------------------------------------------------------------
(* Values as bytes.                                                        *)

\* n, w bytes long, the most significant first.
Bytes(n, w) ==
    LET left[k \in 0..w] == IF k = 0 THEN n ELSE left[k - 1] \div 256
    IN  [i \in 1..w |-> left[w - i] % 256]

Number(bytes) == FoldLeft(LAMBDA n, b : n * 256 + b, 0, bytes)

Encode(field, v) ==
    CASE field.kind = "string"  -> v
      [] field.kind = "integer" -> Bytes(v, field.width)
      [] field.kind = "pair"    -> Bytes(0, 2) \o Bytes(v[1], 2) \o Bytes(v[2], 2)
                                   \o Bytes(0, field.width - 6)

\* Of data at least as long as the field: a shorter one is not looked at for
\* its length.
Decode(field, bytes) ==
    CASE field.kind = "string"  -> bytes
      [] field.kind = "integer" -> Number(SubSeq(bytes, 1, field.width))
      [] field.kind = "pair"    -> << Number(SubSeq(bytes, 3, 4)), Number(SubSeq(bytes, 5, 6)) >>

\* computeBasicType: the head of an image, here its first byte, names its type.
ImageTypes == << << 66, "bmp" >>, << 71, "gif" >>, << 255, "jpeg" >>, << 137, "png" >> >>

ComputeBasicType(bytes) ==
    LET i == SelectInSeq(ImageTypes, LAMBDA t : bytes # << >> /\ t[1] = bytes[1])
    IN  IF i = 0 THEN "implicit" ELSE ImageTypes[i][2]

Picture(art) ==
    [type  |-> IF art.type = "undefined" THEN ComputeBasicType(art.value) ELSE art.type,
     value |-> art.value]

-----------------------------------------------------------------------------
(* The items.                                                              *)

IndexOfCode(items, code) == SelectInSeq(items, LAMBDA item : item.code = code)

\* Mistake: the index among the items of one code is taken for one among all.
RemoveCodeAtFirst(items, code) ==
    IF IndexOfCode(items, code) = 0 THEN items ELSE Tail(items)

\* Tags::remove: the first item of a code.
RemoveCode(items, code) ==
    IF IndexOfCode(items, code) = 0 THEN items
    ELSE RemoveAt(items, IndexOfCode(items, code))

\* Mistake: the item that is there is left.
StoreCodeAgain(items, code, type, bytes) ==
    Append(items, [code |-> code, mean |-> "", data |-> << [type |-> type, value |-> bytes] >>])

\* Tags::store.
StoreCode(items, code, type, bytes) ==
    Append(RemoveCode(items, code),
           [code |-> code, mean |-> "", data |-> << [type |-> type, value |-> bytes] >>])

StoreField(items, field, value) ==
    IF value = Absent THEN RemoveCode(items, field.code)
    ELSE StoreCode(items, field.code, field.type, Encode(field, value[1]))

\* CoverArtBox::add for each picture: another one in the first covr item.
AddCovers(items, artwork) ==
    LET i        == IndexOfCode(items, "covr")
        pictures == [k \in DOMAIN artwork |-> Picture(artwork[k])]
    IN  IF artwork = << >> THEN items
        ELSE IF i = 0 THEN Append(items, [code |-> "covr", mean |-> "", data |-> pictures])
        ELSE [items EXCEPT ![i].data = @ \o pictures]

-----------------------------------------------------------------------------
(* The tags object.                                                        *)

\* Of several items with one code the first counts; data without bytes is none.
FetchField(items, field) ==
    LET i == IndexOfCode(items, field.code)
    IN  IF i = 0 THEN Absent
        ELSE IF items[i].data = << >> \/ items[i].data[1].value = << >> THEN Absent
        ELSE << Decode(field, items[i].data[1].value) >>

ListCovers(items) ==
    LET i == IndexOfCode(items, "covr") IN IF i = 0 THEN << >> ELSE items[i].data

Fetch(items) ==
    [fields  |-> [k \in DOMAIN Fields |-> FetchField(items, Fields[k])],
     artwork |-> ListCovers(items),
     any     |-> items # << >>]

\* c_store: every field, then the pictures.
Store(tags, items) ==
    LET stored[k \in 0 .. Len(Fields)] ==
            IF k = 0 THEN items ELSE StoreField(stored[k - 1], Fields[k], tags.fields[k])
    IN  AddCovers(RemoveCode(stored[Len(Fields)], "covr"), tags.artwork)

AddPicture(tags, art)    == [tags EXCEPT !.artwork = Append(@, Picture(art))]
SetPicture(tags, i, art) ==
    IF i \in DOMAIN tags.artwork THEN [tags EXCEPT !.artwork[i] = Picture(art)] ELSE tags
RemovePicture(tags, i) ==
    IF i \in DOMAIN tags.artwork THEN [tags EXCEPT !.artwork = RemoveAt(@, i)] ELSE tags
=============================================================================
