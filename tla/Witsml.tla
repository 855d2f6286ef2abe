------------------------------- MODULE Witsml -------------------------------
(***************************************************************************)
(* WitsmlService: the export of a client's wells and bit records, and the  *)
(* import that finds each by its uid, under row-level security, and        *)
(* updates it. A well and the bit record of its run are one row here: its  *)
(* client, name, field, and the inner and outer dull grade; what is true   *)
(* of the field is of the dull characteristic and the reason pulled.       *)
(***************************************************************************)
Null == "null"
Written(v) == IF v = Null THEN "" ELSE v

\* The parser makes a number of a text that looks like one. Of a name,
\* String() makes a text again, without leading zeros.
Numeric == {"0", "007"}
ParsedName(v) == IF v = "007" THEN "7" ELSE v

\* exportXml: the rows the policy shows, with every field.
ExportXml(db, client) ==
  [id \in {i \in DOMAIN db : db[i].client = client} |->
    [name |-> Written(db[id].name), field |-> Written(db[id].field),
     inner |-> Written(db[id].inner), outer |-> Written(db[id].outer)]]

Kept(v, old) == IF v = "" THEN old ELSE v

\* A field is not made a text again: the number 0 is falsy, as if the
\* document had none, and the database takes no other number for a text.
KeptField(v, old) == IF v = "0" THEN old ELSE Kept(v, old)
Refused(row, client, d) == row.client = client /\ d.field \in Numeric \ {"0"}

\* One row of the document: found by uid, name replaced, the field and the
\* inner grade where the document has them; the outer grade is not read.
\* Mutant: an inner grade of zero taken for none.
ImportRow_Falsy(row, client, d) ==
  IF row.client # client THEN row
  ELSE [row EXCEPT !.name = ParsedName(d.name), !.field = KeptField(d.field, @),
                   !.inner = IF d.inner = "0" THEN @ ELSE Kept(d.inner, @)]
ImportRow(row, client, d) ==
  IF row.client # client THEN row
  ELSE [row EXCEPT !.name = ParsedName(d.name), !.field = KeptField(d.field, @),
                   !.inner = Kept(d.inner, @)]

\* importXml: all rows in one transaction, which the first row that is
\* refused rolls back; uids that are not found are passed over.
ImportXml(db, client, doc) ==
  LET found == DOMAIN db \intersect DOMAIN doc
  IN IF \E id \in found : Refused(db[id], client, doc[id]) THEN db
     ELSE [id \in DOMAIN db |-> IF id \in found
                                THEN ImportRow(db[id], client, doc[id]) ELSE db[id]]
=============================================================================
