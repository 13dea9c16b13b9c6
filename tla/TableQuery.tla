----------------------------- MODULE TableQuery -----------------------------
(***************************************************************************)
(* A table layer: what getTableLayers makes of a row of the catalogue, the *)
(* statement a tile request becomes, the listing of its detail.  At the    *)
(* end, what the database says of a statement: it is not in the            *)
(* repository.                                                             *)
(*                                                                         *)
(* A query maps names to their values, a value is the sequence of its      *)
(* comma-separated fields.  A table of the catalogue is                    *)
(* [id, srid, geometry, key, columns], a column [name, type].              *)
(***************************************************************************)
EXTENDS Texts, FiniteSets

CONSTANTS Fold,        \* names in lower case
          Numeral,     \* the numbers among the values (strconv.Atoi)
          Unescape,    \* fields and what they decode to, without blanks; a field that
                       \* cannot be decoded is not in its domain
          Transpiled,  \* filters and their SQL, "error" or "panic" (see CqlFilter)
          MaxFeaturesPerTile, DefaultResolution, DefaultBuffer,
          PostGISVersion

Empty == ""
NoSQL == [table |-> Empty]
NoText == <<Empty>>

(* The columns but for geometries, by name; the feature id is the column   *)
(* of a primary key of one integer.                                        *)
IsGeometry(c) == c.type \in {"geometry", "geography"}
IDColumn(t) ==
    IF Len(t.key) = 1 /\ \E c \in ToSet(t.columns) :
                            c.name = t.key[1] /\ c.type \in {"int2", "int4", "int8"}
    THEN t.key[1] ELSE Empty
getTableLayer(t) ==
    LET props == {i \in DOMAIN t.columns : ~IsGeometry(t.columns[i])}
    IN  [kind |-> "table", id |-> t.id, Srid |-> t.srid, GeometryColumn |-> t.geometry,
         IDColumn |-> IDColumn(t),
         Properties |-> [n \in {t.columns[i].name : i \in props} |->
             LET i == CHOOSE j \in props : t.columns[j].name = n
             IN  [name |-> n, type |-> t.columns[i].type, order |-> i]]]

-----------------------------------------------------------------------------
(* Of several spellings of a parameter, a range over the query takes any.  *)
Spelled(q, param) == {k \in DOMAIN q : Fold[k] = Fold[param]}

(* -1 without the parameter, and when its value is not a number.           *)
getQueryIntParameter(q, param) ==
    IF Spelled(q, param) = {} THEN {-1}
    ELSE {IF q[k][1] \in DOMAIN Numeral THEN Numeral[q[k][1]] ELSE -1 : k \in Spelled(q, param)}

getQueryStringParameter(q, param) ==
    IF param \in DOMAIN q THEN q[param][1] ELSE NoText

Decoded(v) ==
    LET ok == Only(v, DOMAIN Unescape)
    IN  [i \in DOMAIN ok |-> Unescape[ok[i]]]

(* Mutant: the feature id is only selected when the query names it.        *)
WithId_Forgotten(lyr, atts) == atts

WithId(lyr, atts) == IF lyr.IDColumn = Empty THEN atts ELSE Append(atts, lyr.IDColumn)

(* The properties the query names, or all in any order, and the feature id *)
(* unless the query names it.                                              *)
getQueryPropertiesParameter(lyr, q) ==
    LET Known(v) == Only(Decoded(v), DOMAIN lyr.Properties)
        asked == {Known(q[k][1]) : k \in Spelled(q, "properties")}
        all == {WithId(lyr, s) : s \in SetToSeqs(DOMAIN lyr.Properties)}
    IN  (IF asked = {} \/ <<>> \in asked THEN all ELSE {})
        \cup {IF lyr.IDColumn \in ToSet(s) THEN s ELSE WithId(lyr, s) : s \in asked \ {<<>>}}

getQueryParameters(lyr, q) ==
    LET Or(default, param) == {IF n < 0 THEN default ELSE n : n \in getQueryIntParameter(q, param)}
    IN  {[Limit |-> l, Resolution |-> r, Buffer |-> b, Properties |-> p, FilterCrs |-> c,
          Filter |-> getQueryStringParameter(q, "filter")] :
            l \in Or(MaxFeaturesPerTile, "limit"), r \in Or(DefaultResolution, "resolution"),
            b \in Or(DefaultBuffer, "buffer"), c \in Or(4326, "filter-crs"),
            p \in getQueryPropertiesParameter(lyr, q)}

filterSQL(qp) == IF qp.Filter = NoText THEN Empty ELSE Transpiled[qp.Filter]

(* The statement; a limit of 0 is none.                                    *)
requestSQL(lyr, qp) ==
    IF filterSQL(qp) = "error" THEN NoSQL
    ELSE [table |-> lyr.id, columns |-> qp.Properties, geometry |-> lyr.GeometryColumn,
          id |-> IF PostGISVersion >= 3000000 THEN lyr.IDColumn ELSE Empty,
          filter |-> filterSQL(qp), crs |-> <<qp.FilterCrs, lyr.Srid>>,
          limit |-> IF qp.Limit > 0 THEN qp.Limit ELSE 0,
          resolution |-> qp.Resolution, buffer |-> qp.Buffer]

(* The properties in the order of the table.                               *)
getTableDetailJSON(lyr) ==
    LET sorted == Sorted({lyr.Properties[n] : n \in DOMAIN lyr.Properties})
    IN  [i \in DOMAIN sorted |-> [name |-> sorted[i].name, type |-> sorted[i].type]]

-----------------------------------------------------------------------------
(* The database: the columns are the table's, the feature id is one of the *)
(* columns selected, and a tile has an extent.                             *)
Refused(t, stmt) ==
    \/ stmt = NoSQL
    \/ ~(ToSet(stmt.columns) \subseteq {c.name : c \in ToSet(t.columns)})
    \/ stmt.id # Empty /\ stmt.id \notin ToSet(stmt.columns)
    \/ stmt.resolution = 0
=============================================================================
