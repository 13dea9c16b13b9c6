----------------------------- MODULE CqlFilter ------------------------------
(***************************************************************************)
(* A filter on its way into the statement of a table tile: TranspileToSQL  *)
(* parses it, walks the tree with a listener that writes SQL for each node *)
(* from the SQL of its children, and only then looks whether the parser    *)
(* reported an error; filterSQL and requestSQL join the text to the        *)
(* spatial condition; GetTileRequest sends what came of it.                *)
(*                                                                         *)
(* SQL text is a sequence of tokens [sym, text, kids], like the filter's.  *)
(***************************************************************************)
EXTENDS SqlExpression, Naturals, SequencesExt

CONSTANTS Filters,  \* filters: their tokens, EOF included (none when the parameter is
                    \* empty) and, when well-formed, what they say (NoMeaning otherwise)
          Crs       \* pairs of SRIDs: of the filter's literals, of the table

VARIABLES filter, crs,
          pc,       \* where TranspileToSQL, then GetTileRequest, are
          parsed,   \* the tree and the place of the first error (0 for none)
          sql,      \* the text TranspileToSQL returns
          where,    \* the WHERE of the statement, empty when there is none
          reply     \* what the client gets

vars == <<filter, crs, pc, parsed, sql, where, reply>>

Cql == INSTANCE AntlrParser WITH Rules <- CqlRules, Start <- "cqlFilter"
Sql == INSTANCE AntlrParser WITH Rules <- SqlRules, Start <- "condition"

Leaf(sym, text) == [sym |-> sym, text |-> text, kids |-> <<>>]
EOF == Leaf("EOF", <<>>)
NoMeaning == Leaf("none", <<>>)
NoTree == [tree |-> NoMeaning, err |-> 0]

-----------------------------------------------------------------------------
(* The children of a node that are of one rule or token, as GetToken and   *)
(* GetTypedRuleContext find them; Nil when there are fewer than i.         *)
Nil == Leaf("nil", <<>>)
Kids(n, sym) == SelectSeq(n.kids, LAMBDA k : k.sym = sym)
Kid(n, sym, i) == IF i <= Len(Kids(n, sym)) THEN Kids(n, sym)[i] ELSE Nil
Has(n, sym) == Kids(n, sym) # <<>>

(* GetText: the text of a subtree's tokens.                                *)
RECURSIVE getText(_)
getText(n) == FoldLeft(LAMBDA s, k : s \o getText(k), n.text, n.kids)

Word(sym) == <<Leaf(sym, <<>>)>>
Open == Word("LEFTPAREN")
Close == Word("RIGHTPAREN")
Comma == Word("COMMA")
Not(n) == IF Has(n, "NOT") THEN Word("NOT") ELSE <<>>

quotedName(text) ==
    <<Leaf("Identifier", IF text # <<>> /\ text[1] = "\"" THEN text
                         ELSE <<"\"">> \o text \o <<"\"">>)>>
quotedText(text) == <<Leaf("CharacterStringLiteral", text)>>
Number(text) == <<Leaf("NumericLiteral", text)>>

pgFunctionForCql ==
    [crosses |-> "ST_Crosses", contains |-> "ST_Contains", disjoint |-> "ST_Disjoint",
     equals |-> "ST_Equals", intersects |-> "ST_Intersects", overlaps |-> "ST_Overlaps",
     touches |-> "ST_Touches", within |-> "ST_Within", dwithin |-> "ST_DWithin"]
toPostGISFunction(name) ==
    IF name \in DOMAIN pgFunctionForCql THEN pgFunctionForCql[name] ELSE "UNKNOWN_"

CommaList(vals) ==
    FoldLeft(LAMBDA s, i : s \o (IF i = 1 THEN <<>> ELSE Comma) \o vals[i],
             <<>>, [i \in DOMAIN vals |-> i])
FunctionCall(name, args) ==
    <<Leaf("Function", <<name>>)>> \o Open \o CommaList(args) \o Close

-----------------------------------------------------------------------------
(* The SQL of each node from the SQL of its children.                      *)
RECURSIVE sqlFor(_, _)

ExitCqlFilter(n, c) == sqlFor(Kid(n, "booleanValueExpression", 1), c)

ExitBooleanValueExpression(n, c) ==
    (IF Has(n, "OR") THEN sqlFor(Kid(n, "booleanValueExpression", 1), c) \o Word("OR")
     ELSE <<>>) \o sqlFor(Kid(n, "booleanTerm", 1), c)

ExitBooleanTerm(n, c) ==
    (IF Has(n, "AND") THEN sqlFor(Kid(n, "booleanTerm", 1), c) \o Word("AND")
     ELSE <<>>) \o sqlFor(Kid(n, "booleanFactor", 1), c)

ExitBooleanFactor(n, c) == Not(n) \o sqlFor(Kid(n, "booleanPrimary", 1), c)

(* Mutant: a parenthesised expression is written as it is.                 *)
ExitBooleanPrimary_NoParentheses(n, c) ==
    IF ~Has(n, "LEFTPAREN") THEN sqlFor(Kid(n, "predicate", 1), c)
    ELSE sqlFor(Kid(n, "booleanValueExpression", 1), c)

ExitBooleanPrimary(n, c) ==
    IF ~Has(n, "LEFTPAREN") THEN sqlFor(Kid(n, "predicate", 1), c)
    ELSE Open \o sqlFor(Kid(n, "booleanValueExpression", 1), c) \o Close

ExitPredicate(n, c) ==
    LET found == SelectSeq(<<"binaryComparisonPredicate", "likePredicate", "betweenPredicate",
                             "isNullPredicate", "inPredicate", "spatialPredicate",
                             "distancePredicate">>, LAMBDA r : Has(n, r))
    IN  IF found = <<>> THEN <<>> ELSE sqlFor(Kid(n, found[1], 1), c)

ExitBinaryComparisonPredicate(n, c) ==
    sqlFor(Kid(n, "scalarExpression", 1), c) \o Kids(n, "ComparisonOperator")
        \o sqlFor(Kid(n, "scalarExpression", 2), c)

ExitLikePredicate(n, c) ==
    quotedName(getText(Kid(n, "propertyName", 1))) \o Not(n)
        \o Word(IF Has(n, "ILIKE") THEN "ILIKE" ELSE "LIKE")
        \o quotedText(getText(Kid(n, "characterLiteral", 1)))

ExitBetweenPredicate(n, c) ==
    sqlFor(Kid(n, "scalarExpression", 1), c) \o Not(n) \o Word("BETWEEN")
        \o sqlFor(Kid(n, "scalarExpression", 2), c) \o Word("AND")
        \o sqlFor(Kid(n, "scalarExpression", 3), c)

ExitIsNullPredicate(n, c) ==
    quotedName(getText(Kid(n, "propertyName", 1))) \o Word("IS") \o Not(n) \o Word("NULL")

(* The numbers of the list or, when there is none, its texts.              *)
inPredValueList(n) ==
    LET nums == Kids(n, "numericLiteral")
        strs == Kids(n, "characterLiteral")
        vals == IF nums # <<>> THEN [i \in DOMAIN nums |-> Number(getText(nums[i]))]
                ELSE [i \in DOMAIN strs |-> quotedText(getText(strs[i]))]
    IN  CommaList(vals)

ExitInPredicate(n, c) ==
    quotedName(getText(Kid(n, "propertyName", 1))) \o Not(n) \o Word("IN")
        \o Open \o inPredValueList(n) \o Close
(* ArithmeticOperator is one token for CQL, sums and products for SQL.     *)
SqlOperator(t) ==
    <<Leaf(IF t.text[1] \in {"+", "-"} THEN "Sum" ELSE "Product", t.text)>>

ExitScalarExpression(n, c) ==
    CASE Has(n, "LEFTPAREN") -> Open \o sqlFor(Kid(n, "scalarExpression", 1), c) \o Close
      [] ~Has(n, "LEFTPAREN") /\ Has(n, "ArithmeticOperator") ->
            sqlFor(Kid(n, "scalarExpression", 1), c)
                \o SqlOperator(Kid(n, "ArithmeticOperator", 1))
                \o sqlFor(Kid(n, "scalarExpression", 2), c)
      [] OTHER -> sqlFor(Kid(n, "scalarValue", 1), c)

ExitTemporalLiteral(n, c) ==
    LET val == getText(n)
    IN  <<Leaf("Timestamp", IF val # <<>> /\ val[1] = "NOW" THEN <<"NOW">> ELSE val)>>

ExitScalarValue(n, c) ==
    CASE Has(n, "propertyName") -> quotedName(getText(n.kids[1]))
      [] Has(n, "characterLiteral") -> quotedText(getText(n.kids[1]))
      [] Has(n, "numericLiteral") -> Number(getText(n.kids[1]))
      [] Has(n, "booleanLiteral") -> <<Leaf("BooleanLiteral", getText(n.kids[1]))>>
      [] Has(n, "temporalLiteral") -> sqlFor(n.kids[1], c)
      [] OTHER -> <<>>

SpatialCall(n, operator, more, c) ==
    FunctionCall(toPostGISFunction(getText(Kid(n, operator, 1))[1]),
                 <<sqlFor(Kid(n, "geomExpression", 1), c),
                   sqlFor(Kid(n, "geomExpression", 2), c)>> \o more)

ExitSpatialPredicate(n, c) == SpatialCall(n, "SpatialOperator", <<>>, c)
ExitDistancePredicate(n, c) ==
    SpatialCall(n, "DistanceOperator",
                <<Number(getText(Kid(n, "NumericLiteral", 1)))>>, c)

ExitGeomExpression(n, c) ==
    IF Has(n, "propertyName") THEN quotedName(getText(Kid(n, "propertyName", 1)))
    ELSE sqlFor(Kid(n, "geomLiteral", 1), c)

(* The text of a geometry, with a blank between consecutive numbers of one *)
(* node.                                                                   *)
RECURSIVE extractGeomText(_)
extractGeomText(kids) ==
    LET Number_(i) == kids[i].sym = "NumericLiteral"
        Blank(i) == IF i > 1 /\ Number_(i) /\ Number_(i - 1) THEN <<" ">> ELSE <<>>
        Piece(i) == IF kids[i].kids = <<>> THEN Blank(i) \o kids[i].text
                    ELSE extractGeomText(kids[i].kids)
    IN  FoldLeft(LAMBDA s, i : s \o Piece(i), <<>>, [i \in DOMAIN kids |-> i])

sqlGeometryLiteral(wkt, c) == <<Leaf("Geometry", <<"SRID=", c.filter, ";">> \o wkt)>>
sqlEnvelopeLiteral(nums, c) ==
    FunctionCall("ST_MakeEnvelope",
                 [i \in 1..4 |-> Number(getText(nums[i]))] \o <<Number(<<c.filter>>)>>)
sqlTransformCrs(text, c) ==
    IF c.source = c.filter THEN text
    ELSE FunctionCall("ST_Transform", <<text, Number(<<c.source>>)>>)

ExitGeomLiteral(n, c) ==
    sqlTransformCrs(IF n.kids # <<>> /\ n.kids[1].sym = "envelope"
                    THEN sqlEnvelopeLiteral(Kids(n.kids[1], "NumericLiteral"), c)
                    ELSE sqlGeometryLiteral(extractGeomText(n.kids), c), c)

sqlFor(n, c) ==
    CASE n.sym = "cqlFilter" -> ExitCqlFilter(n, c)
      [] n.sym = "booleanValueExpression" -> ExitBooleanValueExpression(n, c)
      [] n.sym = "booleanTerm" -> ExitBooleanTerm(n, c)
      [] n.sym = "booleanFactor" -> ExitBooleanFactor(n, c)
      [] n.sym = "booleanPrimary" -> ExitBooleanPrimary(n, c)
      [] n.sym = "predicate" -> ExitPredicate(n, c)
      [] n.sym = "binaryComparisonPredicate" -> ExitBinaryComparisonPredicate(n, c)
      [] n.sym = "likePredicate" -> ExitLikePredicate(n, c)
      [] n.sym = "betweenPredicate" -> ExitBetweenPredicate(n, c)
      [] n.sym = "isNullPredicate" -> ExitIsNullPredicate(n, c)
      [] n.sym = "inPredicate" -> ExitInPredicate(n, c)
      [] n.sym = "scalarExpression" -> ExitScalarExpression(n, c)
      [] n.sym = "scalarValue" -> ExitScalarValue(n, c)
      [] n.sym = "temporalLiteral" -> ExitTemporalLiteral(n, c)
      [] n.sym = "spatialPredicate" -> ExitSpatialPredicate(n, c)
      [] n.sym = "distancePredicate" -> ExitDistancePredicate(n, c)
      [] n.sym = "geomExpression" -> ExitGeomExpression(n, c)
      [] n.sym = "geomLiteral" -> ExitGeomLiteral(n, c)
      [] OTHER -> Word("!ERROR!")

(* The walk exits every node, and the listener dereferences what a broken  *)
(* node may lack: the operator or the distance of a spatial predicate, an  *)
(* ordinate of an envelope.                                                *)
RECURSIVE WalkPanics(_)
WalkPanics(n) ==
    \/ n.sym = "spatialPredicate" /\ ~Has(n, "SpatialOperator")
    \/ n.sym = "distancePredicate" /\ ~(Has(n, "DistanceOperator") /\ Has(n, "NumericLiteral"))
    \/ /\ n.sym = "geomLiteral" /\ n.kids # <<>> /\ n.kids[1].sym = "envelope"
       /\ Len(Kids(n.kids[1], "NumericLiteral")) < 4
    \/ \E i \in DOMAIN n.kids : WalkPanics(n.kids[i])

-----------------------------------------------------------------------------
(* The condition of the tile, before any filter.                           *)
InTile ==
    FunctionCall("ST_Intersects",
                 <<quotedName(<<"geom">>), <<Leaf("Identifier", <<"bounds">>)>>>>)

Init ==
    /\ filter \in Filters
    /\ crs \in Crs
    /\ pc = "parse"
    /\ parsed = NoTree
    /\ sql = <<>> /\ where = <<>>
    /\ reply = "none"

(* An empty filter is no filter.                                           *)
NoFilter ==
    /\ pc = "parse" /\ filter.tokens = <<>>
    /\ pc' = "join"
    /\ UNCHANGED <<filter, crs, parsed, sql, where, reply>>

ParseFilter ==
    /\ pc = "parse" /\ filter.tokens # <<>>
    /\ parsed' = Cql!Parse(filter.tokens)
    /\ pc' = "walk"
    /\ UNCHANGED <<filter, crs, sql, where, reply>>

(* A panic ends the handler: net/http closes the connection.               *)
WalkBroken ==
    /\ pc = "walk" /\ WalkPanics(parsed.tree)
    /\ pc' = "done" /\ reply' = "lost"
    /\ UNCHANGED <<filter, crs, parsed, sql, where>>

(* The error is looked at after the walk; its SQL is then thrown away.     *)
Walk ==
    /\ pc = "walk" /\ ~WalkPanics(parsed.tree)
    /\ sql' = IF parsed.err = 0 THEN sqlFor(parsed.tree, crs) ELSE <<>>
    /\ pc' = IF parsed.err = 0 THEN "join" ELSE "fail"
    /\ UNCHANGED <<filter, crs, parsed, where, reply>>

filterSQL(text) == IF text = <<>> THEN <<>> ELSE Word("AND") \o text

(* Mutant: the error of TranspileToSQL is dropped before the statement.    *)
Join_ErrorDropped ==
    /\ pc \in {"join", "fail"}
    /\ where' = InTile \o filterSQL(sql)
    /\ pc' = "ask"
    /\ UNCHANGED <<filter, crs, parsed, sql, reply>>

Join ==
    /\ pc = "join"
    /\ where' = InTile \o filterSQL(sql)
    /\ pc' = "ask"
    /\ UNCHANGED <<filter, crs, parsed, sql, reply>>

(* GetTileRequest drops the error and sends the empty statement.           *)
SendNothing ==
    /\ pc = "fail"
    /\ pc' = "ask"
    /\ UNCHANGED <<filter, crs, parsed, sql, where, reply>>

Ask ==
    /\ pc = "ask"
    /\ pc' = "done"
    /\ reply' = IF where = <<>> THEN "error" ELSE "tile"
    /\ UNCHANGED <<filter, crs, parsed, sql, where>>

Next == NoFilter \/ ParseFilter \/ WalkBroken \/ Walk \/ Join \/ SendNothing \/ Ask

Spec == Init /\ [][Next]_vars
-----------------------------------------------------------------------------
Nodes(rule, kids) == [sym |-> rule, text |-> <<>>, kids |-> kids]

(* What a filter says, in the database's terms: a name is quoted, a        *)
(* spatial operator is a function of PostGIS, and a geometry of the        *)
(* filter's CRS is brought to the table's.                                 *)
CallNode(name, args) ==
    LET commas == [i \in 1..(2 * Len(args) - 1) |->
                     IF i % 2 = 1 THEN args[(i + 1) \div 2] ELSE Leaf("COMMA", <<>>)]
    IN  Nodes("call", <<Leaf("Function", <<name>>)>> \o Open \o commas \o Close)

InTablesCrs(t, c) ==
    IF c.filter = c.source THEN t
    ELSE CallNode("ST_Transform", <<t, Leaf("NumericLiteral", <<c.source>>)>>)

GeometryOf(tokens, c) ==
    LET num(i) == tokens[i].sym = "NumericLiteral"
        wkt == FoldLeft(LAMBDA s, i : s \o (IF i > 1 /\ num(i) /\ num(i - 1) THEN <<" ">> ELSE <<>>)
                                        \o tokens[i].text,
                        <<>>, [i \in DOMAIN tokens |-> i])
    IN  IF tokens[1].sym = "ENVELOPE"
        THEN CallNode("ST_MakeEnvelope", [i \in 1..5 |-> IF i < 5 THEN tokens[2 * i + 1]
                                                         ELSE Leaf("NumericLiteral", <<c.filter>>)])
        ELSE Leaf("Geometry", <<"SRID=", c.filter, ";">> \o wkt)

RECURSIVE InSql(_, _)
InSql(t, c) ==
    CASE t.sym = "geometry" -> InTablesCrs(GeometryOf(t.kids, c), c)
      [] t.sym = "Identifier" -> quotedName(t.text)[1]
      [] t.sym \in {"SpatialOperator", "DistanceOperator"} ->
            Leaf("Function", <<pgFunctionForCql[t.text[1]]>>)
      [] t.sym = "ArithmeticOperator" -> SqlOperator(t)[1]
      [] t.sym = "TemporalLiteral" ->
            Leaf("Timestamp", IF t.text[1] = "NOW" THEN <<"NOW">> ELSE t.text)
      [] t.sym \in {"AND", "OR", "NOT", "BETWEEN", "IN", "IS", "NULL", "LIKE", "ILIKE",
                    "LEFTPAREN", "RIGHTPAREN", "COMMA"} -> Leaf(t.sym, <<>>)
      [] OTHER -> [t EXCEPT !.kids = [i \in DOMAIN @ |-> InSql(@[i], c)]]

(* What the database reads in a text; NoMeaning when it is no condition.   *)
Condition(p) == IF p.err = 0 THEN Meaning(p.tree) ELSE NoMeaning
Read(text) == Condition(Sql!Parse(Append(text, EOF)))

WellFormed == filter.says # NoMeaning
Accepted == reply = "tile" /\ filter.tokens # <<>>

(* The database reads in the text of an accepted filter what the filter    *)
(* says, in the order NOT, AND, OR and with every geometry in the CRS of   *)
(* the table (cql.go, the listener).                                       *)
FilterKeepsItsMeaning ==
    Accepted /\ WellFormed => Read(sql) = InSql(filter.says, crs)

(* A well-formed filter is never refused, whatever its spelling, and never *)
(* loses the client its answer (cql_parser.go, TranspileToSQL).            *)
WellFormedIsAccepted == WellFormed => parsed.err = 0 /\ reply \notin {"error", "lost"}

(* A filter that does not parse yields no tile: neither what the parser    *)
(* made up to go on nor the tile without the filter is ever sent           *)
(* (TranspileToSQL, filterSQL, requestSQL, GetTileRequest).                *)
OnlyFiltersAreAccepted == Accepted => Cql!Derives(filter.tokens)

(* Every error is answered (main.go, ServeHTTP: "returning HTTP error       *)
(* response codes on failure so clients can see what is going on").  The   *)
(* code loses the answer of some filters that do not parse: see WalkBroken.*)
EveryFilterIsAnswered == reply # "lost"

(* Does the condition keep to the rows of the tile?                        *)
RECURSIVE Confines(_, _)
Confines(t, tile) ==
    \/ t = tile
    \/ t.sym = "and" /\ \E i \in DOMAIN t.kids : Confines(t.kids[i], tile)
    \/ t.sym = "or" /\ \A i \in DOMAIN t.kids : t.kids[i].sym = "OR" \/ Confines(t.kids[i], tile)

(* A tile is made of rows that meet its bounds, whatever the filter (the   *)
(* spatial condition of requestSQL).  A top-level OR escapes it.           *)
EveryRowIsInTheTile == reply = "tile" => Confines(Read(where), Read(InTile))
=============================================================================
