----------------------------- MODULE CqlGrammar -----------------------------
(***************************************************************************)
(* The grammar of CQL filters, one definition per rule of the generated    *)
(* parser.  A rule's body says in which order its function in              *)
(* cql_parser.go matches tokens (Tok, OneOf) and calls other rules (Rule), *)
(* where it takes one of several alternatives (Alt), an optional part      *)
(* (Opt) or a loop (Star).  A left-recursive rule, which the generator turns into a   *)
(* loop guarded by Precpred, is Left: an operand, then operators with      *)
(* their right operands.                                                   *)
(***************************************************************************)
EXTENDS Sequences

OneOf(ts) == [op |-> "tok", toks |-> ts]
Tok(t) == OneOf({t})
Rule(r) == [op |-> "rule", rule |-> r, loops |-> TRUE]
Seq_(es) == [op |-> "seq", es |-> es]
Alt(es) == [op |-> "alt", es |-> es]
Opt(e) == [op |-> "opt", e |-> e]
Star(e) == [op |-> "star", e |-> e]
Left(operand, operator, right) ==
    [op |-> "left", e |-> operand, operator |-> operator, right |-> right]

(* A rule called above its own precedence: its loop is not entered.        *)
Operand(r) == [op |-> "rule", rule |-> r, loops |-> FALSE]

(* "(" e ("," e)* ")".                                                     *)
Listed(e) ==
    <<Tok("LEFTPAREN"), e, Star(Seq_(<<Tok("COMMA"), e>>)), Tok("RIGHTPAREN")>>

-----------------------------------------------------------------------------
cqlFilter == Seq_(<<Rule("booleanValueExpression"), Tok("EOF")>>)
booleanValueExpression == Left(Rule("booleanTerm"), "OR", Rule("booleanTerm"))
booleanTerm == Left(Rule("booleanFactor"), "AND", Rule("booleanFactor"))
booleanFactor == Seq_(<<Opt(Tok("NOT")), Rule("booleanPrimary")>>)
booleanPrimary ==
    Alt(<<Rule("predicate"),
          Seq_(<<Tok("LEFTPAREN"), Rule("booleanValueExpression"), Tok("RIGHTPAREN")>>)>>)

predicate ==
    Alt(<<Rule("binaryComparisonPredicate"), Rule("likePredicate"),
          Rule("betweenPredicate"), Rule("isNullPredicate"), Rule("inPredicate"),
          Rule("spatialPredicate"), Rule("distancePredicate")>>)

binaryComparisonPredicate ==
    Seq_(<<Rule("scalarExpression"), Tok("ComparisonOperator"), Rule("scalarExpression")>>)
likePredicate ==
    Seq_(<<Rule("propertyName"), Opt(Tok("NOT")), OneOf({"LIKE", "ILIKE"}),
           Rule("characterLiteral")>>)
betweenPredicate ==
    Seq_(<<Rule("scalarExpression"), Opt(Tok("NOT")), Tok("BETWEEN"),
           Rule("scalarExpression"), Tok("AND"), Rule("scalarExpression")>>)
inPredicate ==
    LET list(r) == Seq_(<<Rule(r), Star(Seq_(<<Tok("COMMA"), Rule(r)>>))>>)
    IN  Seq_(<<Rule("propertyName"), Opt(Tok("NOT")), Tok("IN"), Tok("LEFTPAREN"),
               Alt(<<list("characterLiteral"), list("numericLiteral")>>),
               Tok("RIGHTPAREN")>>)
(* Mutant: IS NOT NULL is forgotten.                                       *)
isNullPredicate_NoNot == Seq_(<<Rule("propertyName"), Tok("IS"), Tok("NULL")>>)

isNullPredicate ==
    Seq_(<<Rule("propertyName"), Tok("IS"), Opt(Tok("NOT")), Tok("NULL")>>)

scalarExpression ==
    Left(Alt(<<Rule("scalarValue"),
               Seq_(<<Tok("LEFTPAREN"), Rule("scalarExpression"), Tok("RIGHTPAREN")>>)>>),
         "ArithmeticOperator", Operand("scalarExpression"))
scalarValue ==
    Alt(<<Rule("propertyName"), Rule("characterLiteral"), Rule("numericLiteral"),
          Rule("booleanLiteral"), Rule("temporalLiteral")>>)
propertyName == Tok("Identifier")
characterLiteral == Tok("CharacterStringLiteral")
numericLiteral == Tok("NumericLiteral")
booleanLiteral == Tok("BooleanLiteral")
temporalLiteral == Tok("TemporalLiteral")

-----------------------------------------------------------------------------
spatialPredicate ==
    Seq_(<<Tok("SpatialOperator"), Tok("LEFTPAREN"), Rule("geomExpression"),
           Tok("COMMA"), Rule("geomExpression"), Tok("RIGHTPAREN")>>)
distancePredicate ==
    Seq_(<<Tok("DistanceOperator"), Tok("LEFTPAREN"), Rule("geomExpression"),
           Tok("COMMA"), Rule("geomExpression"), Tok("COMMA"), Tok("NumericLiteral"),
           Tok("RIGHTPAREN")>>)
geomExpression == Alt(<<Rule("propertyName"), Rule("geomLiteral")>>)
geomLiteral ==
    Alt(<<Rule("point"), Rule("linestring"), Rule("polygon"), Rule("multiPoint"),
          Rule("multiLinestring"), Rule("multiPolygon"), Rule("geometryCollection"),
          Rule("envelope")>>)
point == Seq_(<<Tok("POINT"), Rule("pointList")>>)
pointList == Seq_(<<Tok("LEFTPAREN"), Rule("coordinate"), Tok("RIGHTPAREN")>>)
linestring == Seq_(<<Tok("LINESTRING"), Rule("coordList")>>)
polygon == Seq_(<<Tok("POLYGON"), Rule("polygonDef")>>)
polygonDef == Seq_(Listed(Rule("coordList")))
multiPoint == Seq_(<<Tok("MULTIPOINT")>> \o Listed(Rule("pointList")))
multiLinestring == Seq_(<<Tok("MULTILINESTRING")>> \o Listed(Rule("coordList")))
multiPolygon == Seq_(<<Tok("MULTIPOLYGON")>> \o Listed(Rule("polygonDef")))
geometryCollection == Seq_(<<Tok("GEOMETRYCOLLECTION")>> \o Listed(Rule("geomLiteral")))
envelope ==
    LET num == Tok("NumericLiteral")
        comma == Tok("COMMA")
    IN  Seq_(<<Tok("ENVELOPE"), Tok("LEFTPAREN"), num, comma, num, comma, num, comma,
               num, Tok("RIGHTPAREN")>>)
coordList == Seq_(Listed(Rule("coordinate")))
coordinate == Seq_(<<Tok("NumericLiteral"), Tok("NumericLiteral")>>)

-----------------------------------------------------------------------------
(* The rules by name.                                                      *)
CqlRules ==
    [cqlFilter |-> cqlFilter, booleanValueExpression |-> booleanValueExpression,
     booleanTerm |-> booleanTerm, booleanFactor |-> booleanFactor,
     booleanPrimary |-> booleanPrimary, predicate |-> predicate,
     binaryComparisonPredicate |-> binaryComparisonPredicate,
     likePredicate |-> likePredicate, betweenPredicate |-> betweenPredicate,
     inPredicate |-> inPredicate, isNullPredicate |-> isNullPredicate,
     scalarExpression |-> scalarExpression, scalarValue |-> scalarValue,
     propertyName |-> propertyName, characterLiteral |-> characterLiteral,
     numericLiteral |-> numericLiteral, booleanLiteral |-> booleanLiteral,
     temporalLiteral |-> temporalLiteral, spatialPredicate |-> spatialPredicate,
     distancePredicate |-> distancePredicate, geomExpression |-> geomExpression,
     geomLiteral |-> geomLiteral, point |-> point, pointList |-> pointList,
     linestring |-> linestring, polygon |-> polygon, polygonDef |-> polygonDef,
     multiPoint |-> multiPoint, multiLinestring |-> multiLinestring,
     multiPolygon |-> multiPolygon, geometryCollection |-> geometryCollection,
     envelope |-> envelope, coordList |-> coordList, coordinate |-> coordinate]
=============================================================================
