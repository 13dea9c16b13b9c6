---------------------------- MODULE MCCqlFilter -----------------------------
(***************************************************************************)
(* Filters for TLC: what they say as trees of SqlExpression's rules, their *)
(* tokens with as few parentheses as the documented precedence allows, and *)
(* the tokens of a filter with one dropped, doubled or replaced.           *)
(***************************************************************************)
EXTENDS CqlFilter

T(sym, text) == Leaf(sym, <<text>>)
W(sym) == Leaf(sym, <<>>)
x == T("Identifier", "x")
y == Leaf("Identifier", <<"\"", "y", "\"">>)
One == T("NumericLiteral", "1")
Two == T("NumericLiteral", "2")
Abc == T("CharacterStringLiteral", "'abc'")

(* Binding strength, loosest first.                                        *)
Levels == <<"or", "and", "not", "is", "comparison", "range", "sum", "product">>
Level(t) == IF \E i \in DOMAIN Levels : Levels[i] = t.sym
            THEN CHOOSE i \in DOMAIN Levels : Levels[i] = t.sym ELSE 9

(* The tokens of a tree; the right operand of a left-associative operator  *)
(* binds tighter than the operator.                                        *)
RECURSIVE Tokens(_, _)
Tokens(t, level) ==
    LET l == Level(t)
        Need(i) == CASE t.sym \in {"or", "and", "sum", "product"} -> IF i = 1 THEN l ELSE l + 1
                     [] t.sym = "not" -> IF t.kids[2].sym \in {"not", "or", "and"} THEN 9 ELSE 4
                     [] OTHER -> IF t.sym \in {"is", "comparison", "range"} THEN 7 ELSE 1
        inner == IF t.kids = <<>> THEN <<t>>
                 ELSE FoldLeft(LAMBDA s, i : s \o Tokens(t.kids[i], Need(i)), <<>>,
                               [i \in DOMAIN t.kids |-> i])
    IN  IF l < level THEN <<W("LEFTPAREN")>> \o inner \o <<W("RIGHTPAREN")>> ELSE inner

Or(a, b) == Nodes("or", <<a, W("OR"), b>>)
And(a, b) == Nodes("and", <<a, W("AND"), b>>)
No(a) == Nodes("not", <<W("NOT"), a>>)
Equal(a, b) == Nodes("comparison", <<a, T("ComparisonOperator", "="), b>>)
Sum(a, b) == Nodes("sum", <<a, T("ArithmeticOperator", "-"), b>>)
Product(a, b) == Nodes("product", <<a, T("ArithmeticOperator", "*"), b>>)
Between(a, b, c) == Nodes("range", <<a, W("BETWEEN"), b, W("AND"), c>>)
NotBetween(a, b, c) == Nodes("range", <<a, W("NOT"), W("BETWEEN"), b, W("AND"), c>>)
ListOf(vs) == <<W("LEFTPAREN"), vs[1], W("COMMA"), vs[2], W("RIGHTPAREN")>>
In(a, vs) == Nodes("range", <<a, W("IN")>> \o ListOf(vs))
Spatial(op, a, b) == Nodes("call", <<T("SpatialOperator", op)>> \o ListOf(<<a, b>>))
Within(a, b, d) ==
    Nodes("call", <<T("DistanceOperator", "dwithin"), W("LEFTPAREN"), a, W("COMMA"), b,
                    W("COMMA"), d, W("RIGHTPAREN")>>)

(* Geometry literals, as their tokens.                                     *)
L == T("LEFTPAREN", "(")
R == T("RIGHTPAREN", ")")
C == T("COMMA", ",")
Geo(kind, tokens) == Nodes("geometry", <<T(kind, kind)>> \o tokens)
PointText == <<L, One, Two, R>>
LineText == <<L, One, Two, C, Two, One, R>>
PolygonText == <<L>> \o LineText \o <<C>> \o LineText \o <<R>>
Geometries ==
    {Geo("POINT", PointText), Geo("LINESTRING", LineText), Geo("POLYGON", PolygonText),
     Geo("MULTIPOINT", <<L>> \o PointText \o <<C>> \o PointText \o <<R>>),
     Geo("MULTILINESTRING", <<L>> \o LineText \o <<R>>),
     Geo("MULTIPOLYGON", <<L>> \o PolygonText \o <<R>>),
     Geo("GEOMETRYCOLLECTION", <<L, T("POINT", "POINT")>> \o PointText \o
                               <<C, T("LINESTRING", "LINESTRING")>> \o LineText \o <<R>>),
     Geo("ENVELOPE", <<L, One, C, Two, C, One, C, Two, R>>)}

Scalars ==
    {Sum(Product(x, Two), One), Product(x, Sum(y, One)), Sum(x, Sum(One, y)),
     Sum(Sum(x, One), y), T("BooleanLiteral", "TRUE"), Abc,
     T("TemporalLiteral", "2001-01-01"), Leaf("TemporalLiteral", <<"NOW", "()">>)}

Predicates ==
    {Equal(x, s) : s \in Scalars} \cup {Between(s, One, y) : s \in Scalars} \cup
    {NotBetween(x, Sum(One, y), Two), In(x, <<One, Two>>), In(y, <<Abc, Abc>>),
     Nodes("range", <<x, W("NOT"), W("IN")>> \o ListOf(<<One, Two>>)),
     Nodes("range", <<x, W("LIKE"), Abc>>), Nodes("range", <<x, W("NOT"), W("ILIKE"), Abc>>),
     Nodes("is", <<x, W("IS"), W("NULL")>>), Nodes("is", <<x, W("IS"), W("NOT"), W("NULL")>>)}
    \cup {Spatial("intersects", x, g) : g \in Geometries}
    \cup {Within(g, x, One) : g \in Geometries} \cup {Spatial("touches", x, y)}

(* Boolean combinations of three predicates, two levels deep.              *)
Atoms == {Equal(x, One), Between(x, One, Two), Nodes("is", <<x, W("IS"), W("NULL")>>)}
Pairs == {Or(a, b) : a, b \in Atoms} \cup {And(a, b) : a, b \in Atoms} \cup {No(a) : a \in Atoms}
Combinations ==
    LET a == Equal(x, One)
        b == Between(y, One, Two)
        inner == Pairs \cup Atoms
    IN  Pairs \cup {No(f) : f \in Pairs} \cup {Or(f, a) : f \in Pairs} \cup {Or(b, f) : f \in Pairs}
        \cup {And(f, b) : f \in Pairs} \cup {And(a, f) : f \in Pairs}
        \cup {Or(No(a), And(b, f)) : f \in Atoms} \cup {No(And(Or(b, f), No(f))) : f \in Atoms}

Text(t) == Tokens(t, 1) \o <<EOF>>
Good == {[tokens |-> Text(t), says |-> t] : t \in Predicates \cup Combinations}

(* One token too few, too many, or another.                                *)
Broken(ts) ==
    {RemoveAt(ts, i) : i \in 1..(Len(ts) - 1)}
    \cup {InsertAt(ts, i, ts[i]) : i \in 1..(Len(ts) - 1)}
    \cup {[ts EXCEPT ![i] = t] : i \in 1..(Len(ts) - 1), t \in {x, One, R}}
Small ==
    {Between(x, One, Two), In(x, <<One, Two>>), And(Equal(x, One), No(Equal(x, y))),
     Within(x, Geo("POINT", PointText), One), Nodes("range", <<x, W("NOT"), W("LIKE"), Abc>>),
     Spatial("within", x, Geo("ENVELOPE", <<L, One, C, Two, C, One, C, Two, R>>)),
     Equal(x, Sum(One, y)), Spatial("equals", Geo("LINESTRING", LineText), x)}
Bad == {[tokens |-> ts, says |-> NoMeaning] : ts \in
          {b \in UNION {Broken(Text(t)) : t \in Small} : ~Cql!Derives(b)} \cup {<<EOF>>}}
NoText == {[tokens |-> <<>>, says |-> NoMeaning]}

AllFilters == Good \cup Bad \cup NoText
GoodFilters == Good
TwoCrs == {[filter |-> "4326", source |-> "4326"], [filter |-> "4326", source |-> "3857"]}
OneCrs == {[filter |-> "4326", source |-> "4326"]}
=============================================================================
