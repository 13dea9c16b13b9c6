--------------------------- MODULE SqlExpression ----------------------------
(***************************************************************************)
(* How PostgreSQL reads the condition the server sends it: the precedence  *)
(* of its operators, OR under AND under NOT under IS under comparison      *)
(* under BETWEEN, LIKE and IN under sums under products, as far as filters *)
(* use them.  The database is not in the repository.                       *)
(***************************************************************************)
EXTENDS CqlGrammar

LOCAL BinaryRange ==
    Alt(<<Seq_(<<Tok("BETWEEN"), Rule("sum"), Tok("AND"), Rule("sum")>>),
          Seq_(<<OneOf({"LIKE", "ILIKE"}), Rule("sum")>>),
          Seq_(<<Tok("IN")>> \o Listed(Rule("sum")))>>)

SqlRules ==
    [condition |-> Seq_(<<Rule("or"), Tok("EOF")>>),
     or |-> Left(Rule("and"), "OR", Rule("and")),
     and |-> Left(Rule("not"), "AND", Rule("not")),
     not |-> Alt(<<Seq_(<<Tok("NOT"), Rule("not")>>), Rule("is")>>),
     is |-> Seq_(<<Rule("comparison"), Opt(Seq_(<<Tok("IS"), Opt(Tok("NOT")), Tok("NULL")>>))>>),
     comparison |-> Seq_(<<Rule("range"), Opt(Seq_(<<Tok("ComparisonOperator"), Rule("range")>>))>>),
     range |-> Seq_(<<Rule("sum"), Opt(Alt(<<Seq_(<<Tok("NOT"), BinaryRange>>), BinaryRange>>))>>),
     sum |-> Left(Rule("product"), "Sum", Rule("product")),
     product |-> Left(Rule("value"), "Product", Rule("value")),
     value |-> Alt(<<OneOf({"Identifier", "CharacterStringLiteral", "NumericLiteral",
                            "BooleanLiteral", "Timestamp", "Geometry"}),
                     Rule("call"),
                     Seq_(<<Tok("LEFTPAREN"), Rule("or"), Tok("RIGHTPAREN")>>)>>),
     call |-> Seq_(<<Tok("Function")>> \o Listed(Rule("sum")))]

(* What a parse tree says, with the parentheses and the levels that decide *)
(* nothing left out.                                                       *)
RECURSIVE Meaning(_)
Meaning(t) ==
    CASE Len(t.kids) = 0 -> t
      [] Len(t.kids) = 1 -> Meaning(t.kids[1])
      [] OTHER ->
            IF t.kids[1].sym = "LEFTPAREN" \/ t.sym = "condition"
            THEN Meaning(t.kids[IF t.sym = "condition" THEN 1 ELSE 2])
            ELSE [t EXCEPT !.kids = [i \in DOMAIN @ |-> Meaning(@[i])]]
=============================================================================
