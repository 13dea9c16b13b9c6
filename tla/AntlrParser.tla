---------------------------- MODULE AntlrParser -----------------------------
(***************************************************************************)
(* The ANTLR runtime as the functions of cql_parser.go use it: every one   *)
(* of them matches tokens and calls rules, and catches the recognition     *)
(* error a mismatch raises, reports it and resumes where a caller can go   *)
(* on, so that a tree is built for every input and the errors are known    *)
(* only to the listener.  The runtime itself is not in the repository.     *)
(*                                                                         *)
(* A token, and a leaf of the tree, is [sym, text, kids] with no kids; an  *)
(* inner node has the name of its rule for sym.                            *)
(***************************************************************************)
EXTENDS Naturals, Sequences, FiniteSets, SequencesExt

CONSTANTS Rules,  \* the body of each rule, see CqlGrammar
          Start   \* the rule the parse starts with

(* May e match nothing?                                                    *)
RECURSIVE Nullable(_)
Nullable(e) ==
    CASE e.op \in {"opt", "star"} -> TRUE
      [] e.op = "tok"  -> FALSE
      [] e.op = "seq"  -> \A i \in DOMAIN e.es : Nullable(e.es[i])
      [] e.op = "alt"  -> \E i \in DOMAIN e.es : Nullable(e.es[i])
      [] e.op = "left" -> Nullable(e.e)
      [] e.op = "rule" -> Nullable(Rules[e.rule])

(* The tokens e may begin with, and those a sequence of elements may.      *)
RECURSIVE First(_), FirstOf(_)
First(e) ==
    CASE e.op = "tok"  -> e.toks
      [] e.op = "seq"  -> FirstOf(e.es)
      [] e.op = "alt"  -> UNION {First(e.es[i]) : i \in DOMAIN e.es}
      [] e.op \in {"opt", "star", "left"} -> First(e.e)
      [] e.op = "rule" -> First(Rules[e.rule])
FirstOf(es) ==
    IF es = <<>> THEN {}
    ELSE First(Head(es)) \cup (IF Nullable(Head(es)) THEN FirstOf(Tail(es)) ELSE {})

AllNullable(es) == \A i \in DOMAIN es : Nullable(es[i])

-----------------------------------------------------------------------------
(* Where e can end when it starts at one of the positions S of ts[1..k];   *)
(* k + 1 when the tokens run out inside it.                                *)
RECURSIVE Ends(_, _, _, _)
Ends(e, S, ts, k) ==
    LET out == S \cap {k + 1}
        in == S \ out
        Again(one(_)) ==
            LET RECURSIVE Close(_, _)
                Close(new, all) ==
                    IF new = {} THEN all
                    ELSE LET next == one(new) \ all IN Close(next, all \cup next)
            IN  Close(S, S)
    IN  IF in = {} THEN out
        ELSE out \cup
          CASE e.op = "tok"  -> {i + 1 : i \in {j \in in : ts[j].sym \in e.toks}}
            [] e.op = "seq"  -> FoldLeft(LAMBDA s, x : Ends(x, s, ts, k), in, e.es)
            [] e.op = "alt"  -> UNION {Ends(e.es[i], in, ts, k) : i \in DOMAIN e.es}
            [] e.op = "opt"  -> in \cup Ends(e.e, in, ts, k)
            [] e.op = "star" -> Again(LAMBDA s : Ends(e.e, s, ts, k))
            [] e.op = "left" ->
                 LET RECURSIVE Loop(_, _)
                     Loop(new, all) ==
                        IF new = {} THEN all
                        ELSE LET ops == {i + 1 : i \in {j \in new \ {k + 1} :
                                                          ts[j].sym = e.operator}}
                                 next == Ends(e.right, ops, ts, k) \ all
                             IN  Loop(next, all \cup next)
                     base == Ends(e.e, in, ts, k)
                 IN  Loop(base, base)
            [] e.op = "rule" ->
                 LET body == Rules[e.rule]
                 IN  IF body.op = "left" /\ ~e.loops THEN Ends(body.e, in, ts, k)
                     ELSE Ends(body, in, ts, k)

(* Does the grammar derive the whole of ts?                                *)
Derives(ts) ==
    Len(ts) + 1 \in Ends(Rules[Start], {1}, ts, Len(ts) + 1)

(* The alternative to take at position i: the only one that can go on with *)
(* the tokens up to the first that decides; 0 when there is none.          *)
Predict(es, ts, i) ==
    LET Viable(k) == {a \in DOMAIN es : k + 1 \in Ends(es[a], {i}, ts, k)}
        RECURSIVE Look(_)
        Look(k) == CASE Viable(k) = {} -> 0
                     [] Cardinality(Viable(k)) = 1 -> CHOOSE a \in Viable(k) : TRUE
                     [] OTHER -> IF k = Len(ts) THEN CHOOSE a \in Viable(k) : TRUE
                                 ELSE Look(k + 1)
    IN  Look(i)

-----------------------------------------------------------------------------
(* The state of a parse: the position, the children of the node being      *)
(* built, where the first error was reported (0 for none), whether the     *)
(* runtime is recovering from an error, and whether one is being raised.   *)
Begin(ts) ==
    [ts |-> ts, pos |-> 1, kids |-> <<>>, err |-> 0, recovering |-> FALSE, thrown |-> FALSE]

LA(st, n) == st.ts[IF st.pos + n - 1 > Len(st.ts) THEN Len(st.ts) ELSE st.pos + n - 1].sym

Consume(st) ==
    [st EXCEPT !.kids = Append(@, st.ts[st.pos]),
               !.pos = IF @ = Len(st.ts) THEN @ ELSE @ + 1]

(* Only the first error is kept.                                           *)
Report(st) ==
    [st EXCEPT !.err = IF @ = 0 /\ ~st.recovering THEN st.pos ELSE @, !.recovering = TRUE]
Throw(st) == [Report(st) EXCEPT !.thrown = TRUE]
Matched(st) == Consume([st EXCEPT !.recovering = FALSE])

(* A token that is missing from the input, made up to go on.               *)
Missing(toks) == [sym |-> CHOOSE t \in toks : TRUE, text |-> <<"<missing>">>, kids |-> <<>>]

(* What can follow in this rule and, where it may end, in its callers.     *)
RECURSIVE Follow(_)
Follow(rest) ==
    IF rest = <<>> THEN {}
    ELSE FirstOf(Head(rest)) \cup
         (IF AllNullable(Head(rest)) THEN Follow(Tail(rest)) ELSE {})

(* Match: take the token, or drop one, or make one up, or give up.         *)
Match(toks, st, rest) ==
    CASE LA(st, 1) \in toks -> Matched(st)
      [] LA(st, 1) \notin toks /\ LA(st, 2) \in toks -> Matched(Consume(Report(st)))
      [] LA(st, 1) \notin toks /\ LA(st, 2) \notin toks /\ LA(st, 1) \in Follow(rest) ->
            [Report(st) EXCEPT !.kids = Append(@, Missing(toks))]
      [] OTHER -> Throw(st)

(* Sync, before a choice or a loop: drop one token or give up early.       *)
Sync(es, st) ==
    LET next == FirstOf(es)
    IN  CASE st.recovering \/ LA(st, 1) \in next \/ AllNullable(es) -> st
          [] ~st.recovering /\ LA(st, 1) \notin next /\ ~AllNullable(es) /\ LA(st, 2) \in next ->
                [Consume(Report(st)) EXCEPT !.recovering = FALSE]
          [] OTHER -> Throw(st)

RECURSIVE SkipTo(_, _)
SkipTo(st, syms) ==
    IF LA(st, 1) \in syms \cup {"EOF"} THEN st ELSE SkipTo(Consume(st), syms)

(* What any of the callers can go on with.                                 *)
RecoverySet(rest) == UNION {FirstOf(rest[i]) : i \in DOMAIN rest}

(* Sync at the end of an iteration: skip to what the loop or a caller      *)
(* knows.                                                                  *)
SyncBack(es, st, rest) ==
    IF st.recovering \/ LA(st, 1) \in FirstOf(es) \/ AllNullable(es) THEN st
    ELSE SkipTo(Report(st), FirstOf(es) \cup RecoverySet(rest))

-----------------------------------------------------------------------------
(* Run(e, st, rest) runs the code of element e.  rest[1] holds the         *)
(* elements left in the rule e is in, rest[2] those of its caller, ...     *)
RECURSIVE Run(_, _, _)

Then(e, rest) == <<<<e>> \o Head(rest)>> \o Tail(rest)

RunSeq(es, st, rest) ==
    FoldLeft(LAMBDA s, i :
                Run(es[i], s, <<SubSeq(es, i + 1, Len(es)) \o Head(rest)>> \o Tail(rest)),
             st, [i \in 1..Len(es) |-> i])

Choose(es, s, rest) ==
    LET a == Predict(es, s.ts, s.pos)
    IN  IF s.thrown THEN s ELSE IF a = 0 THEN Throw(s) ELSE Run(es[a], s, rest)
RunAlt(e, st, rest) == Choose(e.es, Sync(<<e>>, st), rest)

Try(e, s, rest) == IF ~s.thrown /\ LA(s, 1) \in First(e) THEN Run(e, s, rest) ELSE s
RunOpt(e, st, rest) == Try(e.e, Sync(<<e>> \o Head(rest), st), rest)

RunStar(e, st, rest) ==
    LET RECURSIVE Loop(_)
        Loop(s) ==
            IF s.thrown \/ LA(s, 1) \notin First(e.e) THEN s
            ELSE LET t == Run(e.e, s, Then(e, rest))
                 IN  IF t.thrown THEN t
                     ELSE Loop(SyncBack(<<e>> \o Head(rest), t, rest))
    IN  Loop(Sync(<<e>> \o Head(rest), st))

(* Each operator puts what was read so far under a node of its own.        *)
RunLeft(rule, e, loops, st, rest) ==
    LET operator == [op |-> "tok", toks |-> {e.operator}]
        again == [op |-> "star", e |-> [op |-> "seq", es |-> <<operator, e.right>>]]
        RECURSIVE Loop(_)
        Loop(s) ==
            IF s.thrown \/ LA(s, 1) # e.operator THEN s
            ELSE LET under == [s EXCEPT !.kids = <<[sym |-> rule, text |-> <<>>, kids |-> @]>>]
                 IN  Loop(Run(e.right, Matched(under), Then(again, rest)))
        base == Run(e.e, st, Then(again, rest))
    IN  IF loops THEN Loop(base) ELSE base

(* A call of a rule's function: its node, with the children matched before *)
(* an error, and the input skipped to what a caller can go on with.        *)
Enter(rule, loops, body, st, rest) ==
    IF body.op = "left" THEN RunLeft(rule, body, loops, st, rest) ELSE Run(body, st, rest)

Leave(rule, st, s, rest) ==
    LET done == IF s.thrown THEN SkipTo([s EXCEPT !.thrown = FALSE], RecoverySet(rest)) ELSE s
    IN  [done EXCEPT !.kids = Append(st.kids, [sym |-> rule, text |-> <<>>, kids |-> @])]

Call(rule, loops, st, rest) ==
    Leave(rule, st, Enter(rule, loops, Rules[rule], [st EXCEPT !.kids = <<>>], <<<<>>>> \o rest), rest)

Run(e, st, rest) ==
    IF st.thrown THEN st
    ELSE CASE e.op = "tok"  -> Match(e.toks, st, rest)
           [] e.op = "seq"  -> RunSeq(e.es, st, rest)
           [] e.op = "alt"  -> RunAlt(e, st, rest)
           [] e.op = "opt"  -> RunOpt(e, st, rest)
           [] e.op = "star" -> RunStar(e, st, rest)
           [] e.op = "rule" -> Call(e.rule, e.loops, st, rest)

(* The tree of ts, which ends in EOF, and the place of its first error.    *)
Parse(ts) ==
    LET s == Call(Start, TRUE, Begin(ts), <<>>)
    IN  [tree |-> s.kids[1], err |-> s.err]
=============================================================================
