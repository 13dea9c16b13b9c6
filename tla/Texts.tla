------------------------------- MODULE Texts --------------------------------
(* A text the server takes apart is a sequence of its pieces: words and    *)
(* the signs that mean something to it, quotes, "::", ", ", "/", ".", ",". *)
EXTENDS Integers, Sequences, SequencesExt

(* The elements of a sequence that are in a set, in their order.           *)
Only(s, S) ==
    LET upto[i \in 0..Len(s)] ==
            IF i = 0 THEN <<>>
            ELSE IF s[i] \in S THEN Append(upto[i - 1], s[i]) ELSE upto[i - 1]
    IN  upto[Len(s)]

(* Those of a set by their order, each after as many as come before it.    *)
Sorted(S) ==
    [i \in 1..Cardinality(S) |->
        CHOOSE e \in S : Cardinality({d \in S : d.order < e.order}) = i - 1]

(* The piece goes to the last part, or a new part begins.                  *)
Cut(parts, p, sep) ==
    IF p = sep THEN Append(parts, <<>>)
    ELSE [parts EXCEPT ![Len(parts)] = Append(@, p)]
Split(text, sep) ==
    LET upto[i \in 0..Len(text)] ==
            IF i = 0 THEN <<<<>>>> ELSE Cut(upto[i - 1], text[i], sep)
    IN  upto[Len(text)]
Join(parts, sep) ==
    LET upto[i \in 0..Len(parts)] ==
            IF i = 0 THEN <<>>
            ELSE upto[i - 1] \o (IF i = 1 THEN <<>> ELSE <<sep>>) \o parts[i]
    IN  upto[Len(parts)]
=============================================================================
