--------------------------- MODULE FunctionQuery ----------------------------
(***************************************************************************)
(* A function layer: what getFunctionLayers makes of a row of the          *)
(* catalogue, the call a tile request becomes, the listing of its detail.  *)
(* At the end, what the database says of a call: it is not in the          *)
(* repository.                                                             *)
(*                                                                         *)
(* A function of the catalogue is [id, params], a parameter                *)
(* [name, type, out, default, value]: the default as the database prints   *)
(* it (empty without one) and the value that was declared.                 *)
(***************************************************************************)
EXTENDS Texts, FiniteSets

CONSTANTS Fold,   \* names in lower case
          Words   \* pieces made of letters, digits, "_", "-" and "."

(* The signs in a list of defaults.                                        *)
Quote == "'"
Cast == "::"
Between == ", "

-----------------------------------------------------------------------------
(* The parameters a caller may name.                                       *)
Inputs(f) == {p \in ToSet(f.params) : ~p.out}

(* The first three arguments are z, x and y; others are the caller's.      *)
IsTileFunction(f) ==
    /\ Len(f.params) >= 3
    /\ \A i \in 1..3 : f.params[i].type = "integer" /\ ~f.params[i].out
    /\ [i \in 1..3 |-> f.params[i].name] = <<"z", "x", "y">>

(* regexp_replace without its g flag: the first quoted word with a cast to *)
(* a type is replaced by the word.                                         *)
Unquoted(text) ==
    LET at == {i \in 1..(Len(text) - 4) :
                 /\ text[i] = Quote /\ text[i + 1] \in Words
                 /\ text[i + 2] = Quote /\ text[i + 3] = Cast}
        first == Min(at)
    IN  IF at = {} THEN text
        ELSE SubSeq(text, 1, first - 1) \o <<text[first + 1]>>
                \o SubSeq(text, first + 5, Len(text))

(* The defaults of the last arguments, split at ", "; the element "g" is   *)
(* string_to_array's NULL.                                                 *)
argdefaults(f) ==
    LET given == Only(f.params, {p \in ToSet(f.params) : p.default # <<>>})
    IN  IF given = <<>> THEN <<>>
        ELSE Split(Unquoted(Join([i \in DOMAIN given |-> given[i].default], Between)), Between)
argtypes(f) == Only(f.params, Inputs(f))

(* parseArgDefault: what comes before the last cast, without its quotes.   *)
Casts(arg) == {i \in DOMAIN arg : arg[i] = Cast}
Uncast(arg) == SubSeq(arg, 1, Max(Casts(arg)) - 1)
parseArgDefault(arg) ==
    IF Casts(arg) # {} /\ Uncast(arg)[1] = Quote /\ Last(Uncast(arg)) = Quote
    THEN SubSeq(Uncast(arg), 2, Len(Uncast(arg)) - 1) ELSE arg
DefaultPanics(arg) == Casts(arg) # {} /\ Uncast(arg) \in {<<>>, <<Quote>>}

argdef(f, i) ==
    LET defstart == Len(f.params) - Len(argdefaults(f))
    IN  IF i > defstart THEN argdefaults(f)[i - defstart] ELSE <<>>

(* A row that cannot be scanned ends the process; an index out of range    *)
(* ends main, or the request that is listing.                              *)
RowFatal(f) == <<"g">> \in ToSet(argdefaults(f))
RowPanics(f) ==
    \E i \in 4..Len(f.params) : i > Len(argtypes(f)) \/ DefaultPanics(argdef(f, i))

(* Mutant: defaults belong to the first arguments.                         *)
Arguments_DefaultsFirst(f) ==
    [n \in {f.params[i].name : i \in 4..Len(f.params)} |->
        LET i == CHOOSE j \in 4..Len(f.params) : f.params[j].name = n
        IN  [order |-> i - 4, name |-> n, type |-> argtypes(f)[i].type,
             default |-> IF i - 3 <= Len(argdefaults(f))
                         THEN parseArgDefault(argdefaults(f)[i - 3]) ELSE <<>>]]

Arguments(f) ==
    [n \in {f.params[i].name : i \in 4..Len(f.params)} |->
        LET i == CHOOSE j \in 4..Len(f.params) : f.params[j].name = n
        IN  [order |-> i - 4, name |-> n, type |-> argtypes(f)[i].type,
             default |-> parseArgDefault(argdef(f, i))]]

getFunctionLayer(f) == [kind |-> "function", id |-> f.id, Arguments |-> Arguments(f)]

-----------------------------------------------------------------------------
(* The arguments a query gives, by exact name, in their first value.       *)
getFunctionArgs(lyr, q) ==
    [a \in DOMAIN lyr.Arguments \cap DOMAIN q |-> q[a][1]]

(* Mutant: the values are read in an order of their own.                   *)
requestSQL_Unpaired(lyr, tile, args, order) ==
    [function |-> lyr.id,
     keys |-> <<[name |-> "x", at |-> 1], [name |-> "y", at |-> 2], [name |-> "z", at |-> 3]>>
                \o [i \in DOMAIN order |-> [name |-> order[i], at |-> i + 3]],
     vals |-> <<tile.x, tile.y, tile.z>> \o [i \in DOMAIN order |-> args[SetToSeq(DOMAIN args)[i]]]]

(* The call, its arguments in the order a range over the map takes them.   *)
requestSQL(lyr, tile, args, order) ==
    [function |-> lyr.id,
     keys |-> <<[name |-> "x", at |-> 1], [name |-> "y", at |-> 2], [name |-> "z", at |-> 3]>>
                \o [i \in DOMAIN order |-> [name |-> order[i], at |-> i + 3]],
     vals |-> <<tile.x, tile.y, tile.z>> \o [i \in DOMAIN order |-> args[order[i]]]]

(* The arguments in the order of the declaration.                          *)
getFunctionDetailJSON(lyr) ==
    LET sorted == Sorted({lyr.Arguments[n] : n \in DOMAIN lyr.Arguments})
    IN  [i \in DOMAIN sorted |-> [name |-> sorted[i].name, type |-> sorted[i].type,
                                  default |-> sorted[i].default]]

-----------------------------------------------------------------------------
(* The database: an unquoted name is folded, every input parameter is      *)
(* named at most once and has a value or a default.                        *)
Named(call, n) == {i \in DOMAIN call.keys : Fold[call.keys[i].name] = n}

Refused(f, call) ==
    \/ \E i \in DOMAIN call.keys : Fold[call.keys[i].name] \notin {p.name : p \in Inputs(f)}
    \/ \E p \in Inputs(f) : \/ Cardinality(Named(call, p.name)) > 1
                            \/ Named(call, p.name) = {} /\ p.default = <<>>

(* What each parameter is bound to: a value of the call or the default.    *)
Bound(f, call) ==
    [n \in {p.name : p \in Inputs(f)} |->
        IF Named(call, n) = {} THEN <<"default">>
        ELSE <<"value", call.vals[call.keys[CHOOSE i \in Named(call, n) : TRUE].at]>>]
=============================================================================
