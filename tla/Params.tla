-------------------------------- MODULE Params --------------------------------
(***************************************************************************)
(* Scenario parameters (core/params.py).  The prose of a scenario is the   *)
(* sequence of its placeholders, each a name and a default it may state.   *)
(* The manifest declares some of the names.  Text is a set of values;      *)
(* Number gives what float() reads from one, in halves so that a whole     *)
(* number is an even one.                                                  *)
(***************************************************************************)
EXTENDS Integers

CONSTANTS
    Text,           \* the values a parameter may be given
    Empty,          \* the empty one
    Unset,          \* "not stated", where a default, a bound or choices may be
    Number,         \* value -> its number in halves, NaN, or Unset if it is none
    NaN,
    Truths          \* the values that read as true or false

ASSUME ParamsAssumption ==
    /\ Empty \in Text /\ Unset \notin Text
    /\ DOMAIN Number = Text /\ Number[Empty] = Unset
    /\ \A t \in Text : Number[t] \in Int \cup {NaN, Unset}
    /\ Truths \subseteq Text

Names(prose) == {prose[i].name : i \in DOMAIN prose}
Stated(prose, n) == {prose[i].default : i \in {j \in DOMAIN prose : prose[j].name = n}} \ {Unset}

\* the manifest's default wins over the one in the prose
Inline(prose, n) == IF Stated(prose, n) = {} THEN Unset ELSE CHOOSE d \in Stated(prose, n) : TRUE
DefaultOf(prose, decl, n) ==
    IF n \in DOMAIN decl /\ decl[n].default # Unset THEN decl[n].default ELSE Inline(prose, n)

Undeclared == [default |-> Unset, type |-> "string", choices |-> Unset,
               least |-> Unset, most |-> Unset]
Declared(decl, n) == IF n \in DOMAIN decl THEN decl[n] ELSE Undeclared

\* scan: two defaults of one name, a declaration no prose uses, a default that is
\* not one of the choices
ScanFails(prose, decl) ==
    \/ \E n \in Names(prose), d, e \in Text : d # e /\ {d, e} \subseteq Stated(prose, n)
    \/ ~(DOMAIN decl \subseteq Names(prose))
    \/ \E n \in Names(prose) :
          /\ Declared(decl, n).choices # Unset
          /\ DefaultOf(prose, decl, n) \notin Declared(decl, n).choices \cup {Unset}

Missing(prose, decl, supplied) ==
    {n \in Names(prose) : /\ DefaultOf(prose, decl, n) = Unset
                          /\ n \notin DOMAIN supplied \/ supplied[n] = Empty}

\* NaN is below no bound and above none, and int() of it raises, which ends the
\* launch as well
Below(x, bound) == bound # Unset /\ x # NaN /\ x < bound
OutOfRange(x, p) == Below(x, p.least) \/ (p.most # Unset /\ x # NaN /\ x > p.most)
NumberProblem(x, p) ==
    \/ x = Unset
    \/ p.type = "int" /\ (x = NaN \/ x % 2 = 1)
    \/ OutOfRange(x, p)

\* what validate_values says of one supplied value
Problem(value, p) ==
    /\ value # Empty
    /\ \/ p.choices # Unset /\ value \notin p.choices
       \/ p.type \in {"int", "number"} /\ NumberProblem(Number[value], p)
       \/ p.type = "bool" /\ value \notin Truths

Problems(prose, decl, supplied) ==
    {n \in DOMAIN supplied : n \notin Names(prose) \/ Problem(supplied[n], Declared(decl, n))}

\* bug: an empty value counts as a value
ResolveBlank(prose, decl, supplied) ==
    [n \in Names(prose) |->
        IF n \in DOMAIN supplied THEN supplied[n]
        ELSE IF DefaultOf(prose, decl, n) # Unset THEN DefaultOf(prose, decl, n) ELSE Empty]

\* what was supplied, else the default, else empty
Resolve(prose, decl, supplied) ==
    [n \in Names(prose) |->
        IF n \in DOMAIN supplied /\ supplied[n] # Empty THEN supplied[n]
        ELSE IF DefaultOf(prose, decl, n) # Unset THEN DefaultOf(prose, decl, n) ELSE Empty]

\* a launch may go on with these values; consent is to run with holes
Bindable(prose, decl, supplied, consent) ==
    /\ ~ScanFails(prose, decl)
    /\ Problems(prose, decl, supplied) = {}
    /\ consent \/ Missing(prose, decl, supplied) = {}
===============================================================================
