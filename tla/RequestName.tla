---------------------------- MODULE RequestName ----------------------------
(***************************************************************************)
(* GenerateDeterministicName, called for two requests.  Go iterates over a *)
(* map in any order, so the keys of the parameters are collected in any    *)
(* order and sorted before they are hashed.                                *)
(*                                                                         *)
(* Texts are sequences of characters.  One hasher is fed with the resolver *)
(* name and then with every key and value; the hash is taken to have no    *)
(* collisions, so it is the text that was written.                         *)
(***************************************************************************)
EXTENDS Integers, Sequences, FiniteSets, Functions

CONSTANTS
    Characters,  \* the characters of texts, as numbers
    MaxText,     \* bound on the length of texts
    MaxKeys      \* bound on the number of parameters

ASSUME NameAssumption == Characters \subseteq Int

Texts == UNION {[1 .. n -> Characters] : n \in 0 .. MaxText}

\* The resolver name and the parameters of a request.  Resolver names and
\* keys are not empty; values may be.
Words == Texts \ {<<>>}

RequestInfos ==
    UNION {[base : Words, params : [keys -> Texts]] :
             keys \in {K \in SUBSET Words : Cardinality(K) <= MaxKeys}}

VARIABLES
    request,    \* request[c]: the arguments of call c, 1 or 2
    call,       \* the call under way; 3 when both have returned
    todo,       \* keys the iteration over the map has not reached
    paramKeys,  \* the keys collected
    written,    \* what the hasher has been given, <<>> before the sort
    sorted,     \* have the keys been sorted?
    name        \* name[c]: what call c returned

vars == <<request, call, todo, paramKeys, written, sorted, name>>

NoName == <<>>

Init ==
    /\ request \in [1 .. 2 -> RequestInfos]
    /\ call = 1
    /\ todo = DOMAIN request[1].params
    /\ paramKeys = <<>>
    /\ written = <<>>
    /\ sorted = FALSE
    /\ name = [c \in 1 .. 2 |-> NoName]

-----------------------------------------------------------------------------
\* The order of sort.Strings: at the first place where they differ, a has
\* ended or has the smaller character.
Less(a, b) ==
    \E i \in 1 .. Len(b) :
        /\ i <= Len(a) + 1
        /\ i <= Len(a) => a[i] < b[i]
        /\ \A j \in 1 .. i - 1 : a[j] = b[j]

Ascending(keys) == \A i, j \in DOMAIN keys : i < j => Less(keys[i], keys[j])

\* sort.Strings, for keys that are all different.
SortStrings(keys) ==
    {ordered \in [DOMAIN keys -> Range(keys)] :
        Range(ordered) = Range(keys) /\ Ascending(ordered)}

\* for key := range params
CollectKey ==
    /\ call <= 2
    /\ \E key \in todo :
         /\ todo' = todo \ {key}
         /\ paramKeys' = Append(paramKeys, key)
    /\ UNCHANGED <<request, call, written, sorted, name>>

\* Mutant: the keys are hashed in the order of the iteration.
StartUnsorted ==
    /\ call <= 2
    /\ todo = {} /\ ~sorted
    /\ written' = request[call].base
    /\ sorted' = TRUE
    /\ UNCHANGED <<request, call, todo, paramKeys, name>>

\* Hash the resolver name and sort the keys.
StartHashing ==
    /\ call <= 2
    /\ todo = {} /\ ~sorted
    /\ written' = request[call].base
    /\ paramKeys' \in SortStrings(paramKeys)
    /\ sorted' = TRUE
    /\ UNCHANGED <<request, call, todo, name>>

\* Mutant: the values are left out.
HashKeyOnly ==
    /\ sorted
    /\ paramKeys # <<>>
    /\ written' = written \o Head(paramKeys)
    /\ paramKeys' = Tail(paramKeys)
    /\ UNCHANGED <<request, call, todo, sorted, name>>

\* Hash the next key and its value.
HashParam ==
    /\ sorted
    /\ paramKeys # <<>>
    /\ written' = written \o Head(paramKeys)
                          \o request[call].params[Head(paramKeys)]
    /\ paramKeys' = Tail(paramKeys)
    /\ UNCHANGED <<request, call, todo, sorted, name>>

\* Return the name; the other call begins.
ReturnName ==
    /\ sorted
    /\ paramKeys = <<>>
    /\ name' = [name EXCEPT ![call] = written]
    /\ call' = call + 1
    /\ todo' = IF call = 1 THEN DOMAIN request[2].params ELSE {}
    /\ sorted' = FALSE
    /\ written' = <<>>
    /\ UNCHANGED <<request, paramKeys>>

Next == CollectKey \/ StartHashing \/ HashParam \/ ReturnName

Spec == Init /\ [][Next]_vars

-----------------------------------------------------------------------------
(***************************************************************************)
(* Properties.                                                             *)
(***************************************************************************)
BothNamed == call = 3
SameName == name[1] = name[2]

\* The name of a request is reproducible: it does not depend on the order
\* in which the map of parameters happens to be iterated.
Reproducible == BothNamed /\ request[1] = request[2] => SameName

\* Requests to the same resolver with the same keys and values of the same
\* lengths only share a name if they are the same request.
ValuesTellApart ==
    /\ BothNamed
    /\ request[1].base = request[2].base
    /\ DOMAIN request[1].params = DOMAIN request[2].params
    /\ \A key \in DOMAIN request[1].params :
         Len(request[1].params[key]) = Len(request[2].params[key])
    /\ SameName
    => request[1] = request[2]
=============================================================================
