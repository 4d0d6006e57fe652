----------------------------- MODULE Dictionary -----------------------------
(***************************************************************************)
(* The Dictionary of Data.c: a sorted array that bsearch looks through.    *)
(* An insertion uses what the comparison callback saw last, its position   *)
(* and its result (dataCompareLastTouchedPtr, dataCompareLastResult), as   *)
(* the place of the new element; that is right only if the search went all *)
(* the way down to it.                                                     *)
(*                                                                         *)
(* bsearch is the C library's and the libraries differ in which element of *)
(* the remaining range they look at: Probe takes any of them.  Keys are    *)
(* numbers, ordered as DataCompare orders them.                            *)
(***************************************************************************)
EXTENDS Integers, Sequences

CONSTANTS
    DictKeys,    \* the keys, in the order of DataCompare
    DictValues,  \* the values
    NoValue      \* DataNull()

ASSUME DictionaryAssumption == DictKeys \subseteq Int /\ NoValue \notin DictValues

VARIABLES
    entries,  \* keysAndValues: a sequence of [key, value]
    search,   \* the operation and its search: [op, key, value, lo, hi, touched, last, found]
    answer    \* what the last DictionaryGetValue returned

dictVars == <<entries, search, answer>>

Entry == [key : DictKeys, value : DictValues]
Idle == [op |-> "idle"]
Searching == [op : {"add", "remove", "get"}, key : DictKeys, value : DictValues,
              lo : Nat \ {0}, hi : Nat \ {0}, touched : Nat, last : {-1, 0, 1}, found : Nat]

\* compareKeys: the sign is all that is used of the result.
Compare(a, b) == IF a < b THEN -1 ELSE IF a > b THEN 1 ELSE 0

\* DatasAddRefIndexFlexible and DatasRemove.
InsertEntry(s, i, e) ==
    [j \in 1 .. Len(s) + 1 |-> IF j < i THEN s[j] ELSE IF j = i THEN e ELSE s[j - 1]]
RemoveEntry(s, i) == [j \in 1 .. Len(s) - 1 |-> IF j < i THEN s[j] ELSE s[j + 1]]

DictInit == entries = <<>> /\ search = Idle /\ answer = NoValue

\* DictionaryAddRefFlexible, DictionaryRemove and DictionaryGetValueFlexible
\* call DatasSearch with curDict set.
Begin(op, k, v) ==
    /\ search = Idle
    /\ search' = [op |-> op, key |-> k, value |-> v, lo |-> 1, hi |-> Len(entries) + 1,
                  touched |-> 0, last |-> 0, found |-> 0]
    /\ UNCHANGED <<entries, answer>>

\* bsearch calls compareDatas with an element of lo .. hi - 1.
Probe(i) ==
    /\ search # Idle
    /\ search.lo <= i /\ i < search.hi
    /\ LET c == Compare(search.key, entries[i].key)
       IN  search' = [search EXCEPT
                        !.touched = i, !.last = c,
                        !.found = IF c = 0 THEN i ELSE 0,
                        !.lo = IF c = 1 THEN i + 1 ELSE IF c = 0 THEN i ELSE @,
                        !.hi = IF c = 1 THEN @ ELSE i]
    /\ UNCHANGED <<entries, answer>>

SearchDone == search # Idle /\ search.lo = search.hi

\* Mutant: the element goes before the one that was touched last.
PlaceOfTouched == IF search.touched = 0 THEN 1 ELSE search.touched

\* Where DictionaryAddRefFlexible inserts.
Place ==
    IF search.touched = 0 THEN 1
    ELSE IF search.last = 1 THEN search.touched + 1 ELSE search.touched

\* The rest of DictionaryAddRefFlexible: an element with the same key makes room.
Add ==
    /\ SearchDone /\ search.op = "add"
    /\ entries' = InsertEntry(IF search.found = 0 THEN entries
                              ELSE RemoveEntry(entries, search.found),
                              Place, [key |-> search.key, value |-> search.value])
    /\ search' = Idle
    /\ UNCHANGED answer

DictionaryRemove ==
    /\ SearchDone /\ search.op = "remove"
    /\ entries' = IF search.found = 0 THEN entries ELSE RemoveEntry(entries, search.found)
    /\ search' = Idle
    /\ UNCHANGED answer

\* Mutant: the value of what was touched last, as if it were the key's.
GetTouched ==
    /\ SearchDone /\ search.op = "get"
    /\ answer' = IF search.touched = 0 THEN NoValue ELSE entries[search.touched].value
    /\ search' = Idle
    /\ UNCHANGED entries

Get ==
    /\ SearchDone /\ search.op = "get"
    /\ answer' = IF search.found = 0 THEN NoValue ELSE entries[search.found].value
    /\ search' = Idle
    /\ UNCHANGED entries

\* DictRemoveIndex.
RemoveIndex(i) ==
    /\ search = Idle /\ i \in 1 .. Len(entries)
    /\ entries' = RemoveEntry(entries, i)
    /\ UNCHANGED <<search, answer>>

DictNext ==
    \/ \E op \in {"add", "remove", "get"}, k \in DictKeys, v \in DictValues : Begin(op, k, v)
    \/ \E i \in 1 .. Len(entries) : Probe(i) \/ RemoveIndex(i)
    \/ Add \/ DictionaryRemove \/ Get

DictSpec == DictInit /\ [][DictNext]_dictVars

-----------------------------------------------------------------------------
(* Properties.                                                             *)

DictTypeOK ==
    /\ entries \in Seq(Entry)
    /\ search = Idle \/ search \in Searching
    /\ answer \in DictValues \cup {NoValue}

\* The search has excluded what is outside its range, and what it has touched
\* last borders on the range.
SearchInv ==
    search # Idle =>
        LET s == search
        IN  /\ s.lo <= s.hi /\ s.hi <= Len(entries) + 1
            /\ \A i \in 1 .. Len(entries) : i < s.lo => entries[i].key < s.key
            /\ \A i \in 1 .. Len(entries) :
                  i >= s.hi => entries[i].key > s.key \/ (s.found # 0 /\ i >= s.found)
            /\ s.found # 0 => /\ s.found \in 1 .. Len(entries) /\ s.touched = s.found
                              /\ s.last = 0 /\ entries[s.found].key = s.key
                              /\ s.lo = s.found /\ s.hi = s.found
            /\ s.found = 0 => \/ s.touched = 0 /\ s.lo = 1 /\ s.hi = Len(entries) + 1
                              \/ s.last = 1 /\ s.lo = s.touched + 1
                              \/ s.last = -1 /\ s.hi = s.touched /\ s.touched # 0

\* Whatever element of the remaining range bsearch looks at, and however the
\* calls follow each other, the array stays strictly sorted by key: the
\* position taken from the comparison callback is the one the key belongs to,
\* also when an equal key was removed first.  Nothing would be found otherwise.
DictionarySorted ==
    \A i, j \in 1 .. Len(entries) : i < j => entries[i].key < entries[j].key

\* The call a search belongs to.
RequestOf(s) ==
    IF s = Idle THEN Idle ELSE [op |-> s.op, key |-> s.key, value |-> s.value]

\* The sorted array is the map that it stands for.
Map == INSTANCE FiniteMap WITH
           MapKeys <- DictKeys, MapValues <- DictValues, reply <- answer,
           request <- RequestOf(search),
           pairs <- {<<entries[i].key, entries[i].value>> : i \in 1 .. Len(entries)}

\* The dictionary implements a finite map: an addition replaces the value of
\* its key and nothing else, a removal takes out its key and nothing else, and
\* a lookup answers with the value that was added last for the key it is about.
DictionaryIsMap == Map!MapSpec
=============================================================================
