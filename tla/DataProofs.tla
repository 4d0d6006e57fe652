----------------------------- MODULE DataProofs -----------------------------
(***************************************************************************)
(* Proofs about the structures that hold data: Dictionary, for every set   *)
(* of keys and of values and every order in which bsearch may probe; the   *)
(* Bloom filter, which has no false negatives for any hash function, size, *)
(* number of hashes and set of elements; and the pools of memory, which    *)
(* own what they hold for any number of blocks and pools.                  *)
(***************************************************************************)
EXTENDS Dictionary, BloomFilter, DataPool, SequenceTheorems, FiniteSetTheorems, TLAPS

-----------------------------------------------------------------------------
(* Dictionary *)

\* What holds of the dictionary between any two steps.
DictInv == DictTypeOK /\ DictionarySorted /\ SearchInv

\* An insertion yields a sequence of one entry more.
LEMMA InsertType ==
    ASSUME NEW s \in Seq(Entry), NEW i \in 1 .. Len(s) + 1, NEW e \in Entry
    PROVE  /\ InsertEntry(s, i, e) \in Seq(Entry)
           /\ Len(InsertEntry(s, i, e)) = Len(s) + 1
           /\ \A j \in 1 .. Len(s) + 1 :
                 InsertEntry(s, i, e)[j] = IF j < i THEN s[j] ELSE IF j = i THEN e ELSE s[j - 1]
<1>1. \A j \in 1 .. Len(s) + 1 :
         (IF j < i THEN s[j] ELSE IF j = i THEN e ELSE s[j - 1]) \in Entry
  OBVIOUS
<1>2. Len(s) + 1 \in Nat
  OBVIOUS
<1> QED
  BY <1>1, <1>2 DEF InsertEntry

\* A removal yields a sequence of one entry less.
LEMMA RemoveType ==
    ASSUME NEW s \in Seq(Entry), NEW i \in 1 .. Len(s)
    PROVE  /\ RemoveEntry(s, i) \in Seq(Entry)
           /\ Len(RemoveEntry(s, i)) = Len(s) - 1
           /\ \A j \in 1 .. Len(s) - 1 :
                 RemoveEntry(s, i)[j] = IF j < i THEN s[j] ELSE s[j + 1]
<1>1. \A j \in 1 .. Len(s) - 1 : (IF j < i THEN s[j] ELSE s[j + 1]) \in Entry
  OBVIOUS
<1>2. Len(s) - 1 \in Nat
  OBVIOUS
<1> QED
  BY <1>1, <1>2 DEF RemoveEntry

\* The keys of the entries and of a search are numbers.
LEMMA EntryFields == \A e \in Entry : e.key \in Int /\ e.value \in DictValues
BY DictionaryAssumption DEF Entry

\* The key of a search under way is a number.
LEMMA SearchKey == ASSUME search \in Searching PROVE search.key \in Int
BY DictionaryAssumption DEF Searching

\* The fields of a search under way.
LEMMA SearchRange ==
    ASSUME search \in Searching
    PROVE  /\ search.lo \in Nat \ {0} /\ search.hi \in Nat \ {0}
           /\ search.touched \in Nat /\ search.found \in Nat /\ search.last \in {-1, 0, 1}
BY DEF Searching

\* An empty dictionary is sorted.
LEMMA DictInitInv == DictInit => DictInv
BY DictionaryAssumption DEF DictInit, DictInv, DictTypeOK, DictionarySorted, SearchInv, Idle

\* Idle is not a search.
LEMMA IdleIsNone == Idle \notin Searching
BY DEF Idle, Searching

\* One step of the dictionary preserves its invariant.
LEMMA DictStep == DictInv /\ [DictNext]_dictVars => DictInv'
<1> SUFFICES ASSUME DictInv, [DictNext]_dictVars PROVE DictInv'
  OBVIOUS
<1>e. entries \in Seq(Entry) /\ Len(entries) \in Nat
  BY DEF DictInv, DictTypeOK
<1>1. ASSUME NEW op \in {"add", "remove", "get"}, NEW k \in DictKeys, NEW v \in DictValues,
             Begin(op, k, v)
      PROVE  DictInv'
  <2>1. search' \in Searching /\ search'.lo = 1 /\ search'.hi = Len(entries) + 1
        /\ search'.touched = 0 /\ search'.found = 0
    BY <1>1, <1>e DEF Begin, Searching
  <2>2. entries' = entries /\ answer' = answer
    BY <1>1 DEF Begin
  <2> QED
    BY <2>1, <2>2, <1>e DEF DictInv, DictTypeOK, DictionarySorted, SearchInv
<1>2. ASSUME NEW i \in 1 .. Len(entries), Probe(i)
      PROVE  DictInv'
  <2>1. search \in Searching /\ search # Idle
    BY <1>2 DEF DictInv, DictTypeOK, Probe
  <2>2. entries[i] \in Entry /\ entries[i].key \in Int /\ search.key \in Int
    BY <1>e, <2>1, EntryFields, SearchKey
  <2> DEFINE c == Compare(search.key, entries[i].key)
  <2>3. c \in {-1, 0, 1}
    BY DEF Compare
  <2>4. /\ search'.op = search.op /\ search'.key = search.key /\ search'.value = search.value
        /\ search'.touched = i /\ search'.last = c
        /\ search'.found = (IF c = 0 THEN i ELSE 0)
        /\ search'.lo = (IF c = 1 THEN i + 1 ELSE IF c = 0 THEN i ELSE search.lo)
        /\ search'.hi = (IF c = 1 THEN search.hi ELSE i)
    BY <1>2, <2>1 DEF Probe, Searching
  <2>4a. search' \in Searching
    <3>1. search'.lo \in Nat \ {0} /\ search'.hi \in Nat \ {0} /\ search'.found \in Nat
      BY <2>1, <2>3, <2>4, <1>e, SearchRange
    <3>2. search' = [op |-> search.op, key |-> search.key, value |-> search.value,
                     lo |-> search'.lo, hi |-> search'.hi, touched |-> i, last |-> c,
                     found |-> search'.found]
      BY <1>2, <2>1 DEF Probe, Searching
    <3> HIDE DEF c
    <3> QED
      BY <3>1, <3>2, <2>1, <2>3, <1>e DEF Searching
  <2>5. entries' = entries /\ answer' = answer /\ search.lo <= i /\ i < search.hi
    BY <1>2 DEF Probe
  <2>6. DictTypeOK' /\ DictionarySorted'
    BY <2>4a, <2>5 DEF DictInv, DictTypeOK, DictionarySorted
  <2>7. \A j \in 1 .. Len(entries) : entries[j].key \in Int
    BY <1>e, EntryFields
  <2>8. search.found = 0
    BY <2>1, <2>5, SearchRange DEF DictInv, SearchInv
  <2>S. /\ search.lo \in Nat \ {0} /\ search.hi \in Nat /\ search.hi <= Len(entries) + 1
        /\ \A j \in 1 .. Len(entries) : j < search.lo => entries[j].key < search.key
        /\ \A j \in 1 .. Len(entries) : j >= search.hi => entries[j].key > search.key
    BY <2>1, <2>8, SearchRange DEF DictInv, SearchInv
  <2>T. \A m, n \in 1 .. Len(entries) : m < n => entries[m].key < entries[n].key
    BY DEF DictInv, DictionarySorted
  <2> DEFINE t == search'
  <2>U. /\ t.key = search.key /\ t.touched = i /\ t.last = c
        /\ t.found = (IF c = 0 THEN i ELSE 0)
        /\ t.lo = (IF c = 1 THEN i + 1 ELSE IF c = 0 THEN i ELSE search.lo)
        /\ t.hi = (IF c = 1 THEN search.hi ELSE i)
    BY <2>4
  <2>9. SearchInv'
    <3> SUFFICES
          /\ t.lo <= t.hi /\ t.hi <= Len(entries) + 1
          /\ \A j \in 1 .. Len(entries) : j < t.lo => entries[j].key < search.key
          /\ \A j \in 1 .. Len(entries) :
                j >= t.hi => entries[j].key > search.key \/ (t.found # 0 /\ j >= t.found)
          /\ t.found # 0 => /\ t.found \in 1 .. Len(entries) /\ t.touched = t.found
                            /\ t.last = 0 /\ entries[t.found].key = search.key
                            /\ t.lo = t.found /\ t.hi = t.found
          /\ t.found = 0 => \/ t.touched = 0 /\ t.lo = 1 /\ t.hi = Len(entries) + 1
                            \/ t.last = 1 /\ t.lo = t.touched + 1
                            \/ t.last = -1 /\ t.hi = t.touched /\ t.touched # 0
      BY <2>5, <2>U DEF SearchInv
    <3> HIDE DEF t, c
    <3>1. CASE search.key < entries[i].key
      <4>1. c = -1
        BY <3>1, <2>2 DEF Compare, c
      <4> QED
        BY <4>1, <3>1, <2>S, <2>T, <2>U, <2>2, <2>5, <2>7, <1>e
    <3>2. CASE search.key > entries[i].key
      <4>1. c = 1
        BY <3>2, <2>2 DEF Compare, c
      <4> QED
        BY <4>1, <3>2, <2>S, <2>T, <2>U, <2>2, <2>5, <2>7, <1>e
    <3>3. CASE search.key = entries[i].key
      <4>1. c = 0
        BY <3>3, <2>2 DEF Compare, c
      <4> QED
        BY <4>1, <3>3, <2>S, <2>T, <2>U, <2>2, <2>5, <2>7, <1>e
    <3> QED
      BY <3>1, <3>2, <3>3, <2>2
  <2> QED
    BY <2>6, <2>9 DEF DictInv
<1>r. ASSUME NEW i \in 1 .. Len(entries), entries' = RemoveEntry(entries, i),
             search' = Idle, answer' \in DictValues \cup {NoValue}
      PROVE  DictInv'
  <2>1. \A j \in 1 .. Len(entries) : entries[j].key \in Int
    BY <1>e, EntryFields
  <2>2. entries' \in Seq(Entry) /\ DictTypeOK'
    BY <1>r, <1>e, RemoveType DEF DictTypeOK
  <2>3. DictionarySorted'
    <3>1. /\ Len(entries') = Len(entries) - 1
          /\ \A j \in 1 .. Len(entries) - 1 :
                entries'[j] = IF j < i THEN entries[j] ELSE entries[j + 1]
      BY <1>r, <1>e, RemoveType
    <3>2. ASSUME NEW m \in 1 .. Len(entries'), NEW n \in 1 .. Len(entries'), m < n
          PROVE  entries'[m].key < entries'[n].key
      <4> DEFINE at(x) == IF x < i THEN x ELSE x + 1
      <4>1. at(m) \in 1 .. Len(entries) /\ at(n) \in 1 .. Len(entries) /\ at(m) < at(n)
        BY <3>1, <3>2, <1>e
      <4>2. entries'[m] = entries[at(m)] /\ entries'[n] = entries[at(n)]
        BY <3>1, <1>e
      <4> HIDE DEF at
      <4> QED
        BY <4>1, <4>2 DEF DictInv, DictionarySorted
    <3> QED
      BY <3>2 DEF DictionarySorted
  <2>4. SearchInv'
    BY <1>r DEF SearchInv
  <2> QED
    BY <2>2, <2>3, <2>4 DEF DictInv
<1>3. CASE Add
  <2>1. search \in Searching /\ search.lo = search.hi
    BY <1>3, IdleIsNone DEF DictInv, DictTypeOK, Add, SearchDone
  <2> DEFINE e == [key |-> search.key, value |-> search.value]
             t == IF search.found = 0 THEN entries ELSE RemoveEntry(entries, search.found)
  <2>2. e \in Entry /\ e.key = search.key /\ search.key \in Int
    BY <2>1, SearchKey DEF Searching, Entry
  <2>3. /\ t \in Seq(Entry) /\ Place \in 1 .. Len(t) + 1
        /\ \A j \in 1 .. Len(t) : t[j].key \in Int
        /\ \A i, j \in 1 .. Len(t) : i < j => t[i].key < t[j].key
        /\ \A j \in 1 .. Len(t) : j < Place => t[j].key < search.key
        /\ \A j \in 1 .. Len(t) : j >= Place => t[j].key > search.key
    <3>0. \A j \in 1 .. Len(entries) : entries[j].key \in Int
      BY <1>e, EntryFields
    <3>0a. search # Idle
      BY <2>1, IdleIsNone
    <3>1. CASE search.found = 0
      <4>1. t = entries
        BY <3>1
      <4>2. Place = search.lo
        BY <3>0a, <3>1, <2>1, <1>e, SearchRange DEF Place, DictInv, SearchInv
      <4> QED
        BY <4>1, <4>2, <3>0, <3>0a, <3>1, <2>1, <2>2, <1>e, SearchRange
        DEF DictInv, SearchInv, DictionarySorted
    <3>2. CASE search.found # 0
      <4>1. search.found \in 1 .. Len(entries) /\ entries[search.found].key = search.key
            /\ search.touched = search.found /\ search.last = 0
        BY <3>0a, <3>2 DEF DictInv, SearchInv
      <4>2. Place = search.found
        BY <4>1 DEF Place
      <4>3. /\ t = RemoveEntry(entries, search.found) /\ t \in Seq(Entry)
            /\ Len(t) = Len(entries) - 1
            /\ \A j \in 1 .. Len(entries) - 1 :
                  t[j] = IF j < search.found THEN entries[j] ELSE entries[j + 1]
        BY <4>1, <3>2, <1>e, RemoveType
      <4> HIDE DEF t
      <4> QED
        <5>1. \A m, n \in 1 .. Len(entries) : m < n => entries[m].key < entries[n].key
          BY DEF DictInv, DictionarySorted
        <5>2. \A j \in 1 .. Len(t) : t[j].key \in Int
          BY <4>3, <3>0, <1>e
        <5>3. ASSUME NEW m \in 1 .. Len(t), NEW n \in 1 .. Len(t), m < n
              PROVE  t[m].key < t[n].key
          <6> DEFINE at(x) == IF x < search.found THEN x ELSE x + 1
          <6>1. at(m) \in 1 .. Len(entries) /\ at(n) \in 1 .. Len(entries) /\ at(m) < at(n)
            BY <5>3, <4>1, <4>3, <1>e
          <6>2. t[m] = entries[at(m)] /\ t[n] = entries[at(n)]
            BY <4>1, <4>3, <1>e
          <6> HIDE DEF at
          <6> QED
            BY <6>1, <6>2, <5>1
        <5>4. ASSUME NEW j \in 1 .. Len(t)
              PROVE  /\ j < Place => t[j].key < search.key
                     /\ j >= Place => t[j].key > search.key
          <6>1. CASE j < search.found
            <7>1. t[j] = entries[j] /\ j \in 1 .. Len(entries)
              BY <6>1, <4>1, <4>3, <1>e
            <7>2. t[j].key < search.key
              BY <7>1, <6>1, <5>1, <4>1
            <7> QED
              BY <7>2, <6>1, <4>1, <4>2
          <6>2. CASE ~(j < search.found)
            <7>1. /\ t[j] = entries[j + 1] /\ j + 1 \in 1 .. Len(entries)
                  /\ search.found < j + 1
              BY <6>2, <4>1, <4>3, <1>e
            <7>2. entries[search.found].key < entries[j + 1].key
              BY <7>1, <5>1, <4>1
            <7>3. t[j].key \in Int /\ search.key \in Int
              BY <2>2, <5>2
            <7> QED
              BY <7>1, <7>2, <7>3, <6>2, <4>1, <4>2
          <6> QED
            BY <6>1, <6>2
        <5> QED
          BY <5>2, <5>3, <5>4, <4>1, <4>2, <4>3, <1>e
    <3> QED
      BY <3>1, <3>2
  <2>4. entries' = InsertEntry(t, Place, e) /\ search' = Idle /\ answer' = answer
    BY <1>3 DEF Add
  <2> HIDE DEF t, e
  <2>5. /\ entries' \in Seq(Entry) /\ Len(entries') = Len(t) + 1
        /\ \A j \in 1 .. Len(t) + 1 :
              entries'[j] = IF j < Place THEN t[j] ELSE IF j = Place THEN e ELSE t[j - 1]
    <3>1. t \in Seq(Entry) /\ Place \in 1 .. Len(t) + 1 /\ e \in Entry
      BY <2>2, <2>3
    <3>2. /\ InsertEntry(t, Place, e) \in Seq(Entry)
          /\ Len(InsertEntry(t, Place, e)) = Len(t) + 1
          /\ \A j \in 1 .. Len(t) + 1 : InsertEntry(t, Place, e)[j] =
                IF j < Place THEN t[j] ELSE IF j = Place THEN e ELSE t[j - 1]
      BY <3>1, InsertType
    <3> QED
      BY <3>1, <3>2, <2>4
  <2>6. ASSUME NEW m \in 1 .. Len(entries'), NEW n \in 1 .. Len(entries'), m < n
        PROVE  entries'[m].key < entries'[n].key
    <3>1. Len(t) \in Nat /\ Place \in 1 .. Len(t) + 1
      BY <2>3
    <3> QED
      <4>1. m \in 1 .. Len(t) + 1 /\ n \in 1 .. Len(t) + 1
        BY <2>5
      <4>2. CASE n < Place
        <5>1. entries'[m] = t[m] /\ entries'[n] = t[n] /\ m \in 1 .. Len(t) /\ n \in 1 .. Len(t)
          BY <4>1, <4>2, <2>5, <2>6, <3>1
        <5> QED
          BY <5>1, <2>3, <2>6
      <4>3. CASE n = Place
        <5>1. entries'[m] = t[m] /\ entries'[n] = e /\ m \in 1 .. Len(t) /\ m < Place
          BY <4>1, <4>3, <2>5, <2>6, <3>1
        <5> QED
          BY <5>1, <2>2, <2>3
      <4>4. CASE n > Place /\ m = Place
        <5>1. entries'[m] = e /\ entries'[n] = t[n - 1] /\ n - 1 \in 1 .. Len(t) /\ n - 1 >= Place
          BY <4>1, <4>4, <2>5, <2>6, <3>1
        <5> QED
          BY <5>1, <2>2, <2>3
      <4>5. CASE n > Place /\ m < Place
        <5>1. /\ entries'[m] = t[m] /\ entries'[n] = t[n - 1] /\ n - 1 >= Place
              /\ m \in 1 .. Len(t) /\ n - 1 \in 1 .. Len(t)
          BY <4>1, <4>5, <2>5, <2>6, <3>1
        <5>2. t[m].key < search.key /\ t[n - 1].key > search.key
          BY <5>1, <4>5, <2>3
        <5> QED
          BY <5>1, <5>2, <2>2, <2>3
      <4>6. CASE n > Place /\ m > Place
        <5>1. /\ entries'[m] = t[m - 1] /\ entries'[n] = t[n - 1] /\ m - 1 < n - 1
              /\ m - 1 \in 1 .. Len(t) /\ n - 1 \in 1 .. Len(t)
          BY <4>1, <4>6, <2>5, <2>6, <3>1
        <5> QED
          BY <5>1, <2>3
      <4> QED
        BY <4>1, <4>2, <4>3, <4>4, <4>5, <4>6, <3>1
  <2> QED
    BY <2>4, <2>5, <2>6 DEF DictInv, DictTypeOK, DictionarySorted, SearchInv
<1>4. CASE DictionaryRemove
  <2>1. search # Idle
    BY <1>4 DEF DictionaryRemove, SearchDone
  <2>2. CASE search.found = 0
    BY <1>4, <2>2 DEF DictionaryRemove, DictInv, DictTypeOK, DictionarySorted, SearchInv
  <2>3. CASE search.found # 0
    <3>1. search.found \in 1 .. Len(entries)
      BY <2>1, <2>3 DEF DictInv, SearchInv
    <3> QED
      BY <3>1, <2>3, <1>4, <1>r DEF DictionaryRemove, DictInv, DictTypeOK
  <2> QED
    BY <2>2, <2>3
<1>5. CASE Get
  <2>1. search # Idle
    BY <1>5 DEF Get, SearchDone
  <2>2. search.found # 0 => search.found \in 1 .. Len(entries)
    BY <2>1 DEF DictInv, SearchInv
  <2>3. answer' \in DictValues \cup {NoValue}
    BY <1>5, <1>e, <2>2, EntryFields DEF Get, DictInv, DictTypeOK
  <2> QED
    BY <1>5, <2>3 DEF Get, DictInv, DictTypeOK, DictionarySorted, SearchInv
<1>6. ASSUME NEW i \in 1 .. Len(entries), RemoveIndex(i)
      PROVE  DictInv'
  BY <1>6, <1>r DEF RemoveIndex, DictInv, DictTypeOK
<1>7. CASE UNCHANGED dictVars
  BY <1>7 DEF dictVars, DictInv, DictTypeOK, DictionarySorted, SearchInv
<1> QED
  BY <1>1, <1>2, <1>3, <1>4, <1>5, <1>6, <1>7 DEF DictNext

\* The array of a dictionary is strictly sorted at all times, whatever keys are
\* added and removed and however the C library's bsearch chooses its probes.
THEOREM DictionaryStaysSorted == DictSpec => []DictionarySorted
<1>1. DictInv => DictionarySorted
  BY DEF DictInv
<1> QED
  BY <1>1, DictInitInv, DictStep, PTL DEF DictSpec

-----------------------------------------------------------------------------
(* The dictionary implements a finite map.                                 *)

Pairs(s) == {<<s[i].key, s[i].value>> : i \in 1 .. Len(s)}

\* Inserting an entry adds its pair.
LEMMA InsertPairs ==
    ASSUME NEW s \in Seq(Entry), NEW i \in 1 .. Len(s) + 1, NEW e \in Entry
    PROVE  Pairs(InsertEntry(s, i, e)) = Pairs(s) \cup {<<e.key, e.value>>}
<1> DEFINE t == InsertEntry(s, i, e)
<1>1. /\ Len(t) = Len(s) + 1 /\ Len(s) \in Nat
      /\ \A j \in 1 .. Len(s) + 1 : t[j] = IF j < i THEN s[j] ELSE IF j = i THEN e ELSE s[j - 1]
  BY InsertType
<1> HIDE DEF t
<1>2. ASSUME NEW p \in Pairs(t) PROVE p \in Pairs(s) \cup {<<e.key, e.value>>}
  <2>1. PICK j \in 1 .. Len(t) : p = <<t[j].key, t[j].value>>
    BY DEF Pairs
  <2>2. CASE j < i
    <3>1. t[j] = s[j] /\ j \in 1 .. Len(s)
      BY <1>1, <2>2
    <3> QED
      BY <2>1, <3>1 DEF Pairs
  <2>3. CASE j = i
    <3>1. t[j] = e
      BY <1>1, <2>3
    <3> QED
      BY <2>1, <3>1
  <2>4. CASE j > i
    <3>1. t[j] = s[j - 1] /\ j - 1 \in 1 .. Len(s)
      BY <1>1, <2>4
    <3> QED
      BY <2>1, <3>1 DEF Pairs
  <2> QED
    BY <2>2, <2>3, <2>4, <1>1
<1>3. ASSUME NEW p \in Pairs(s) PROVE p \in Pairs(t)
  <2>1. PICK j \in 1 .. Len(s) : p = <<s[j].key, s[j].value>>
    BY DEF Pairs
  <2>2. CASE j < i
    <3>1. t[j] = s[j] /\ j \in 1 .. Len(t)
      BY <1>1, <2>2
    <3> QED
      BY <2>1, <3>1 DEF Pairs
  <2>3. CASE j >= i
    <3>1. t[j + 1] = s[j] /\ j + 1 \in 1 .. Len(t)
      BY <1>1, <2>3
    <3> QED
      BY <2>1, <3>1 DEF Pairs
  <2> QED
    BY <2>2, <2>3
<1>4. <<e.key, e.value>> \in Pairs(t)
  <2>1. t[i] = e /\ i \in 1 .. Len(t)
    BY <1>1
  <2> QED
    BY <2>1 DEF Pairs
<1> QED
  BY <1>2, <1>3, <1>4 DEF t

\* Removing an entry of a sorted sequence takes out the pair of its key only.
LEMMA RemovePairs ==
    ASSUME NEW s \in Seq(Entry), NEW i \in 1 .. Len(s),
           \A m, n \in 1 .. Len(s) : m < n => s[m].key < s[n].key
    PROVE  Pairs(RemoveEntry(s, i)) = {p \in Pairs(s) : p[1] # s[i].key}
<1> DEFINE t == RemoveEntry(s, i)
<1>1. /\ Len(t) = Len(s) - 1 /\ Len(s) \in Nat
      /\ \A j \in 1 .. Len(s) - 1 : t[j] = IF j < i THEN s[j] ELSE s[j + 1]
  BY RemoveType
<1>k. \A j \in 1 .. Len(s) : s[j].key \in Int
  BY EntryFields
<1>d. \A j \in 1 .. Len(s) : j # i => s[j].key # s[i].key
  BY <1>k
<1> HIDE DEF t
<1>2. ASSUME NEW p \in Pairs(t) PROVE p \in Pairs(s) /\ p[1] # s[i].key
  <2>1. PICK j \in 1 .. Len(t) : p = <<t[j].key, t[j].value>>
    BY DEF Pairs
  <2>2. PICK l \in 1 .. Len(s) : l # i /\ t[j] = s[l]
    <3>1. CASE j < i
      BY <1>1, <3>1
    <3>2. CASE j >= i
      <4>1. j + 1 \in 1 .. Len(s) /\ j + 1 # i /\ t[j] = s[j + 1]
        BY <1>1, <3>2
      <4> QED
        BY <4>1
    <3> QED
      BY <3>1, <3>2
  <2> QED
    BY <2>1, <2>2, <1>d DEF Pairs
<1>3. ASSUME NEW p \in Pairs(s), p[1] # s[i].key PROVE p \in Pairs(t)
  <2>1. PICK j \in 1 .. Len(s) : p = <<s[j].key, s[j].value>>
    BY DEF Pairs
  <2>2. j # i
    BY <1>3, <2>1
  <2>3. CASE j < i
    <3>1. t[j] = s[j] /\ j \in 1 .. Len(t)
      BY <1>1, <2>3
    <3> QED
      BY <2>1, <3>1 DEF Pairs
  <2>4. CASE j > i
    <3>1. t[j - 1] = s[j] /\ j - 1 \in 1 .. Len(t)
      BY <1>1, <2>4
    <3> QED
      BY <2>1, <3>1 DEF Pairs
  <2> QED
    BY <2>2, <2>3, <2>4
<1> QED
  BY <1>2, <1>3 DEF t

\* At the end of a search that found nothing, the key has no pair.
LEMMA NotFound ==
    ASSUME DictInv, SearchDone, search.found = 0
    PROVE  \A p \in Pairs(entries) : p[1] # search.key
<1>1. search \in Searching /\ search # Idle /\ search.lo = search.hi
  BY DEF SearchDone, DictInv, DictTypeOK
<1>2. entries \in Seq(Entry) /\ \A j \in 1 .. Len(entries) : entries[j].key \in Int
  BY EntryFields DEF DictInv, DictTypeOK
<1>3. \A j \in 1 .. Len(entries) : entries[j].key # search.key
  BY <1>1, <1>2, SearchRange, SearchKey DEF DictInv, SearchInv
<1> QED
  BY <1>3 DEF Pairs

\* An addition puts a pair, whether or not the key was there.
LEMMA AddPuts ==
    ASSUME DictInv, Add
    PROVE  /\ search.key \in DictKeys /\ search.value \in DictValues
           /\ Pairs(entries)' = {p \in Pairs(entries) : p[1] # search.key}
                                   \cup {<<search.key, search.value>>}
<1>1. search \in Searching /\ search # Idle /\ entries \in Seq(Entry) /\ SearchDone
  BY IdleIsNone DEF Add, SearchDone, DictInv, DictTypeOK
<1> DEFINE e == [key |-> search.key, value |-> search.value]
           t == IF search.found = 0 THEN entries ELSE RemoveEntry(entries, search.found)
<1>2. e \in Entry /\ e.key = search.key /\ e.value = search.value
      /\ search.key \in DictKeys /\ search.value \in DictValues
  BY <1>1 DEF Searching, Entry
<1>3. entries' = InsertEntry(t, Place, e)
  BY DEF Add
<1>4. /\ t \in Seq(Entry) /\ Place \in 1 .. Len(t) + 1
      /\ Pairs(t) = {p \in Pairs(entries) : p[1] # search.key}
  <2>1. CASE search.found = 0
    <3>1. Place \in 1 .. Len(entries) + 1
      BY <1>1, <2>1, SearchRange DEF Place, DictInv, SearchInv, SearchDone
    <3>2. Pairs(entries) = {p \in Pairs(entries) : p[1] # search.key}
      BY <1>1, <2>1, NotFound
    <3> QED
      BY <3>1, <3>2, <2>1, <1>1
  <2>2. CASE search.found # 0
    <3>1. /\ search.found \in 1 .. Len(entries) /\ search.touched = search.found
          /\ search.last = 0 /\ entries[search.found].key = search.key
      BY <1>1, <2>2 DEF DictInv, SearchInv
    <3>2. Place = search.found
      BY <3>1 DEF Place
    <3>3. t = RemoveEntry(entries, search.found)
      BY <2>2
    <3>4. t \in Seq(Entry) /\ Len(t) = Len(entries) - 1
      BY <3>1, <3>3, <1>1, RemoveType
    <3>5. \A m, n \in 1 .. Len(entries) : m < n => entries[m].key < entries[n].key
      BY DEF DictInv, DictionarySorted
    <3>6. Pairs(t) = {p \in Pairs(entries) : p[1] # entries[search.found].key}
      BY <3>1, <3>3, <3>5, <1>1, RemovePairs
    <3> HIDE DEF t
    <3> QED
      BY <3>1, <3>2, <3>4, <3>6, <1>1
  <2> QED
    BY <2>1, <2>2
<1> HIDE DEF t, e
<1>5. Pairs(InsertEntry(t, Place, e)) = Pairs(t) \cup {<<e.key, e.value>>}
  BY <1>2, <1>4, InsertPairs
<1>6. Pairs(entries)' = Pairs(InsertEntry(t, Place, e))
  BY <1>3 DEF Pairs
<1> QED
  BY <1>2, <1>4, <1>5, <1>6

\* A removal drops a key.
LEMMA RemoveDrops ==
    ASSUME DictInv, DictionaryRemove
    PROVE  /\ search.key \in DictKeys
           /\ Pairs(entries)' = {p \in Pairs(entries) : p[1] # search.key}
<1>1. search \in Searching /\ search # Idle /\ entries \in Seq(Entry) /\ SearchDone
  BY IdleIsNone DEF DictionaryRemove, SearchDone, DictInv, DictTypeOK
<1>2. search.key \in DictKeys
  BY <1>1 DEF Searching
<1>3. CASE search.found = 0
  <2>1. Pairs(entries)' = Pairs(entries)
    BY <1>3 DEF DictionaryRemove, Pairs
  <2> QED
    BY <2>1, <1>1, <1>2, <1>3, NotFound
<1>4. CASE search.found # 0
  <2>1. search.found \in 1 .. Len(entries) /\ entries[search.found].key = search.key
    BY <1>1, <1>4 DEF DictInv, SearchInv
  <2>2. Pairs(entries)' = Pairs(RemoveEntry(entries, search.found))
    BY <1>4 DEF DictionaryRemove, Pairs
  <2>3. \A m, n \in 1 .. Len(entries) : m < n => entries[m].key < entries[n].key
    BY DEF DictInv, DictionarySorted
  <2> QED
    BY <2>1, <2>2, <2>3, <1>1, <1>2, RemovePairs
<1> QED
  BY <1>3, <1>4

\* The request of a search that is under way.
LEMMA RequestFields ==
    ASSUME NEW s \in Searching
    PROVE  /\ RequestOf(s) = [op |-> s.op, key |-> s.key, value |-> s.value]
           /\ RequestOf(s) # Idle
           /\ RequestOf(s).op = s.op /\ RequestOf(s).key = s.key /\ RequestOf(s).value = s.value
<1>1. s.op \in {"add", "remove", "get"} /\ Idle.op = "idle"
  BY DEF Searching, Idle
<1>2. s # Idle
  BY <1>1
<1>3. RequestOf(s) = [op |-> s.op, key |-> s.key, value |-> s.value]
  BY <1>2 DEF RequestOf
<1>4. RequestOf(s).op = s.op
  BY <1>3
<1>5. RequestOf(s) # Idle
  BY <1>1, <1>4
<1> QED
  BY <1>3, <1>5

\* Every step of the dictionary is a step of the map, or leaves it alone.
LEMMA MapStep == DictInv /\ DictInv' /\ [DictNext]_dictVars => [Map!MapNext]_(Map!mapVars)
<1> SUFFICES ASSUME DictInv, DictInv', [DictNext]_dictVars PROVE [Map!MapNext]_(Map!mapVars)
  OBVIOUS
<1> USE DEF Map!mapVars, Map!Without, Map!NoRequest
<1>e. entries \in Seq(Entry) /\ Len(entries) \in Nat
  BY DEF DictInv, DictTypeOK
<1>i. RequestOf(Idle) = Idle
  BY DEF RequestOf
<1>s. ASSUME entries' = entries, answer' = answer, RequestOf(search') = RequestOf(search)
      PROVE  [Map!MapNext]_(Map!mapVars)
  BY <1>s
<1>r. ASSUME SearchDone, search' = Idle
      PROVE  /\ search \in Searching /\ RequestOf(search) # Idle /\ RequestOf(search') = Idle
             /\ RequestOf(search).op = search.op /\ RequestOf(search).key = search.key
             /\ RequestOf(search).value = search.value
  <2>1. search \in Searching
    BY <1>r DEF SearchDone, DictInv, DictTypeOK
  <2> QED
    BY <2>1, <1>r, <1>i, RequestFields
<1>1. ASSUME NEW op \in {"add", "remove", "get"}, NEW k \in DictKeys, NEW v \in DictValues,
             Begin(op, k, v)
      PROVE  [Map!MapNext]_(Map!mapVars)
  <2>1. search'.op = op /\ search'.key = k /\ search'.value = v
    BY <1>1 DEF Begin
  <2>2. Idle.op = "idle"
    BY DEF Idle
  <2>3. search' \in Searching
    BY <2>1, <2>2 DEF DictInv, DictTypeOK
  <2>4. RequestOf(search') = [op |-> op, key |-> k, value |-> v]
    BY <2>1, <2>3, RequestFields
  <2>5. RequestOf(search) = Idle /\ entries' = entries /\ answer' = answer
    BY <1>1, <1>i DEF Begin
  <2>6. Map!Ask(op, k, v)
    BY <2>4, <2>5 DEF Map!Ask, Idle
  <2> QED
    BY <2>6 DEF Map!MapNext
<1>2. ASSUME NEW i \in 1 .. Len(entries), Probe(i) PROVE [Map!MapNext]_(Map!mapVars)
  <2>1. search \in Searching
    BY <1>2 DEF Probe, DictInv, DictTypeOK
  <2>2. search'.op = search.op /\ search'.key = search.key /\ search'.value = search.value
    BY <1>2, <2>1 DEF Probe, Searching
  <2>3. search.op \in {"add", "remove", "get"} /\ Idle.op = "idle"
    BY <2>1 DEF Searching, Idle
  <2>4. search' \in Searching
    BY <2>2, <2>3 DEF DictInv, DictTypeOK
  <2>5. RequestOf(search') = RequestOf(search)
    BY <2>1, <2>2, <2>4, RequestFields
  <2> QED
    BY <1>2, <1>s, <2>5 DEF Probe
<1>3. CASE Add
  <2>1. answer' = answer /\ search.op = "add" /\ SearchDone /\ search' = Idle
    BY <1>3 DEF Add
  <2>2. Map!Put
    BY <1>3, <2>1, <1>r, AddPuts DEF Map!Put, Pairs
  <2> QED
    BY <2>1, <2>2, <1>r DEF Map!MapNext, Map!Return, Idle
<1>4. CASE DictionaryRemove
  <2>1. answer' = answer /\ search.op = "remove" /\ SearchDone /\ search' = Idle
    BY <1>4 DEF DictionaryRemove
  <2>2. Map!Drop
    BY <1>4, <2>1, <1>r, RemoveDrops DEF Map!Drop, Pairs
  <2> QED
    BY <2>1, <2>2, <1>r DEF Map!MapNext, Map!Return, Idle
<1>5. CASE Get
  <2>1. search \in Searching /\ search # Idle /\ SearchDone
    BY <1>5 DEF Get, SearchDone, DictInv, DictTypeOK
  <2>2. search.op = "get" /\ search' = Idle
    BY <1>5 DEF Get
  <2>3. entries' = entries
    BY <1>5 DEF Get
  <2>4. CASE search.found = 0
    <3>1. answer' = NoValue
      BY <1>5, <2>4 DEF Get
    <3>2. \A v \in DictValues : <<search.key, v>> \notin Pairs(entries)
      BY <2>1, <2>4, NotFound
    <3>3. Map!Look
      BY <3>1, <3>2, <2>1, <2>2, <2>3, <1>r DEF Map!Look, Pairs
    <3> QED
      BY <3>3, <2>1, <2>2, <1>r DEF Map!MapNext, Map!Return, Idle
  <2>5. CASE search.found # 0
    <3>1. search.found \in 1 .. Len(entries) /\ entries[search.found].key = search.key
      BY <2>1, <2>5 DEF DictInv, SearchInv
    <3>2. answer' = entries[search.found].value /\ answer' \in DictValues
      BY <1>5, <2>5, <3>1, <1>e, EntryFields DEF Get
    <3>3. <<search.key, answer'>> \in Pairs(entries)
      BY <3>1, <3>2 DEF Pairs
    <3>4. Map!Look
      BY <3>2, <3>3, <2>1, <2>2, <2>3, <1>r DEF Map!Look, Pairs
    <3> QED
      BY <3>4, <2>1, <2>2, <1>r DEF Map!MapNext, Map!Return, Idle
  <2> QED
    BY <2>4, <2>5
<1>6. ASSUME NEW i \in 1 .. Len(entries), RemoveIndex(i) PROVE [Map!MapNext]_(Map!mapVars)
  <2>1. Pairs(entries)' = Pairs(RemoveEntry(entries, i)) /\ answer' = answer
    BY <1>6 DEF RemoveIndex, Pairs
  <2>2. \A m, n \in 1 .. Len(entries) : m < n => entries[m].key < entries[n].key
    BY DEF DictInv, DictionarySorted
  <2>3. Pairs(entries)' = {p \in Pairs(entries) : p[1] # entries[i].key}
    BY <2>1, <2>2, <1>e, RemovePairs
  <2>4. entries[i].key \in DictKeys
    <3>1. entries[i] \in Entry
      BY <1>e
    <3> QED
      BY <3>1 DEF Entry
  <2>5. RequestOf(search) = Idle /\ RequestOf(search') = RequestOf(search)
    BY <1>6, <1>i DEF RemoveIndex
  <2>6. Map!Discard(entries[i].key)
    BY <2>1, <2>3, <2>5 DEF Map!Discard, Pairs, Idle
  <2>7. \E k \in DictKeys : Map!Discard(k)
    BY <2>4, <2>6 DEF Map!Discard
  <2> QED
    BY <2>7 DEF Map!MapNext
<1>7. CASE UNCHANGED dictVars
  BY <1>7, <1>s DEF dictVars
<1> QED
  BY <1>1, <1>2, <1>3, <1>4, <1>5, <1>6, <1>7 DEF DictNext

\* The dictionary of Data.c implements a finite map, for every set of keys and
\* of values, every sequence of calls and every order of bsearch's probes.
THEOREM DictionaryImplementsMap == DictSpec => DictionaryIsMap
<1>1. DictInit => Map!MapInit
  BY DEF DictInit, Map!MapInit, Map!NoRequest, RequestOf, Idle
<1> QED
  BY <1>1, DictInitInv, DictStep, MapStep, PTL DEF DictSpec, DictionaryIsMap, Map!MapSpec

-----------------------------------------------------------------------------
(* The Bloom filter *)

\* A filter within its limits; one without bytes has no hashes, so that no
\* number is ever taken modulo zero.
Filters ==
    {f \in [bits : SUBSET Int, size : 0..MaxBytes, hashes : 0..MaxHashes] :
        /\ f.bits \subseteq 0..(f.size * 8 - 1)
        /\ f.size = 0 => f.hashes = 0}

\* The invariant: the bits of every element that was added are set.  The
\* size and the number of hashes of a filter do not change once it is made,
\* which is why the bits tested later are the bits set before.
BloomInv ==
    /\ filter \in Filters
    /\ watched \subseteq Elements
    /\ \A e \in watched : BitsSet(filter, e) \subseteq filter.bits

\* What bloomFilterAddElement sets is what bloomFilterCheckElement tests.
LEMMA SetIsTested == \A f, e : BitsSet(f, e) = BitsTested(f, e)
BY DEF BitsSet, BitsTested

\* bloomFilter makes a filter within its limits and without a bit set.
LEMMA NewFilterType ==
    ASSUME NEW n \in Estimates
    PROVE  NewFilter(n) \in Filters
<1> DEFINE k == IF n < 3 THEN 3 ELSE n
           b == Smaller(SizeFor(k), MaxBytes)
           h == Smaller(HashesFor(k, b), MaxHashes)
           f == [bits |-> {}, size |-> b, hashes |-> h]
<1>1. k \in Estimates \cup {3}
  BY BloomAssumption
<1>2. SizeFor(k) \in Nat /\ MaxBytes \in Nat /\ MaxHashes \in Nat
  BY <1>1, BloomAssumption
<1>3. b \in 0..MaxBytes
  BY <1>2 DEF Smaller
<1>4. HashesFor(k, b) \in Nat /\ (b = 0 => HashesFor(k, b) = 0)
  BY <1>1, <1>2, <1>3, BloomAssumption
<1>5. h \in 0..MaxHashes /\ (b = 0 => h = 0)
  BY <1>2, <1>4 DEF Smaller
<1>6. NewFilter(n) = f
  BY DEF NewFilter
<1>7. f \in [bits : SUBSET Int, size : 0..MaxBytes, hashes : 0..MaxHashes]
  BY <1>3, <1>5
<1>8. f.bits \subseteq 0..(f.size * 8 - 1) /\ (f.size = 0 => f.hashes = 0)
  BY <1>5
<1> HIDE DEF f
<1> QED
  BY <1>6, <1>7, <1>8 DEF Filters

\* The bits of an element are bits of the filter.
LEMMA BitsAreBits ==
    ASSUME NEW f \in Filters, NEW e \in Elements
    PROVE  BitsSet(f, e) \subseteq 0..(f.size * 8 - 1)
<1> SUFFICES ASSUME NEW i \in 0..(f.hashes - 1)
             PROVE  BitOf(f, e, i) \in 0..(f.size * 8 - 1)
  BY DEF BitsSet
<1> DEFINE s == (i * Seed + Tweak) % WordSize
           w == f.size * 8
<1>1. i \in Nat /\ f.size \in Nat \ {0}
  BY BloomAssumption DEF Filters
<1>2. i * Seed \in Nat
  BY <1>1, BloomAssumption
<1>3. i * Seed + Tweak \in Nat
  <2> DEFINE t == i * Seed
  <2>1. t \in Nat /\ Tweak \in Nat
    BY <1>2, BloomAssumption
  <2> HIDE DEF t
  <2>2. t + Tweak \in Nat
    BY <2>1
  <2> QED
    BY <2>2 DEF t
<1>4. s \in 0..(WordSize - 1)
  <2> DEFINE t == i * Seed + Tweak
  <2>1. t \in Nat /\ WordSize \in Nat \ {0}
    BY <1>3, BloomAssumption
  <2> HIDE DEF t
  <2>2. t % WordSize \in 0..(WordSize - 1)
    BY <2>1
  <2> QED
    BY <2>2 DEF t
<1>5. Murmur(e, s) \in Nat
  BY <1>4, BloomAssumption
<1>6. w \in Nat \ {0}
  BY <1>1
<1>7. BitOf(f, e, i) = Murmur(e, s) % w
  BY DEF BitOf
<1> HIDE DEF s, w
<1>8. Murmur(e, s) % w \in 0..(w - 1)
  BY <1>5, <1>6
<1> QED
  BY <1>7, <1>8 DEF w

\* Adding an element keeps the filter within its limits, sets the bits of the
\* element and clears none.
LEMMA AddingKeepsBits ==
    ASSUME NEW f \in Filters, NEW e \in Elements
    PROVE  /\ WithElement(f, e) \in Filters
           /\ BitsSet(f, e) \subseteq WithElement(f, e).bits
           /\ f.bits \subseteq WithElement(f, e).bits
           /\ \A x : BitsSet(WithElement(f, e), x) = BitsSet(f, x)
<1> DEFINE g == WithElement(f, e)
<1>1. BitsSet(f, e) \subseteq 0..(f.size * 8 - 1)
  BY BitsAreBits
<1>0. f \in [bits : SUBSET Int, size : 0..MaxBytes, hashes : 0..MaxHashes]
  BY DEF Filters
<1>2. /\ g.size = f.size /\ g.hashes = f.hashes /\ g.bits = f.bits \cup BitsSet(f, e)
      /\ g = [bits |-> f.bits \cup BitsSet(f, e), size |-> f.size, hashes |-> f.hashes]
  BY <1>0 DEF WithElement
<1>3. f.size \in Nat
  BY BloomAssumption DEF Filters
<1>4. f.bits \cup BitsSet(f, e) \subseteq 0..(f.size * 8 - 1)
  BY <1>1 DEF Filters
<1>5. f.bits \cup BitsSet(f, e) \in SUBSET Int
  BY <1>3, <1>4
<1>6. g \in Filters
  BY <1>2, <1>4, <1>5 DEF Filters
<1>7. ASSUME NEW x PROVE BitsSet(g, x) = BitsSet(f, x)
  BY <1>2 DEF BitsSet, BitOf
<1> QED
  BY <1>2, <1>6, <1>7

\* NothingMissed, for every hash function, size, number of hashes and set of
\* elements: what bloomFilterAddElement put into a filter,
\* bloomFilterCheckElement finds there ever after.
THEOREM FilterMissesNothing == BloomSpec => []NothingMissed
<1>1. BloomInit => BloomInv
  <2> SUFFICES ASSUME BloomInit PROVE BloomInv
    OBVIOUS
  <2>1. PICK n \in Estimates : filter = NewFilter(n) /\ watched = {}
    BY DEF BloomInit
  <2> QED
    BY <2>1, NewFilterType DEF BloomInv
<1>2. BloomInv /\ [BloomNext]_bloomVars => BloomInv'
  <2> SUFFICES ASSUME BloomInv, [BloomNext]_bloomVars PROVE BloomInv'
    OBVIOUS
  <2>1. ASSUME NEW e \in Elements, BloomFilterAddElement(e) PROVE BloomInv'
    <3>1. filter \in Filters /\ filter' = WithElement(filter, e)
          /\ watched' = watched \cup {e}
      BY <2>1 DEF BloomInv, BloomFilterAddElement
    <3>2. /\ filter' \in Filters
          /\ BitsSet(filter, e) \subseteq filter'.bits
          /\ filter.bits \subseteq filter'.bits
          /\ \A x : BitsSet(filter', x) = BitsSet(filter, x)
      BY <3>1, AddingKeepsBits
    <3>3. \A x \in watched' : BitsSet(filter', x) \subseteq filter'.bits
      BY <3>1, <3>2 DEF BloomInv
    <3> QED
      BY <3>1, <3>2, <3>3 DEF BloomInv
  <2>2. ASSUME NEW n \in Estimates, BloomFilterNew(n) PROVE BloomInv'
    BY <2>2, NewFilterType DEF BloomInv, BloomFilterNew
  <2>3. ASSUME UNCHANGED bloomVars PROVE BloomInv'
    BY <2>3 DEF BloomInv, bloomVars
  <2> QED
    BY <2>1, <2>2, <2>3 DEF BloomNext
<1>3. BloomInv => NothingMissed
  BY SetIsTested DEF BloomInv, NothingMissed, CheckElement
<1> QED
  BY <1>1, <1>2, <1>3, PTL DEF BloomSpec

-----------------------------------------------------------------------------
(* DataPool *)

Pools == [mem : BOOLEAN, held : SUBSET (Blocks \cup {BelowArray}), nulls : Nat]

Heaps == [pools : Seq(Pools), live : SUBSET Blocks, count : Int, emptied : Nat,
          aborted : BOOLEAN, dangling : BOOLEAN]

Depths(h) == 1 .. Depth(h)
Held(h, d) == h.pools[d].held

\* The pools whose array is allocated, and the array of all pools.
Arrays(h) == {d \in Depths(h) : h.pools[d].mem}
StackArray(h) == IF Depth(h) = 0 THEN 0 ELSE 1

Counted(h) ==
    h.count = Cardinality(h.live) + h.emptied + Cardinality(Arrays(h)) + StackArray(h)

\* A pool that tracks the array of the pool below it has one below it, which
\* keeps its array; that takes a NULL, which takes a Data that was emptied.
PoolFits(h, d) ==
    /\ Held(h, d) \subseteq h.live \cup {BelowArray}
    /\ BelowArray \in Held(h, d) => d > 1 /\ h.pools[d - 1].mem /\ h.emptied > 0
    /\ h.pools[d].nulls > 0 => h.emptied > 0

\* What holds of the heap of a thread that can go on.
Sound(h) ==
    /\ h \in Heaps /\ IsFiniteSet(h.live) /\ ~h.aborted /\ ~h.dangling
    /\ \A d \in Depths(h) : PoolFits(h, d)
    /\ \A d, e \in Depths(h) : d # e => Held(h, d) \cap Held(h, e) \subseteq {BelowArray}
    /\ Counted(h)

\* The blocks bs are in the current pool, or in none.
Handled(h, bs) == \A d \in Depths(h) : d # Depth(h) => Held(h, d) \cap bs = {}

\* A block is not the array of a pool.
LEMMA BelowIsNoBlock == BelowArray \notin Blocks /\ 0 \notin Blocks
<1> QED
    BY DataPoolAssumption DEF BelowArray

\* A pool put in the place of another.
LEMMA PoolReplaced ==
    ASSUME NEW s \in Seq(Pools), NEW d \in 1 .. Len(s), NEW p \in Pools
    PROVE  /\ [s EXCEPT ![d] = p] \in Seq(Pools)
           /\ Len([s EXCEPT ![d] = p]) = Len(s)
           /\ \A e \in 1 .. Len(s) : [s EXCEPT ![d] = p][e] = IF e = d THEN p ELSE s[e]
<1> QED
    OBVIOUS

\* The pools with an array are finitely many.
LEMMA ArraysFinite ==
    ASSUME NEW h \in Heaps
    PROVE  /\ IsFiniteSet(Arrays(h)) /\ Cardinality(Arrays(h)) \in Nat
           /\ \A d \in Arrays(h) : d \in Depths(h)
<1>1. Depth(h) \in Nat
    BY DEF Heaps, Depth
<1>2. IsFiniteSet(Depths(h))
    BY <1>1, FS_Interval DEF Depths
<1>3. Arrays(h) \in SUBSET Depths(h)
    BY DEF Arrays
<1>4. IsFiniteSet(Arrays(h))
    BY <1>2, <1>3, FS_Subset
<1> QED
    BY <1>3, <1>4, FS_CardinalityType

\* The heap is sound after a change of one pool and of what is live.
LEMMA PoolChanged ==
    ASSUME NEW h, Sound(h), NEW g \in Heaps, IsFiniteSet(g.live), ~g.aborted, ~g.dangling,
           g.emptied >= h.emptied, Depth(g) = Depth(h), NEW d \in Depths(h),
           \A e \in Depths(h) : e # d => g.pools[e] = h.pools[e],
           h.pools[d].mem => g.pools[d].mem,
           PoolFits(g, d),
           \A e \in Depths(h) : e # d => /\ Held(h, e) \subseteq g.live \cup {BelowArray}
                                         /\ Held(h, e) \cap Held(g, d) \subseteq {BelowArray},
           Counted(g)
    PROVE  Sound(g)
<1>1. Depths(g) = Depths(h) /\ Depth(h) \in Nat
    BY DEF Depths, Depth, Sound, Heaps
<1>2. ASSUME NEW e \in Depths(h), e # d
      PROVE  PoolFits(g, e)
    <2>1. PoolFits(h, e) /\ g.pools[e] = h.pools[e]
        BY <1>2 DEF Sound
    <2>2. BelowArray \in Held(g, e) => e > 1 /\ h.pools[e - 1].mem /\ h.emptied > 0
        BY <2>1 DEF PoolFits, Held
    <2>3. ASSUME e > 1, h.pools[e - 1].mem
          PROVE  g.pools[e - 1].mem
        <3>1. e - 1 \in Depths(h)
            BY <1>1, <2>3 DEF Depths
        <3> QED
            BY <2>3, <3>1
    <2>4. g.emptied \in Nat /\ h.emptied \in Nat
        BY DEF Sound, Heaps
    <2>5. Held(g, e) \subseteq g.live \cup {BelowArray}
        BY <1>2, <2>1 DEF Held
    <2>6. g.pools[e].nulls > 0 => g.emptied > 0
        <3>1. h.pools[e].nulls > 0 => h.emptied > 0
            BY <2>1 DEF PoolFits
        <3> QED
            BY <2>1, <2>4, <3>1
    <2>7. h.emptied > 0 => g.emptied > 0
        BY <2>4
    <2> QED
        BY <2>2, <2>3, <2>5, <2>6, <2>7 DEF PoolFits
<1>3. \A e \in Depths(g) : PoolFits(g, e)
    BY <1>1, <1>2
<1>4. ASSUME NEW e \in Depths(g), NEW f \in Depths(g), e # f
      PROVE  Held(g, e) \cap Held(g, f) \subseteq {BelowArray}
    <2>1. CASE e # d /\ f # d
        <3>1. Held(g, e) = Held(h, e) /\ Held(g, f) = Held(h, f)
            BY <1>1, <2>1 DEF Held
        <3> QED
            BY <1>1, <1>4, <3>1 DEF Sound
    <2>2. CASE e = d
        <3>1. Held(g, f) = Held(h, f) /\ f # d
            BY <1>1, <1>4, <2>2 DEF Held
        <3> QED
            BY <1>1, <2>2, <3>1
    <2>3. CASE f = d
        <3>1. Held(g, e) = Held(h, e) /\ e # d
            BY <1>1, <1>4, <2>3 DEF Held
        <3> QED
            BY <1>1, <2>3, <3>1
    <2> QED
        BY <2>1, <2>2, <2>3
<1> QED
    BY <1>3, <1>4 DEF Sound

\* The number of arrays, when no pool loses its own.
LEMMA ArraysChanged ==
    ASSUME NEW h \in Heaps, NEW g \in Heaps, Depth(g) = Depth(h), NEW d \in Depths(h),
           \A e \in Depths(h) : e # d => g.pools[e] = h.pools[e]
    PROVE  /\ g.pools[d].mem = h.pools[d].mem => Arrays(g) = Arrays(h)
           /\ ~h.pools[d].mem /\ g.pools[d].mem
                 => Cardinality(Arrays(g)) = Cardinality(Arrays(h)) + 1
           /\ StackArray(g) = StackArray(h)
<1>1. Depths(g) = Depths(h)
    BY DEF Depths
<1>2. g.pools[d].mem = h.pools[d].mem => Arrays(g) = Arrays(h)
    BY <1>1 DEF Arrays
<1>3. ASSUME ~h.pools[d].mem, g.pools[d].mem
      PROVE  Cardinality(Arrays(g)) = Cardinality(Arrays(h)) + 1
    <2>1. Arrays(g) = Arrays(h) \cup {d} /\ d \notin Arrays(h)
        BY <1>1, <1>3 DEF Arrays
    <2> QED
        BY <2>1, ArraysFinite, FS_AddElement
<1> QED
    BY <1>2, <1>3 DEF StackArray

\* DataUntrack.
LEMMA UntrackKeeps ==
    ASSUME NEW h, Sound(h), NEW bs
    PROVE  LET g == DataUntrack(h, bs)
           IN  /\ Sound(g) /\ Depth(g) = Depth(h) /\ g.live = h.live
               /\ g.count = h.count /\ g.emptied = h.emptied
               /\ \A d \in Depths(h) :
                     /\ d # Depth(h) => g.pools[d] = h.pools[d]
                     /\ g.pools[d].mem = h.pools[d].mem
                     /\ g.pools[d].nulls = h.pools[d].nulls
                     /\ d = Depth(h) => Held(g, d) = Held(h, d) \ bs
<1>1. CASE Depth(h) = 0
    BY <1>1 DEF DataUntrack, Depths
<1>2. CASE Depth(h) # 0
    <2>1. h \in Heaps /\ h.pools \in Seq(Pools) /\ Depth(h) \in 1 .. Len(h.pools)
          /\ Depth(h) = Len(h.pools) /\ Depth(h) \in Depths(h) /\ Depth(h) \in Nat
        BY <1>2 DEF Sound, Heaps, Depth, Depths
    <2>2. PICK p : p = [h.pools[Depth(h)] EXCEPT !.held = @ \ bs]
        OBVIOUS
    <2>3. p \in Pools /\ p.held = Held(h, Depth(h)) \ bs /\ p.mem = h.pools[Depth(h)].mem
          /\ p.nulls = h.pools[Depth(h)].nulls
        <3>1. h.pools[Depth(h)] \in Pools
            BY <2>1
        <3> QED
            BY <2>2, <3>1 DEF Pools, Held
    <2>4. PICK s : s = [h.pools EXCEPT ![Depth(h)] = p]
        OBVIOUS
    <2>5. s \in Seq(Pools) /\ Len(s) = Len(h.pools)
          /\ \A e \in Depths(h) : s[e] = IF e = Depth(h) THEN p ELSE h.pools[e]
        BY <2>1, <2>3, <2>4, PoolReplaced DEF Depths
    <2>6. PICK g : g = DataUntrack(h, bs)
        OBVIOUS
    <2>7. g = [h EXCEPT !.pools = s]
        BY <1>2, <2>2, <2>4, <2>6 DEF DataUntrack
    <2>8. /\ g \in Heaps /\ g.pools = s /\ g.live = h.live /\ g.count = h.count
          /\ g.emptied = h.emptied /\ g.aborted = h.aborted /\ g.dangling = h.dangling
        BY <2>1, <2>5, <2>7 DEF Heaps
    <2>9. Depth(g) = Depth(h)
        BY <2>5, <2>8 DEF Depth
    <2>10. \A e \in Depths(h) : /\ e # Depth(h) => g.pools[e] = h.pools[e]
                                /\ e = Depth(h) => g.pools[e] = p
        BY <2>5, <2>8
    <2>11. PoolFits(g, Depth(h))
        <3>1. PoolFits(h, Depth(h))
            BY <2>1 DEF Sound
        <3>2. Held(g, Depth(h)) \subseteq Held(h, Depth(h)) /\ g.pools[Depth(h)] = p
            BY <2>1, <2>3, <2>10 DEF Held
        <3>3. BelowArray \in Held(g, Depth(h)) => Depth(h) > 1 /\ g.pools[Depth(h) - 1].mem
                                                  /\ g.emptied > 0
            <4>1. Depth(h) > 1 => Depth(h) - 1 \in Depths(h) /\ Depth(h) - 1 # Depth(h)
                BY <2>1 DEF Depths
            <4>2. Depth(h) > 1 => g.pools[Depth(h) - 1] = h.pools[Depth(h) - 1]
                BY <2>10, <4>1
            <4> QED
                BY <2>8, <3>1, <3>2, <4>2 DEF PoolFits
        <3> QED
            BY <2>3, <2>8, <3>1, <3>2, <3>3 DEF PoolFits
    <2>12. Counted(g)
        <3>1. Arrays(g) = Arrays(h) /\ StackArray(g) = StackArray(h)
            BY <2>1, <2>3, <2>8, <2>9, <2>10, ArraysChanged
        <3> QED
            BY <2>8, <3>1 DEF Sound, Counted
    <2>13. \A e \in Depths(h) : e # Depth(h) =>
              /\ Held(h, e) \subseteq g.live \cup {BelowArray}
              /\ Held(h, e) \cap Held(g, Depth(h)) \subseteq {BelowArray}
        <3>1. Held(g, Depth(h)) \subseteq Held(h, Depth(h))
            BY <2>1, <2>3, <2>10 DEF Held
        <3> QED
            BY <2>1, <2>8, <3>1 DEF Sound, PoolFits
    <2>14. IsFiniteSet(g.live) /\ ~g.aborted /\ ~g.dangling /\ g.emptied >= h.emptied
        BY <2>1, <2>8 DEF Sound, Heaps
    <2>15. Sound(g)
        BY <2>1, <2>3, <2>8, <2>9, <2>10, <2>11, <2>12, <2>13, <2>14, PoolChanged
    <2> QED
        BY <2>3, <2>6, <2>8, <2>9, <2>10, <2>15 DEF Held
<1> QED
    BY <1>1, <1>2

\* DataNewFlexible.
LEMMA AllocatedKeeps ==
    ASSUME NEW h, Sound(h), NEW bs \in SUBSET (Blocks \ h.live), IsFiniteSet(bs)
    PROVE  LET g == Allocated(h, bs)
           IN  /\ Sound(g) /\ g.pools = h.pools /\ g.live = h.live \cup bs
<1>1. PICK g : g = Allocated(h, bs)
    OBVIOUS
<1>2. Cardinality(bs) \in Nat /\ IsFiniteSet(h.live \cup bs)
      /\ Cardinality(h.live \cup bs) = Cardinality(h.live) + Cardinality(bs)
      /\ Cardinality(h.live) \in Nat
    <2>1. h.live \cap bs = {} /\ IsFiniteSet(h.live)
        BY DEF Sound
    <2>2. Cardinality(h.live) \in Nat /\ Cardinality(bs) \in Nat
        BY <2>1, FS_CardinalityType
    <2>3. /\ IsFiniteSet(h.live \cup bs)
          /\ Cardinality(h.live \cup bs)
                = Cardinality(h.live) + Cardinality(bs) - Cardinality(h.live \cap bs)
        BY <2>1, FS_Union
    <2>4. Cardinality(h.live \cap bs) = 0
        BY <2>1, FS_EmptySet
    <2> QED
        BY <2>2, <2>3, <2>4
<1>3. h \in Heaps
    BY DEF Sound
<1>4. /\ g \in Heaps /\ g.pools = h.pools /\ g.live = h.live \cup bs
      /\ g.count = h.count + Cardinality(bs)
      /\ g.emptied = h.emptied /\ g.aborted = h.aborted /\ g.dangling = h.dangling
    <2>1. PICK l \in SUBSET Blocks : l = h.live \cup bs
        BY <1>3 DEF Heaps
    <2>2. PICK n \in Int : n = h.count + Cardinality(bs)
        BY <1>2, <1>3 DEF Heaps
    <2>3. g = [h EXCEPT !.live = l, !.count = n]
        BY <1>1, <2>1, <2>2 DEF Allocated
    <2> QED
        BY <1>3, <2>1, <2>2, <2>3 DEF Heaps
<1>5. Depths(g) = Depths(h) /\ Arrays(g) = Arrays(h) /\ StackArray(g) = StackArray(h)
    BY <1>4 DEF Depths, Depth, Arrays, StackArray
<1>6. Counted(g)
    <2>1. Counted(h) /\ Cardinality(Arrays(h)) \in Nat /\ StackArray(h) \in Nat
          /\ h.count \in Int /\ h.emptied \in Nat
        BY <1>3, ArraysFinite DEF Sound, StackArray, Heaps
    <2> QED
        BY <1>2, <1>4, <1>5, <2>1 DEF Counted
<1>7. \A d \in Depths(g) : PoolFits(g, d)
    BY <1>4, <1>5 DEF Sound, PoolFits, Held
<1>8. Sound(g)
    BY <1>2, <1>4, <1>5, <1>6, <1>7 DEF Sound, Held
<1> QED
    BY <1>1, <1>4, <1>8

\* DatasAddRefFlexible on a pool; of blocks that no pool holds, or of the array
\* of the pool below.
LEMMA AddToPoolKeeps ==
    ASSUME NEW h, Sound(h), NEW d \in Depths(h), NEW bs \in SUBSET (h.live \cup {BelowArray}),
           Held(h, d) \cap bs = {},
           \A e \in Depths(h) : Held(h, e) \cap bs \subseteq {BelowArray},
           BelowArray \in bs => d > 1 /\ h.pools[d - 1].mem /\ h.emptied > 0
    PROVE  LET g == AddToPool(h, d, bs)
           IN  /\ Sound(g) /\ Depth(g) = Depth(h) /\ g.live = h.live /\ g.emptied = h.emptied
               /\ Held(g, d) = Held(h, d) \cup bs
               /\ g.pools[d].nulls = h.pools[d].nulls
               /\ g.pools[d].mem <=> h.pools[d].mem \/ bs # {}
               /\ \A e \in Depths(h) : e # d => g.pools[e] = h.pools[e]
<1>1. h \in Heaps /\ h.pools \in Seq(Pools) /\ d \in 1 .. Len(h.pools) /\ Depth(h) = Len(h.pools)
      /\ Depth(h) \in Nat
    BY DEF Sound, Heaps, Depth, Depths
<1>2. h.pools[d] \in Pools
    BY <1>1
<1>3. PICK p : p = [h.pools[d] EXCEPT !.held = @ \cup bs, !.mem = @ \/ bs # {}]
    OBVIOUS
<1>4. p \in Pools /\ p.held = Held(h, d) \cup bs /\ p.nulls = h.pools[d].nulls
      /\ (p.mem <=> h.pools[d].mem \/ bs # {})
    <2>1. PICK k : k = h.pools[d].held \cup bs
        OBVIOUS
    <2>2. PICK m \in BOOLEAN : m <=> h.pools[d].mem \/ bs # {}
        OBVIOUS
    <2>3. m = (h.pools[d].mem \/ bs # {})
        BY <1>2, <2>2 DEF Pools
    <2>4. p = [h.pools[d] EXCEPT !.held = k, !.mem = m]
        BY <1>3, <2>1, <2>3
    <2>5. k \in SUBSET (Blocks \cup {BelowArray})
        BY <1>1, <1>2, <2>1 DEF Pools, Heaps
    <2>6. p \in Pools /\ p.held = k /\ p.nulls = h.pools[d].nulls /\ p.mem = m
        BY <1>2, <2>2, <2>4, <2>5 DEF Pools
    <2> QED
        BY <2>1, <2>2, <2>6 DEF Held
<1>5. PICK s : s = [h.pools EXCEPT ![d] = p]
    OBVIOUS
<1>6. s \in Seq(Pools) /\ Len(s) = Len(h.pools)
      /\ \A e \in Depths(h) : s[e] = IF e = d THEN p ELSE h.pools[e]
    BY <1>1, <1>4, <1>5, PoolReplaced DEF Depths
<1>7. PICK n : n = IF h.pools[d].mem \/ bs = {} THEN h.count ELSE h.count + 1
    OBVIOUS
<1>8. n \in Int
    BY <1>1, <1>7 DEF Heaps
<1>9. PICK g : g = AddToPool(h, d, bs)
    OBVIOUS
<1>10. bs \cap h.pools[d].held = {}
    BY DEF Held
<1>11. g = [h EXCEPT !.pools = s, !.count = n]
    BY <1>3, <1>5, <1>7, <1>9, <1>10 DEF AddToPool
<1>12. /\ g \in Heaps /\ g.pools = s /\ g.live = h.live /\ g.count = n
       /\ g.emptied = h.emptied /\ g.aborted = h.aborted /\ g.dangling = h.dangling
    BY <1>1, <1>6, <1>8, <1>11 DEF Heaps
<1>13. Depth(g) = Depth(h)
    BY <1>6, <1>12 DEF Depth
<1>14. g.pools[d] = p /\ \A e \in Depths(h) : e # d => g.pools[e] = h.pools[e]
    BY <1>6, <1>12
<1>15. Held(g, d) = Held(h, d) \cup bs
    BY <1>4, <1>14 DEF Held
<1>16. PoolFits(h, d)
    BY DEF Sound
<1>17. PoolFits(g, d)
    <2>1. BelowArray \in Held(g, d) => d > 1 /\ h.pools[d - 1].mem /\ h.emptied > 0
        BY <1>15, <1>16 DEF PoolFits
    <2>2. d > 1 => d - 1 \in Depths(h) /\ d - 1 # d
        BY <1>1 DEF Depths
    <2>3. BelowArray \in Held(g, d) => d > 1 /\ g.pools[d - 1].mem /\ g.emptied > 0
        BY <1>12, <1>14, <2>1, <2>2
    <2>4. Held(g, d) \subseteq g.live \cup {BelowArray}
        BY <1>12, <1>15, <1>16 DEF PoolFits
    <2>5. g.pools[d].nulls > 0 => g.emptied > 0
        BY <1>4, <1>12, <1>14, <1>16 DEF PoolFits
    <2> QED
        BY <2>3, <2>4, <2>5 DEF PoolFits
<1>18. \A e \in Depths(h) : e # d =>
          /\ Held(h, e) \subseteq g.live \cup {BelowArray}
          /\ Held(h, e) \cap Held(g, d) \subseteq {BelowArray}
    BY <1>12, <1>15 DEF Sound, PoolFits
<1>19. Counted(g)
    <2>1. /\ g.pools[d].mem = h.pools[d].mem => Arrays(g) = Arrays(h)
          /\ ~h.pools[d].mem /\ g.pools[d].mem
                 => Cardinality(Arrays(g)) = Cardinality(Arrays(h)) + 1
          /\ StackArray(g) = StackArray(h)
        BY <1>1, <1>12, <1>13, <1>14, ArraysChanged
    <2>2. Counted(h) /\ Cardinality(Arrays(h)) \in Nat /\ StackArray(h) \in Nat
          /\ h.count \in Int /\ h.emptied \in Nat /\ Cardinality(h.live) \in Nat
        BY <1>1, ArraysFinite, FS_CardinalityType DEF Sound, StackArray, Heaps
    <2>3. CASE h.pools[d].mem \/ bs = {}
        <3>1. g.pools[d].mem = h.pools[d].mem
            BY <1>2, <1>4, <1>14, <2>3 DEF Pools
        <3>2. n = h.count
            BY <1>7, <2>3
        <3> QED
            BY <1>12, <2>1, <2>2, <3>1, <3>2 DEF Counted
    <2>4. CASE ~(h.pools[d].mem \/ bs = {})
        <3>1. ~h.pools[d].mem /\ g.pools[d].mem
            BY <1>4, <1>14, <2>4
        <3>2. n = h.count + 1
            BY <1>7, <2>4
        <3>3. Cardinality(Arrays(g)) = Cardinality(Arrays(h)) + 1 /\ StackArray(g) = StackArray(h)
            BY <2>1, <3>1
        <3> QED
            BY <1>12, <2>2, <3>2, <3>3 DEF Counted
    <2> QED
        BY <2>3, <2>4
<1>20. IsFiniteSet(g.live) /\ ~g.aborted /\ ~g.dangling /\ g.emptied >= h.emptied
    BY <1>1, <1>12 DEF Sound, Heaps
<1>21. h.pools[d].mem => g.pools[d].mem
    BY <1>4, <1>14
<1>22. Sound(g)
    BY <1>12, <1>13, <1>14, <1>17, <1>18, <1>19, <1>20, <1>21, PoolChanged
<1> QED
    BY <1>4, <1>9, <1>12, <1>13, <1>14, <1>15, <1>22

\* DataTrack of blocks that no pool holds.
LEMMA TrackKeeps ==
    ASSUME NEW h, Sound(h), NEW bs \in SUBSET h.live,
           \A d \in Depths(h) : Held(h, d) \cap bs = {}
    PROVE  LET g == DataTrack(h, bs)
           IN  /\ Sound(g) /\ Depth(g) = Depth(h) /\ g.live = h.live /\ g.emptied = h.emptied
               /\ \A d \in Depths(h) : Held(g, d) = Held(h, d) \cup IF d = Depth(h) THEN bs ELSE {}
<1>1. CASE Depth(h) = 0
    BY <1>1 DEF DataTrack, Depths
<1>2. CASE Depth(h) # 0
    <2>1. h \in Heaps /\ Depth(h) \in Depths(h)
        BY <1>2 DEF Sound, Heaps, Depth, Depths
    <2>2. BelowArray \notin bs
        BY <2>1, BelowIsNoBlock DEF Heaps
    <2>3. PICK g : g = AddToPool(h, Depth(h), bs)
        OBVIOUS
    <2>4. /\ Sound(g) /\ Depth(g) = Depth(h) /\ g.live = h.live /\ g.emptied = h.emptied
          /\ Held(g, Depth(h)) = Held(h, Depth(h)) \cup bs
          /\ \A e \in Depths(h) : e # Depth(h) => g.pools[e] = h.pools[e]
        BY <2>1, <2>2, <2>3, AddToPoolKeeps
    <2>5. g = DataTrack(h, bs)
        BY <1>2, <2>3 DEF DataTrack
    <2>6. \A d \in Depths(h) : Held(g, d) = Held(h, d) \cup IF d = Depth(h) THEN bs ELSE {}
        BY <2>4 DEF Held
    <2> QED
        BY <2>4, <2>5, <2>6
<1> QED
    BY <1>1, <1>2

\* The heap is sound after a change of what is live that the pools do not notice.
LEMMA LiveChanged ==
    ASSUME NEW h, Sound(h), NEW g \in Heaps, IsFiniteSet(g.live), ~g.aborted, ~g.dangling,
           g.emptied >= h.emptied, g.pools = h.pools,
           \A d \in Depths(h) : Held(h, d) \subseteq g.live \cup {BelowArray},
           g.count - Cardinality(g.live) - g.emptied = h.count - Cardinality(h.live) - h.emptied
    PROVE  Sound(g)
<1>1. Depths(g) = Depths(h) /\ Arrays(g) = Arrays(h) /\ StackArray(g) = StackArray(h)
    BY DEF Depths, Depth, Arrays, StackArray
<1>2. h \in Heaps /\ IsFiniteSet(h.live)
    BY DEF Sound
<1>3. Counted(g)
    <2>1. Counted(h) /\ Cardinality(Arrays(h)) \in Nat /\ StackArray(h) \in Nat
          /\ Cardinality(h.live) \in Nat /\ Cardinality(g.live) \in Nat
        BY <1>2, ArraysFinite, FS_CardinalityType DEF Sound, StackArray
    <2>2. h.count \in Int /\ h.emptied \in Nat /\ g.count \in Int /\ g.emptied \in Nat
        BY <1>2 DEF Heaps
    <2>3. PICK a \in Nat : a = Cardinality(Arrays(h)) + StackArray(h)
        BY <2>1
    <2>4. h.count = Cardinality(h.live) + h.emptied + a
        BY <2>1, <2>2, <2>3 DEF Counted
    <2>5. g.count = Cardinality(g.live) + g.emptied + a
        BY <2>1, <2>2, <2>4
    <2>6. a = Cardinality(Arrays(g)) + StackArray(g)
        BY <1>1, <2>3
    <2>7. Cardinality(Arrays(g)) \in Nat /\ StackArray(g) \in Nat
        BY <1>1, <2>1
    <2> QED
        BY <2>1, <2>2, <2>5, <2>6, <2>7 DEF Counted
<1>4. ASSUME NEW d \in Depths(g)
      PROVE  PoolFits(g, d)
    <2>1. PoolFits(h, d) /\ d \in Depths(h) /\ Held(g, d) = Held(h, d)
        BY <1>1 DEF Sound, Held
    <2>2. h.emptied > 0 => g.emptied > 0
        BY <1>2 DEF Heaps
    <2> QED
        BY <2>1, <2>2 DEF PoolFits
<1>5. \A d, e \in Depths(g) : d # e => Held(g, d) \cap Held(g, e) \subseteq {BelowArray}
    BY <1>1 DEF Sound, Held
<1> QED
    BY <1>3, <1>4, <1>5 DEF Sound

\* DataFree of blocks of the current pool, or of none.
LEMMA FreeKeeps ==
    ASSUME NEW h, Sound(h), NEW bs \in SUBSET h.live, Handled(h, bs)
    PROVE  LET g == DataFree(h, bs)
           IN  Sound(g) /\ g.live = h.live \ bs
<1>1. PICK u : u = DataUntrack(h, bs)
    OBVIOUS
<1>2. /\ Sound(u) /\ Depth(u) = Depth(h) /\ u.live = h.live
      /\ \A d \in Depths(h) : /\ d # Depth(h) => u.pools[d] = h.pools[d]
                              /\ d = Depth(h) => Held(u, d) = Held(h, d) \ bs
    BY <1>1, UntrackKeeps
<1>3. \A d \in Depths(u) : Held(u, d) \cap bs = {}
    BY <1>2 DEF Handled, Held, Depths
<1>4. u \in Heaps /\ IsFiniteSet(u.live) /\ bs \in SUBSET u.live
    BY <1>2 DEF Sound
<1>5. IsFiniteSet(bs) /\ Cardinality(bs) \in Nat /\ Cardinality(u.live) \in Nat
      /\ IsFiniteSet(u.live \ bs) /\ Cardinality(u.live \ bs) = Cardinality(u.live) - Cardinality(bs)
    <2>1. IsFiniteSet(bs)
        BY <1>4, FS_Subset
    <2>2. /\ IsFiniteSet(u.live \ bs)
          /\ Cardinality(u.live \ bs) = Cardinality(u.live) - Cardinality(u.live \cap bs)
        BY <1>4, FS_Difference
    <2>3. u.live \cap bs = bs
        BY <1>4
    <2> QED
        BY <1>4, <2>1, <2>2, <2>3, FS_CardinalityType
<1>6. PICK l \in SUBSET Blocks : l = u.live \ bs
    BY <1>4 DEF Heaps
<1>7. PICK n \in Int : n = u.count - Cardinality(bs)
    BY <1>4, <1>5 DEF Heaps
<1>8. PICK g : g = DataFree(h, bs)
    OBVIOUS
<1>9. g = [u EXCEPT !.live = l, !.count = n]
    BY <1>1, <1>6, <1>7, <1>8 DEF DataFree
<1>10. /\ g \in Heaps /\ g.pools = u.pools /\ g.live = l /\ g.count = n
       /\ g.emptied = u.emptied /\ g.aborted = u.aborted /\ g.dangling = u.dangling
    BY <1>4, <1>6, <1>7, <1>9 DEF Heaps
<1>11. \A d \in Depths(u) : Held(u, d) \subseteq g.live \cup {BelowArray}
    <2>1. \A d \in Depths(u) : Held(u, d) \subseteq u.live \cup {BelowArray}
        BY <1>2 DEF Sound, PoolFits
    <2> QED
        BY <1>3, <1>6, <1>10, <2>1
<1>12. IsFiniteSet(g.live) /\ ~g.aborted /\ ~g.dangling /\ g.emptied >= u.emptied
    <2>1. ~u.aborted /\ ~u.dangling /\ u.emptied \in Nat
        BY <1>2, <1>4 DEF Sound, Heaps
    <2> QED
        BY <1>5, <1>6, <1>10, <2>1
<1>13. g.count - Cardinality(g.live) - g.emptied = u.count - Cardinality(u.live) - u.emptied
    <2>1. u.count \in Int /\ u.emptied \in Nat /\ Cardinality(g.live) = Cardinality(u.live) - Cardinality(bs)
        BY <1>4, <1>5, <1>6, <1>10 DEF Heaps
    <2> QED
        BY <1>5, <1>7, <1>10, <2>1
<1>14. Sound(g)
    BY <1>2, <1>10, <1>11, <1>12, <1>13, LiveChanged
<1> QED
    BY <1>2, <1>6, <1>8, <1>10, <1>14

\* A block in the place of another.
LEMMA OneForAnother ==
    ASSUME NEW S, IsFiniteSet(S), NEW b \in S, NEW nb, nb = b \/ nb \notin S
    PROVE  /\ IsFiniteSet(S \ {b}) /\ Cardinality(S) \in Nat
           /\ Cardinality(S \ {b}) = Cardinality(S) - 1
           /\ IsFiniteSet((S \ {b}) \cup {nb})
           /\ Cardinality((S \ {b}) \cup {nb}) = Cardinality(S)
<1>1. IsFiniteSet(S \ {b}) /\ Cardinality(S \ {b}) = Cardinality(S) - 1
    BY FS_RemoveElement
<1>2. nb \notin S \ {b} /\ Cardinality(S) \in Nat
    BY FS_CardinalityType
<1>3. /\ IsFiniteSet((S \ {b}) \cup {nb})
      /\ Cardinality((S \ {b}) \cup {nb}) = Cardinality(S \ {b}) + 1
    BY <1>1, <1>2, FS_AddElement
<1> QED
    BY <1>1, <1>2, <1>3

\* DataResizeFlexible of a block of the current pool, or of none.
LEMMA GrowKeeps ==
    ASSUME NEW h, Sound(h), NEW b \in h.live, Handled(h, {b}), NEW nb \in Blocks,
           nb = b \/ nb \notin h.live
    PROVE  LET g == DataGrow(h, b, nb)
           IN  Sound(g) /\ g.live = (h.live \ {b}) \cup {nb}
<1>1. h \in Heaps /\ IsFiniteSet(h.live) /\ b # BelowArray /\ nb # BelowArray
      /\ Depth(h) \in Nat
    BY BelowIsNoBlock DEF Sound, Heaps, Depth
<1>2. PICK l \in SUBSET Blocks : l = (h.live \ {b}) \cup {nb}
    BY <1>1 DEF Heaps
<1>3. IsFiniteSet(l) /\ Cardinality(l) = Cardinality(h.live)
    BY <1>1, <1>2, OneForAnother
<1>4. PICK k : k = [h EXCEPT !.live = l]
    OBVIOUS
<1>5. /\ k \in Heaps /\ k.pools = h.pools /\ k.live = l /\ k.count = h.count
      /\ k.emptied = h.emptied /\ k.aborted = h.aborted /\ k.dangling = h.dangling
    BY <1>1, <1>2, <1>4 DEF Heaps
<1>6. PICK g : g = DataGrow(h, b, nb)
    OBVIOUS
<1>7. h.emptied \in Nat /\ h.count \in Int /\ ~h.aborted /\ ~h.dangling
    BY <1>1 DEF Sound, Heaps
<1>8. \A d \in Depths(h) : d # Depth(h) => /\ b \notin Held(h, d) /\ nb \notin Held(h, d)
                                           /\ Held(h, d) \subseteq l \cup {BelowArray}
    BY <1>1, <1>2 DEF Sound, PoolFits, Handled
<1>9. CASE ~DataIsTracked(h, b)
    <2>1. g = k
        BY <1>2, <1>4, <1>6, <1>9 DEF DataGrow
    <2>2. \A d \in Depths(h) : Held(h, d) \subseteq k.live \cup {BelowArray}
        <3>1. b \notin Held(h, Depth(h)) \/ Depth(h) = 0
            BY <1>1, <1>9 DEF DataIsTracked, Current, Held
        <3>2. Depth(h) \in Depths(h) => Held(h, Depth(h)) \subseteq k.live \cup {BelowArray}
            BY <1>1, <1>2, <1>5, <3>1 DEF Sound, PoolFits, Depths
        <3> QED
            BY <1>5, <1>8, <3>2
    <2>3. k.count - Cardinality(k.live) - k.emptied = h.count - Cardinality(h.live) - h.emptied
        BY <1>3, <1>5
    <2>4. IsFiniteSet(k.live) /\ ~k.aborted /\ ~k.dangling /\ k.emptied >= h.emptied
        BY <1>3, <1>5, <1>7
    <2>5. Sound(k)
        BY <1>5, <2>2, <2>3, <2>4, LiveChanged
    <2> QED
        BY <1>2, <1>5, <1>6, <2>1, <2>5
<1>10. CASE DataIsTracked(h, b)
    <2>1. /\ h.pools \in Seq(Pools) /\ Depth(h) \in 1 .. Len(h.pools)
          /\ Depth(h) = Len(h.pools) /\ Depth(h) \in Depths(h) /\ b \in Held(h, Depth(h))
        BY <1>1, <1>10 DEF Heaps, Depth, Depths, DataIsTracked, Current, Held
    <2>2. h.pools[Depth(h)] \in Pools
        BY <2>1
    <2>3. PICK v \in SUBSET (Blocks \cup {BelowArray}) : v = (Held(h, Depth(h)) \ {b}) \cup {nb}
        BY <2>2 DEF Pools, Held
    <2>4. PICK p : p = [h.pools[Depth(h)] EXCEPT !.held = v]
        OBVIOUS
    <2>5. p \in Pools /\ p.held = v /\ p.mem = h.pools[Depth(h)].mem
          /\ p.nulls = h.pools[Depth(h)].nulls
        BY <2>2, <2>4 DEF Pools
    <2>6. PICK s : s = [h.pools EXCEPT ![Depth(h)] = p]
        OBVIOUS
    <2>7. s \in Seq(Pools) /\ Len(s) = Len(h.pools)
          /\ \A e \in Depths(h) : s[e] = IF e = Depth(h) THEN p ELSE h.pools[e]
        BY <2>1, <2>5, <2>6, PoolReplaced DEF Depths
    <2>8. g = [k EXCEPT !.pools = s]
        <3>0. Depth(k) = Depth(h)
            BY <1>5 DEF Depth
        <3>1. g = [k EXCEPT !.pools[Depth(h)].held = (@ \ {b}) \cup {nb}]
            <4>1. g = DataReplaceTrack(k, b, nb)
                BY <1>2, <1>4, <1>6, <1>10 DEF DataGrow
            <4> QED
                BY <3>0, <4>1 DEF DataReplaceTrack
        <3>2. k.pools[Depth(h)].held = Held(h, Depth(h))
            BY <1>5 DEF Held
        <3>3. g = [k EXCEPT !.pools = [k.pools EXCEPT ![Depth(h)] = [k.pools[Depth(h)] EXCEPT !.held = v]]]
            BY <2>3, <3>1, <3>2
        <3> QED
            BY <1>5, <2>4, <2>6, <3>3
    <2>9. /\ g \in Heaps /\ g.pools = s /\ g.live = l /\ g.count = h.count
          /\ g.emptied = h.emptied /\ g.aborted = h.aborted /\ g.dangling = h.dangling
        BY <1>5, <2>7, <2>8 DEF Heaps
    <2>10. Depth(g) = Depth(h) /\ g.pools[Depth(h)] = p
           /\ \A e \in Depths(h) : e # Depth(h) => g.pools[e] = h.pools[e]
        BY <2>1, <2>7, <2>9 DEF Depth
    <2>11. Held(g, Depth(h)) = v
        BY <2>5, <2>10 DEF Held
    <2>12. PoolFits(h, Depth(h))
        BY <2>1 DEF Sound
    <2>13. PoolFits(g, Depth(h))
        <3>1. v \subseteq l \cup {BelowArray}
            BY <1>2, <2>3, <2>12, <1>1 DEF PoolFits
        <3>2. BelowArray \in v => Depth(h) > 1 /\ h.pools[Depth(h) - 1].mem /\ h.emptied > 0
            BY <1>1, <2>3, <2>12 DEF PoolFits
        <3>3. Depth(h) > 1 => Depth(h) - 1 \in Depths(h) /\ Depth(h) - 1 # Depth(h)
            BY <1>1 DEF Depths
        <3>4. BelowArray \in v => Depth(h) > 1 /\ g.pools[Depth(h) - 1].mem /\ g.emptied > 0
            BY <2>9, <2>10, <3>2, <3>3
        <3>5. g.pools[Depth(h)].nulls > 0 => g.emptied > 0
            BY <2>5, <2>9, <2>10, <2>12 DEF PoolFits
        <3> QED
            BY <2>9, <2>11, <3>1, <3>4, <3>5 DEF PoolFits
    <2>14. \A e \in Depths(h) : e # Depth(h) =>
              /\ Held(h, e) \subseteq g.live \cup {BelowArray}
              /\ Held(h, e) \cap Held(g, Depth(h)) \subseteq {BelowArray}
        BY <1>8, <2>1, <2>3, <2>9, <2>11 DEF Sound
    <2>15. Counted(g)
        <3>1. Arrays(g) = Arrays(h) /\ StackArray(g) = StackArray(h)
            BY <1>1, <2>1, <2>5, <2>9, <2>10, ArraysChanged
        <3> QED
            BY <1>3, <2>9, <3>1 DEF Sound, Counted
    <2>16. IsFiniteSet(g.live) /\ ~g.aborted /\ ~g.dangling /\ g.emptied >= h.emptied
        BY <1>3, <1>7, <2>9
    <2>17. h.pools[Depth(h)].mem => g.pools[Depth(h)].mem
        BY <2>5, <2>10
    <2>18. Sound(g)
        BY <2>1, <2>9, <2>10, <2>13, <2>14, <2>15, <2>16, <2>17, PoolChanged
    <2> QED
        BY <1>2, <1>6, <2>9, <2>18
<1> QED
    BY <1>9, <1>10

\* DataResizeFlexible to nothing.
LEMMA EmptyKeeps ==
    ASSUME NEW h, Sound(h), NEW b \in h.live, Handled(h, {b})
    PROVE  LET g == DataEmpty(h, b)
           IN  Sound(g) /\ g.live = h.live \ {b}
<1>1. h \in Heaps /\ IsFiniteSet(h.live) /\ b # BelowArray /\ Depth(h) \in Nat
    BY BelowIsNoBlock DEF Sound, Heaps, Depth
<1>2. PICK l \in SUBSET Blocks : l = h.live \ {b}
    BY <1>1 DEF Heaps
<1>3. IsFiniteSet(l) /\ Cardinality(l) = Cardinality(h.live) - 1 /\ Cardinality(h.live) \in Nat
    BY <1>1, <1>2, OneForAnother
<1>4. PICK m \in Nat : m = h.emptied + 1
    BY <1>1 DEF Heaps
<1>5. PICK k : k = [h EXCEPT !.live = l, !.emptied = m]
    OBVIOUS
<1>6. /\ k \in Heaps /\ k.pools = h.pools /\ k.live = l /\ k.count = h.count
      /\ k.emptied = m /\ k.aborted = h.aborted /\ k.dangling = h.dangling
    BY <1>1, <1>2, <1>4, <1>5 DEF Heaps
<1>7. h.emptied \in Nat /\ h.count \in Int /\ ~h.aborted /\ ~h.dangling
    BY <1>1 DEF Sound, Heaps
<1>8. \A d \in Depths(h) : d # Depth(h) => Held(h, d) \subseteq l \cup {BelowArray}
    BY <1>1, <1>2 DEF Sound, PoolFits, Handled
<1>9. PICK g : g = DataEmpty(h, b)
    OBVIOUS
<1>10. CASE ~DataIsTracked(h, b)
    <2>1. g = k
        BY <1>2, <1>4, <1>5, <1>9, <1>10 DEF DataEmpty
    <2>2. \A d \in Depths(h) : Held(h, d) \subseteq k.live \cup {BelowArray}
        <3>1. b \notin Held(h, Depth(h)) \/ Depth(h) = 0
            BY <1>1, <1>10 DEF DataIsTracked, Current, Held
        <3>2. Depth(h) \in Depths(h) => Held(h, Depth(h)) \subseteq k.live \cup {BelowArray}
            BY <1>1, <1>2, <1>6, <3>1 DEF Sound, PoolFits, Depths
        <3> QED
            BY <1>6, <1>8, <3>2
    <2>3. k.count - Cardinality(k.live) - k.emptied = h.count - Cardinality(h.live) - h.emptied
        BY <1>3, <1>4, <1>6, <1>7
    <2>4. IsFiniteSet(k.live) /\ ~k.aborted /\ ~k.dangling /\ k.emptied >= h.emptied
        <3>1. k.emptied >= h.emptied
            BY <1>4, <1>6, <1>7
        <3> QED
            BY <1>3, <1>6, <1>7, <3>1
    <2>5. Sound(k)
        BY <1>6, <2>2, <2>3, <2>4, LiveChanged
    <2> QED
        BY <1>2, <1>6, <1>9, <2>1, <2>5
<1>11. CASE DataIsTracked(h, b)
    <2>1. /\ h.pools \in Seq(Pools) /\ Depth(h) \in 1 .. Len(h.pools) /\ Depth(h) # 0
          /\ Depth(h) = Len(h.pools) /\ Depth(h) \in Depths(h) /\ b \in Held(h, Depth(h))
        BY <1>1, <1>11 DEF Heaps, Depth, Depths, DataIsTracked, Current, Held
    <2>2. h.pools[Depth(h)] \in Pools
        BY <2>1
    <2>3. PICK v \in SUBSET (Blocks \cup {BelowArray}) : v = Held(h, Depth(h)) \ {b}
        BY <2>2 DEF Pools, Held
    <2>4. PICK n \in Nat : n = h.pools[Depth(h)].nulls + 1
        BY <2>2 DEF Pools
    <2>5. PICK q : q = [h.pools[Depth(h)] EXCEPT !.held = v]
        OBVIOUS
    <2>6. q \in Pools /\ q.nulls = h.pools[Depth(h)].nulls /\ q.held = v
          /\ q.mem = h.pools[Depth(h)].mem
        BY <2>2, <2>5 DEF Pools
    <2>7. PICK p : p = [q EXCEPT !.nulls = n]
        OBVIOUS
    <2>8. p \in Pools /\ p.held = v /\ p.mem = h.pools[Depth(h)].mem
        BY <2>6, <2>7 DEF Pools
    <2>9. PICK r : r = [h.pools EXCEPT ![Depth(h)] = q]
        OBVIOUS
    <2>10. r \in Seq(Pools) /\ Len(r) = Len(h.pools)
          /\ \A e \in Depths(h) : r[e] = IF e = Depth(h) THEN q ELSE h.pools[e]
        BY <2>1, <2>6, <2>9, PoolReplaced DEF Depths
    <2>11. PICK s : s = [r EXCEPT ![Depth(h)] = p]
        OBVIOUS
    <2>12. s \in Seq(Pools) /\ Len(s) = Len(h.pools)
          /\ \A e \in Depths(h) : s[e] = IF e = Depth(h) THEN p ELSE h.pools[e]
        <3>1. /\ s \in Seq(Pools) /\ Len(s) = Len(r)
              /\ \A e \in 1 .. Len(r) : s[e] = IF e = Depth(h) THEN p ELSE r[e]
            BY <2>1, <2>8, <2>10, <2>11, PoolReplaced
        <3> QED
            BY <2>1, <2>10, <3>1 DEF Depths
    <2>13. PICK u : u = DataUntrack(k, {b})
        OBVIOUS
    <2>14. u = [k EXCEPT !.pools = r]
        <3>1. Depth(k) = Depth(h)
            BY <1>6 DEF Depth
        <3>2. u = [k EXCEPT !.pools[Depth(h)].held = @ \ {b}]
            BY <2>1, <2>13, <3>1 DEF DataUntrack
        <3>3. k.pools[Depth(h)].held = Held(h, Depth(h))
            BY <1>6 DEF Held
        <3>4. u = [k EXCEPT !.pools = [k.pools EXCEPT ![Depth(h)] = [k.pools[Depth(h)] EXCEPT !.held = v]]]
            BY <2>3, <3>2, <3>3
        <3> QED
            BY <1>6, <2>5, <2>9, <3>4
    <2>15. /\ u \in Heaps /\ u.pools = r /\ u.live = l /\ u.count = h.count
           /\ u.emptied = m /\ u.aborted = h.aborted /\ u.dangling = h.dangling
        BY <1>6, <2>10, <2>14 DEF Heaps
    <2>16. g = [u EXCEPT !.pools = s]
        <3>1. g = [u EXCEPT !.pools[Depth(h)].nulls = @ + 1]
            BY <1>2, <1>4, <1>5, <1>9, <1>11, <2>13 DEF DataEmpty
        <3>2. r[Depth(h)] = q
            BY <2>1, <2>10
        <3>3. q.nulls + 1 = n
            BY <2>4, <2>6
        <3>4. g = [u EXCEPT !.pools = [u.pools EXCEPT ![Depth(h)] = [u.pools[Depth(h)] EXCEPT !.nulls = n]]]
            BY <2>15, <3>1, <3>2, <3>3
        <3> QED
            BY <2>7, <2>11, <2>15, <3>2, <3>4
    <2>17. /\ g \in Heaps /\ g.pools = s /\ g.live = l /\ g.count = h.count
           /\ g.emptied = m /\ g.aborted = h.aborted /\ g.dangling = h.dangling
        BY <2>12, <2>15, <2>16 DEF Heaps
    <2>18. Depth(g) = Depth(h) /\ g.pools[Depth(h)] = p
           /\ \A e \in Depths(h) : e # Depth(h) => g.pools[e] = h.pools[e]
        BY <2>1, <2>12, <2>17 DEF Depth
    <2>19. Held(g, Depth(h)) = v
        BY <2>8, <2>18 DEF Held
    <2>20. PoolFits(h, Depth(h))
        BY <2>1 DEF Sound
    <2>21. g.emptied > 0
        BY <1>4, <1>7, <2>17
    <2>22. PoolFits(g, Depth(h))
        <3>1. v \subseteq l \cup {BelowArray}
            BY <1>2, <2>3, <2>20, <1>1 DEF PoolFits
        <3>2. BelowArray \in v => Depth(h) > 1 /\ h.pools[Depth(h) - 1].mem
            BY <1>1, <2>3, <2>20 DEF PoolFits
        <3>3. Depth(h) > 1 => Depth(h) - 1 \in Depths(h) /\ Depth(h) - 1 # Depth(h)
            BY <1>1 DEF Depths
        <3>4. BelowArray \in v => Depth(h) > 1 /\ g.pools[Depth(h) - 1].mem
            BY <2>18, <3>2, <3>3
        <3> QED
            BY <2>17, <2>19, <2>21, <3>1, <3>4 DEF PoolFits
    <2>23. \A e \in Depths(h) : e # Depth(h) =>
              /\ Held(h, e) \subseteq g.live \cup {BelowArray}
              /\ Held(h, e) \cap Held(g, Depth(h)) \subseteq {BelowArray}
        BY <1>8, <2>1, <2>3, <2>17, <2>19 DEF Sound
    <2>24. Counted(g)
        <3>1. Arrays(g) = Arrays(h) /\ StackArray(g) = StackArray(h)
            BY <1>1, <2>1, <2>8, <2>17, <2>18, ArraysChanged
        <3>2. Cardinality(Arrays(h)) \in Nat /\ StackArray(h) \in Nat
            BY <1>1, ArraysFinite DEF StackArray
        <3>3. Counted(h)
            BY DEF Sound
        <3>4. Cardinality(g.live) + g.emptied = Cardinality(h.live) + h.emptied
            BY <1>3, <1>4, <1>7, <2>17
        <3> QED
            BY <2>17, <3>1, <3>3, <3>4 DEF Counted
    <2>25. IsFiniteSet(g.live) /\ ~g.aborted /\ ~g.dangling /\ g.emptied >= h.emptied
        <3>1. g.emptied >= h.emptied
            BY <1>4, <1>7, <2>17
        <3> QED
            BY <1>3, <1>7, <2>17, <3>1
    <2>26. h.pools[Depth(h)].mem => g.pools[Depth(h)].mem
        BY <2>8, <2>18
    <2>27. Sound(g)
        BY <2>1, <2>17, <2>18, <2>22, <2>23, <2>24, <2>25, <2>26, PoolChanged
    <2> QED
        BY <1>2, <1>9, <2>17, <2>27
<1> QED
    BY <1>10, <1>11

\* How a step that may abort leaves the heap.
Outcome(g) ==
    /\ g.aborted => \E d \in Depths(g) : g.pools[d].nulls > 1
    /\ ~g.aborted /\ g.dangling => g.emptied > 0
    /\ ~g.aborted /\ ~g.dangling => Sound(g)

\* An abort of a pool that holds two NULLs.
LEMMA AbortOutcome ==
    ASSUME NEW h, Sound(h), Depth(h) > 0, h.pools[Depth(h)].nulls > 1
    PROVE  LET g == Abort(h)
           IN  /\ Outcome(g) /\ g.aborted /\ g \in Heaps /\ g.pools = h.pools
               /\ g.dangling = h.dangling
<1>1. h \in Heaps /\ Depth(h) \in Depths(h)
    BY DEF Sound, Heaps, Depth, Depths
<1>2. PICK g : g = Abort(h)
    OBVIOUS
<1>3. g = [h EXCEPT !.aborted = TRUE]
    BY <1>2 DEF Abort
<1>4. g.aborted /\ g \in Heaps /\ g.pools = h.pools /\ g.dangling = h.dangling
    BY <1>1, <1>3 DEF Heaps
<1>5. Outcome(g)
    BY <1>1, <1>4 DEF Outcome, Depths, Depth
<1> QED
    BY <1>2, <1>4, <1>5

\* DataFree of a NULL.
LEMMA FreeNullOutcome ==
    ASSUME NEW h, Sound(h)
    PROVE  LET g == DataFreeNull(h)
           IN  Outcome(g) /\ (~g.aborted => g.live = h.live)
<1>1. h \in Heaps /\ ~h.aborted /\ ~h.dangling /\ Depth(h) \in Nat
    BY DEF Sound, Heaps, Depth
<1>2. Depth(h) # 0 => /\ Depth(h) \in 1 .. Len(h.pools) /\ Depth(h) \in Depths(h)
                      /\ h.pools \in Seq(Pools) /\ h.pools[Depth(h)] \in Pools
                      /\ NullsTracked(h) = h.pools[Depth(h)].nulls
    BY <1>1 DEF Heaps, Depth, Depths, NullsTracked, Current
<1>3. NullsTracked(h) \in Nat
    BY <1>1, <1>2 DEF Pools, NullsTracked
<1>4. CASE NullsTracked(h) = 0
    BY <1>1, <1>4 DEF DataFreeNull, Outcome
<1>5. CASE NullsTracked(h) > 1
    <2>1. Depth(h) > 0 /\ h.pools[Depth(h)].nulls > 1
        BY <1>1, <1>2, <1>5 DEF NullsTracked
    <2>2. DataFreeNull(h) = Abort(h)
        BY <1>3, <1>5 DEF DataFreeNull
    <2> QED
        BY <2>1, <2>2, AbortOutcome
<1>6. CASE NullsTracked(h) = 1
    <2>1. Depth(h) # 0
        BY <1>6 DEF NullsTracked
    <2>2. PICK p : p = [h.pools[Depth(h)] EXCEPT !.nulls = 0]
        OBVIOUS
    <2>3. p \in Pools /\ p.held = Held(h, Depth(h)) /\ p.mem = h.pools[Depth(h)].mem /\ p.nulls = 0
        BY <1>2, <2>1, <2>2 DEF Pools, Held
    <2>4. PICK s : s = [h.pools EXCEPT ![Depth(h)] = p]
        OBVIOUS
    <2>5. s \in Seq(Pools) /\ Len(s) = Len(h.pools)
          /\ \A e \in Depths(h) : s[e] = IF e = Depth(h) THEN p ELSE h.pools[e]
        BY <1>2, <2>1, <2>3, <2>4, PoolReplaced DEF Depths, Depth
    <2>6. PICK g : g = DataFreeNull(h)
        OBVIOUS
    <2>7. g = [h EXCEPT !.pools = s]
        BY <1>6, <2>2, <2>4, <2>6 DEF DataFreeNull
    <2>8. /\ g \in Heaps /\ g.pools = s /\ g.live = h.live /\ g.count = h.count
          /\ g.emptied = h.emptied /\ g.aborted = h.aborted /\ g.dangling = h.dangling
        BY <1>1, <2>5, <2>7 DEF Heaps
    <2>9. Depth(g) = Depth(h) /\ g.pools[Depth(h)] = p
          /\ \A e \in Depths(h) : e # Depth(h) => g.pools[e] = h.pools[e]
        BY <1>2, <2>1, <2>5, <2>8 DEF Depth
    <2>10. Held(g, Depth(h)) = Held(h, Depth(h))
        BY <2>3, <2>9 DEF Held
    <2>11. PoolFits(h, Depth(h))
        BY <1>2, <2>1 DEF Sound
    <2>12. PoolFits(g, Depth(h))
        <3>1. Depth(h) > 1 => Depth(h) - 1 \in Depths(h) /\ Depth(h) - 1 # Depth(h)
            BY <1>1 DEF Depths
        <3>2. BelowArray \in Held(g, Depth(h)) =>
                 Depth(h) > 1 /\ g.pools[Depth(h) - 1].mem /\ g.emptied > 0
            BY <2>8, <2>9, <2>10, <2>11, <3>1 DEF PoolFits
        <3>3. ~(g.pools[Depth(h)].nulls > 0)
            BY <2>3, <2>9
        <3> QED
            BY <2>8, <2>10, <2>11, <3>2, <3>3 DEF PoolFits
    <2>13. \A e \in Depths(h) : e # Depth(h) =>
              /\ Held(h, e) \subseteq g.live \cup {BelowArray}
              /\ Held(h, e) \cap Held(g, Depth(h)) \subseteq {BelowArray}
        BY <1>2, <2>1, <2>8, <2>10 DEF Sound, PoolFits
    <2>14. Counted(g)
        <3>1. Arrays(g) = Arrays(h) /\ StackArray(g) = StackArray(h)
            BY <1>1, <1>2, <2>1, <2>3, <2>8, <2>9, ArraysChanged
        <3> QED
            BY <2>8, <3>1 DEF Sound, Counted
    <2>15. IsFiniteSet(g.live) /\ ~g.aborted /\ ~g.dangling /\ g.emptied >= h.emptied
        BY <1>1, <2>8 DEF Sound, Heaps
    <2>16. h.pools[Depth(h)].mem => g.pools[Depth(h)].mem
        BY <2>3, <2>9
    <2>17. Sound(g)
        BY <1>2, <2>1, <2>8, <2>9, <2>12, <2>13, <2>14, <2>15, <2>16, PoolChanged
    <2> QED
        BY <2>6, <2>8, <2>15, <2>17 DEF Outcome
<1> QED
    BY <1>3, <1>4, <1>5, <1>6

\* DataTrackPush.
LEMMA PushKeeps ==
    ASSUME NEW h, Sound(h)
    PROVE  LET g == DataTrackPush(h)
           IN  Sound(g) /\ g.live = h.live
<1>1. h \in Heaps /\ h.pools \in Seq(Pools) /\ Depth(h) = Len(h.pools) /\ Depth(h) \in Nat
    BY DEF Sound, Heaps, Depth
<1>2. EmptyPool \in Pools
    BY DEF EmptyPool, Pools
<1>3. PICK s \in Seq(Pools) : s = Append(h.pools, EmptyPool)
    BY <1>1, <1>2, AppendProperties
<1>4. Len(s) = Depth(h) + 1 /\ s[Depth(h) + 1] = EmptyPool
      /\ \A d \in Depths(h) : s[d] = h.pools[d]
    BY <1>1, <1>2, <1>3, AppendProperties DEF Depths
<1>5. PICK n \in Int : n = IF Depth(h) = 0 THEN h.count + 1 ELSE h.count
    BY <1>1 DEF Heaps
<1>6. PICK g : g = DataTrackPush(h)
    OBVIOUS
<1>7. g = [h EXCEPT !.pools = s, !.count = n]
    BY <1>3, <1>5, <1>6 DEF DataTrackPush
<1>8. /\ g \in Heaps /\ g.pools = s /\ g.live = h.live /\ g.count = n
      /\ g.emptied = h.emptied /\ g.aborted = h.aborted /\ g.dangling = h.dangling
    BY <1>1, <1>7 DEF Heaps
<1>9. Depth(g) = Depth(h) + 1
    BY <1>4, <1>8 DEF Depth
<1>10. \A d \in Depths(g) : \/ d \in Depths(h) /\ g.pools[d] = h.pools[d]
                            \/ d = Depth(h) + 1 /\ g.pools[d] = EmptyPool
    BY <1>1, <1>4, <1>8, <1>9 DEF Depths
<1>11. Depths(h) \subseteq Depths(g)
    BY <1>1, <1>9 DEF Depths
<1>12. ASSUME NEW d \in Depths(g)
       PROVE  PoolFits(g, d)
    <2>1. CASE d \in Depths(h) /\ g.pools[d] = h.pools[d]
        <3>1. PoolFits(h, d)
            BY <2>1 DEF Sound
        <3>2. d > 1 => d - 1 \in Depths(h)
            BY <1>1, <2>1 DEF Depths
        <3>3. d > 1 => g.pools[d - 1] = h.pools[d - 1]
            BY <1>4, <1>8, <3>2
        <3> QED
            BY <1>8, <2>1, <3>1, <3>3 DEF PoolFits, Held
    <2>2. CASE g.pools[d] = EmptyPool
        BY <2>2 DEF PoolFits, EmptyPool, Held
    <2> QED
        BY <1>10, <2>1, <2>2
<1>13. ASSUME NEW d \in Depths(g), NEW e \in Depths(g), d # e
       PROVE  Held(g, d) \cap Held(g, e) \subseteq {BelowArray}
    <2>1. \A c \in Depths(g) : Held(g, c) = {} \/ (c \in Depths(h) /\ Held(g, c) = Held(h, c))
        BY <1>10 DEF Held, EmptyPool
    <2> QED
        BY <1>13, <2>1 DEF Sound
<1>14. Counted(g)
    <2>1. Arrays(g) = Arrays(h)
        <3>1. ~EmptyPool.mem
            BY DEF EmptyPool
        <3> QED
            BY <1>4, <1>8, <1>10, <1>11, <3>1 DEF Arrays
    <2>2. StackArray(g) = 1 /\ StackArray(h) = IF Depth(h) = 0 THEN 0 ELSE 1
        BY <1>1, <1>9 DEF StackArray
    <2>3. Counted(h) /\ Cardinality(Arrays(h)) \in Nat /\ Cardinality(h.live) \in Nat
          /\ h.emptied \in Nat /\ h.count \in Int
        BY <1>1, ArraysFinite, FS_CardinalityType DEF Sound, Heaps
    <2>4. h.count = Cardinality(h.live) + h.emptied + Cardinality(Arrays(h)) + StackArray(h)
        BY <2>3 DEF Counted
    <2>5. n = Cardinality(h.live) + h.emptied + Cardinality(Arrays(h)) + 1
        BY <1>5, <2>2, <2>3, <2>4
    <2> QED
        BY <1>8, <2>1, <2>2, <2>5 DEF Counted
<1>15. IsFiniteSet(g.live) /\ ~g.aborted /\ ~g.dangling
    BY <1>8 DEF Sound
<1>16. Sound(g)
    BY <1>8, <1>12, <1>13, <1>14, <1>15 DEF Sound
<1> QED
    BY <1>6, <1>8, <1>16

\* DataTrackPop.
LEMMA PopOutcome ==
    ASSUME NEW h, Sound(h), Depth(h) > 0
    PROVE  LET g == DataTrackPop(h)
           IN  /\ Outcome(g)
               /\ g.aborted => g = Abort(h) /\ h.pools[Depth(h)].nulls > 1
               /\ ~g.aborted => /\ g \in Heaps /\ g.live = h.live \ Held(h, Depth(h))
                                /\ Depth(g) = Depth(h) - 1 /\ g.emptied = h.emptied
                                /\ \A d \in Depths(g) : d \in Depths(h) /\ d # Depth(h)
                                                        /\ g.pools[d] = h.pools[d]
<1>1. h \in Heaps /\ h.pools \in Seq(Pools) /\ Depth(h) = Len(h.pools) /\ Depth(h) \in Nat
      /\ Depth(h) \in Depths(h) /\ h.pools[Depth(h)] \in Pools /\ Current(h) = h.pools[Depth(h)]
    BY DEF Sound, Heaps, Depth, Depths, Current
<1>2. CASE h.pools[Depth(h)].nulls > 1
    <2>1. DataTrackPop(h) = Abort(h)
        BY <1>1, <1>2 DEF DataTrackPop
    <2> QED
        BY <1>2, <2>1, AbortOutcome
<1>3. CASE ~(h.pools[Depth(h)].nulls > 1)
    <2>1. PICK s \in Seq(Pools) : /\ s = Front(h.pools) /\ Len(s) = Depth(h) - 1
                                  /\ \A d \in 1 .. Depth(h) - 1 : s[d] = h.pools[d]
        <3>1. Front(h.pools) = SubSeq(h.pools, 1, Depth(h) - 1)
            BY <1>1 DEF Front
        <3>2. Depth(h) - 1 \in 1 - 1 .. Len(h.pools)
            BY <1>1
        <3>3. /\ SubSeq(h.pools, 1, Depth(h) - 1) \in Seq(Pools)
              /\ Len(SubSeq(h.pools, 1, Depth(h) - 1)) = Depth(h) - 1
              /\ \A d \in 1 .. Depth(h) - 1 : SubSeq(h.pools, 1, Depth(h) - 1)[d] = h.pools[d]
            BY <1>1, <3>2, SubSeqProperties
        <3> QED
            BY <3>1, <3>3
    <2>2. PICK w : w = Held(h, Depth(h))
        OBVIOUS
    <2>3. PICK l \in SUBSET Blocks : l = h.live \ w
        BY <1>1 DEF Heaps
    <2>4. PICK c : c = Cardinality(w)
        OBVIOUS
    <2>5. PICK a \in Nat : a = IF h.pools[Depth(h)].mem THEN 1 ELSE 0
        OBVIOUS
    <2>6. PICK b \in Nat : b = IF Depth(h) = 1 THEN 1 ELSE 0
        OBVIOUS
    <2>7. PICK o \in BOOLEAN : o = (BelowArray \in w)
        <3>1. CASE BelowArray \in w
            <4>1. TRUE = (BelowArray \in w)
                BY <3>1
            <4> QED
                BY <4>1
        <3>2. CASE BelowArray \notin w
            <4>1. FALSE = (BelowArray \in w)
                BY <3>2
            <4> QED
                BY <4>1
        <3> QED
            BY <3>1, <3>2
    <2>8. PoolFits(h, Depth(h))
        BY <1>1 DEF Sound
    <2>9. IsFiniteSet(w) /\ c \in Nat
        <3>1. w \subseteq h.live \cup {BelowArray}
            BY <2>2, <2>8 DEF PoolFits
        <3>2. IsFiniteSet(h.live \cup {BelowArray})
            BY FS_AddElement DEF Sound
        <3> QED
            BY <2>4, <3>1, <3>2, FS_Subset, FS_CardinalityType
    <2>10. PICK n \in Int : n = h.count - c - a - b
        BY <1>1, <2>9 DEF Heaps
    <2>11. PICK g : g = DataTrackPop(h)
        OBVIOUS
    <2>12. g = [h EXCEPT !.live = l, !.count = n, !.dangling = o, !.pools = s]
        <3>1. g = [h EXCEPT !.live = @ \ w, !.count = @ - c - a - b, !.dangling = BelowArray \in w,
                            !.pools = Front(@)]
            BY <1>1, <1>3, <2>2, <2>4, <2>5, <2>6, <2>11 DEF DataTrackPop, Held
        <3> QED
            BY <2>1, <2>3, <2>7, <2>10, <3>1
    <2>13. /\ g \in Heaps /\ g.pools = s /\ g.live = l /\ g.count = n
           /\ g.emptied = h.emptied /\ g.aborted = h.aborted /\ g.dangling = o
        BY <1>1, <2>12 DEF Heaps
    <2>14. Depth(g) = Depth(h) - 1
        BY <2>1, <2>13 DEF Depth
    <2>15. \A d \in Depths(g) : d \in Depths(h) /\ d # Depth(h) /\ g.pools[d] = h.pools[d]
        BY <1>1, <2>1, <2>13, <2>14 DEF Depths
    <2>16. ~g.aborted
        BY <2>13 DEF Sound
    <2>17. g.dangling => g.emptied > 0
        BY <2>2, <2>7, <2>8, <2>13 DEF PoolFits
    <2>18. ASSUME ~g.dangling
           PROVE  Sound(g)
        <3>1. BelowArray \notin w
            BY <2>7, <2>13, <2>18
        <3>2. w \subseteq h.live /\ l \cap w = {} /\ h.live = l \cup w
            BY <2>2, <2>3, <2>8, <3>1 DEF PoolFits
        <3>3. IsFiniteSet(h.live) /\ IsFiniteSet(l)
            BY <3>2, FS_Subset DEF Sound
        <3>4. Cardinality(h.live) = Cardinality(l) + c /\ Cardinality(l) \in Nat
            <4>1. Cardinality(l \cup w) = Cardinality(l) + Cardinality(w) - Cardinality(l \cap w)
                BY <2>9, <3>3, FS_Union
            <4>2. Cardinality(l \cap w) = 0
                BY <3>2, FS_EmptySet
            <4>3. Cardinality(l) \in Nat
                BY <3>3, FS_CardinalityType
            <4> QED
                BY <2>4, <2>9, <3>2, <4>1, <4>2, <4>3
        <3>5. ASSUME NEW d \in Depths(g)
              PROVE  PoolFits(g, d)
            <4>1. PoolFits(h, d) /\ g.pools[d] = h.pools[d]
                BY <2>15 DEF Sound
            <4>2. d > 1 => d - 1 \in Depths(g)
                BY <1>1, <2>14 DEF Depths
            <4>3. d > 1 => g.pools[d - 1] = h.pools[d - 1]
                BY <2>15, <4>2
            <4>4. Held(h, d) \cap w \subseteq {BelowArray}
                BY <1>1, <2>2, <2>15 DEF Sound
            <4>5. Held(g, d) \subseteq g.live \cup {BelowArray}
                BY <2>3, <2>13, <4>1, <4>4 DEF PoolFits, Held
            <4> QED
                BY <2>13, <4>1, <4>3, <4>5 DEF PoolFits, Held
        <3>6. \A d, e \in Depths(g) : d # e => Held(g, d) \cap Held(g, e) \subseteq {BelowArray}
            <4>1. \A d \in Depths(g) : d \in Depths(h) /\ Held(g, d) = Held(h, d)
                BY <2>15 DEF Held
            <4> QED
                BY <4>1 DEF Sound
        <3>7. Counted(g)
            <4>1. Cardinality(Arrays(h)) \in Nat /\ Cardinality(Arrays(g)) \in Nat
                  /\ Cardinality(Arrays(g)) = Cardinality(Arrays(h)) - a
                <5>1. Arrays(g) = Arrays(h) \ {Depth(h)}
                    <6>1. Depths(g) = Depths(h) \ {Depth(h)}
                        BY <1>1, <2>14 DEF Depths
                    <6> QED
                        BY <2>15, <6>1 DEF Arrays
                <5>2. h.pools[Depth(h)].mem <=> Depth(h) \in Arrays(h)
                    BY <1>1 DEF Arrays
                <5>3. IsFiniteSet(Arrays(h)) /\ Cardinality(Arrays(h)) \in Nat
                    BY <1>1, ArraysFinite
                <5>4. Cardinality(Arrays(g)) = IF Depth(h) \in Arrays(h)
                                               THEN Cardinality(Arrays(h)) - 1
                                               ELSE Cardinality(Arrays(h))
                    BY <5>1, <5>3, FS_RemoveElement
                <5>5. a = IF Depth(h) \in Arrays(h) THEN 1 ELSE 0
                    BY <2>5, <5>2
                <5>6. Cardinality(Arrays(g)) \in Nat
                    BY <2>13, ArraysFinite
                <5> QED
                    BY <5>3, <5>4, <5>5, <5>6
            <4>2. StackArray(g) = StackArray(h) - b /\ StackArray(h) \in Nat /\ StackArray(g) \in Nat
                BY <1>1, <2>6, <2>14 DEF StackArray
            <4>3. h.count = Cardinality(h.live) + h.emptied + Cardinality(Arrays(h)) + StackArray(h)
                BY DEF Sound, Counted
            <4>4. n = Cardinality(l) + h.emptied + Cardinality(Arrays(g)) + StackArray(g)
                <5>1. PICK m \in Nat : m = h.emptied
                    BY <1>1 DEF Heaps
                <5>2. PICK x \in Nat, y \in Nat : x = Cardinality(Arrays(h)) /\ y = Cardinality(Arrays(g))
                                                /\ y = x - a
                    BY <4>1
                <5>3. PICK z \in Nat, t \in Nat : z = StackArray(h) /\ t = StackArray(g) /\ t = z - b
                    BY <4>2
                <5>4. PICK k \in Nat : k = Cardinality(l) /\ Cardinality(h.live) = k + c
                    BY <3>4
                <5>5. PICK v \in Int : v = h.count
                    BY <1>1 DEF Heaps
                <5>6. v = k + c + m + x + z
                    BY <4>3, <5>1, <5>2, <5>3, <5>4, <5>5
                <5>7. n = v - c - a - b
                    BY <2>10, <5>5
                <5>8. n = k + m + y + t
                    <6>1. c \in Nat /\ y = x - a /\ t = z - b
                        BY <2>9, <5>2, <5>3
                    <6> QED
                        BY <5>6, <5>7, <6>1
                <5> QED
                    BY <5>1, <5>2, <5>3, <5>4, <5>8
            <4> QED
                BY <2>13, <4>4 DEF Counted
        <3> QED
            BY <2>13, <2>16, <2>18, <3>3, <3>5, <3>6, <3>7 DEF Sound
    <2>19. Outcome(g)
        BY <2>16, <2>17, <2>18 DEF Outcome
    <2> QED
        BY <2>2, <2>3, <2>11, <2>13, <2>14, <2>15, <2>16, <2>19
<1> QED
    BY <1>2, <1>3

\* What DatasAddRefFlexible leaves alone, also in a heap that is not sound.
LEMMA AddToPoolLeaves ==
    ASSUME NEW h \in Heaps, NEW d \in Depths(h), NEW bs \in SUBSET Blocks, Held(h, d) \cap bs = {}
    PROVE  LET g == AddToPool(h, d, bs)
           IN  /\ g.aborted = h.aborted /\ g.dangling = h.dangling /\ g.emptied = h.emptied
               /\ Depth(g) = Depth(h) /\ g.pools[d].nulls = h.pools[d].nulls
<1>1. h.pools \in Seq(Pools) /\ d \in 1 .. Len(h.pools) /\ h.pools[d] \in Pools
    BY DEF Heaps, Depth, Depths
<1>2. PICK k : k = h.pools[d].held \cup bs
    OBVIOUS
<1>3. PICK m : m = (h.pools[d].mem \/ bs # {})
    OBVIOUS
<1>4. PICK p : p = [h.pools[d] EXCEPT !.held = k, !.mem = m]
    OBVIOUS
<1>5. p.nulls = h.pools[d].nulls
    BY <1>1, <1>4 DEF Pools
<1>6. PICK s : s = [h.pools EXCEPT ![d] = p]
    OBVIOUS
<1>7. Len(s) = Len(h.pools) /\ s[d] = p
    BY <1>1, <1>6
<1>8. PICK n : n = IF h.pools[d].mem \/ bs = {} THEN h.count ELSE h.count + 1
    OBVIOUS
<1>9. PICK g : g = AddToPool(h, d, bs)
    OBVIOUS
<1>10. bs \cap h.pools[d].held = {}
    BY DEF Held
<1>11. g = [h EXCEPT !.pools = s, !.count = n]
    BY <1>2, <1>3, <1>4, <1>6, <1>8, <1>9, <1>10 DEF AddToPool
<1>12. /\ g.pools = s /\ g.emptied = h.emptied /\ g.aborted = h.aborted
       /\ g.dangling = h.dangling
    BY <1>11 DEF Heaps
<1> QED
    BY <1>5, <1>7, <1>9, <1>12 DEF Depth

\* DTPop and DTPopDatas.
LEMMA DTPopOutcome ==
    ASSUME NEW h, Sound(h), Depth(h) > 0, NEW bs \in SUBSET h.live, Handled(h, bs)
    PROVE  LET g == DTPop(h, bs)
           IN  /\ Outcome(g)
               /\ ~g.aborted /\ ~g.dangling => g.live = h.live \ (Held(h, Depth(h)) \ bs)
<1>1. PICK u : u = DataUntrack(h, bs)
    OBVIOUS
<1>2. /\ Sound(u) /\ Depth(u) = Depth(h) /\ u.live = h.live
      /\ \A d \in Depths(h) : /\ d # Depth(h) => u.pools[d] = h.pools[d]
                              /\ d = Depth(h) => Held(u, d) = Held(h, d) \ bs
    BY <1>1, UntrackKeeps
<1>3. u \in Heaps /\ Depth(h) \in Depths(h) /\ Depths(u) = Depths(h) /\ ~u.aborted /\ ~u.dangling
      /\ Depth(h) \in Nat /\ bs \in SUBSET Blocks
    BY <1>2 DEF Sound, Heaps, Depth, Depths
<1>4. \A d \in Depths(u) : Held(u, d) \cap bs = {}
    BY <1>2, <1>3 DEF Handled, Held
<1>5. PICK p : p = DataTrackPop(u)
    OBVIOUS
<1>6. /\ Outcome(p)
      /\ p.aborted => p = Abort(u) /\ u.pools[Depth(u)].nulls > 1
      /\ ~p.aborted => /\ p \in Heaps /\ p.live = u.live \ Held(u, Depth(u))
                       /\ Depth(p) = Depth(u) - 1 /\ p.emptied = u.emptied
                       /\ \A d \in Depths(p) : d \in Depths(u) /\ d # Depth(u)
                                               /\ p.pools[d] = u.pools[d]
    BY <1>2, <1>5, PopOutcome
<1>7. PICK g : g = DTPop(h, bs)
    OBVIOUS
<1>8. g = DataTrack(p, bs)
    BY <1>1, <1>5, <1>7 DEF DTPop
<1>9. CASE p.aborted
    <2>1. p \in Heaps /\ p.pools = u.pools
        BY <1>2, <1>6, <1>9, AbortOutcome
    <2>2. Depth(p) = Depth(h) /\ Depth(h) \in Depths(p) /\ Depth(p) # 0
        BY <1>2, <1>3, <2>1 DEF Depth, Depths
    <2>3. Held(p, Depth(h)) \cap bs = {}
        BY <1>3, <1>4, <2>1 DEF Held
    <2>4. g = AddToPool(p, Depth(h), bs)
        BY <1>8, <2>2 DEF DataTrack
    <2>5. g.aborted /\ Depth(g) = Depth(h)
          /\ g.pools[Depth(h)].nulls = u.pools[Depth(h)].nulls
        BY <1>3, <1>9, <2>1, <2>2, <2>3, <2>4, AddToPoolLeaves
    <2>6. Depth(h) \in Depths(g)
        BY <1>3, <2>5 DEF Depths
    <2>7. g.pools[Depth(h)].nulls > 1
        BY <1>2, <1>6, <1>9, <2>5
    <2> QED
        BY <1>7, <2>5, <2>6, <2>7 DEF Outcome
<1>10. CASE ~p.aborted /\ p.dangling
    <2>1. p \in Heaps /\ p.emptied > 0 /\ Depth(p) \in Nat
        BY <1>6, <1>10 DEF Outcome, Heaps, Depth
    <2>2. g.aborted = p.aborted /\ g.dangling = p.dangling /\ g.emptied = p.emptied
        <3>1. CASE Depth(p) = 0
            BY <1>8, <3>1 DEF DataTrack
        <3>2. CASE Depth(p) # 0
            <4>1. Depth(p) \in Depths(p)
                BY <2>1, <3>2 DEF Depths
            <4>2. Depth(p) \in Depths(u) /\ p.pools[Depth(p)] = u.pools[Depth(p)]
                BY <1>6, <1>10, <4>1
            <4>3. Held(p, Depth(p)) \cap bs = {}
                BY <1>4, <4>2 DEF Held
            <4>4. g = AddToPool(p, Depth(p), bs)
                BY <1>8, <3>2 DEF DataTrack
            <4> QED
                BY <1>3, <2>1, <4>1, <4>3, <4>4, AddToPoolLeaves
        <3> QED
            BY <3>1, <3>2
    <2> QED
        BY <1>7, <1>10, <2>1, <2>2 DEF Outcome
<1>11. CASE ~p.aborted /\ ~p.dangling
    <2>1. Sound(p)
        BY <1>6, <1>11 DEF Outcome
    <2>2. bs \in SUBSET p.live
        BY <1>2, <1>3, <1>4, <1>6, <1>11
    <2>3. \A d \in Depths(p) : Held(p, d) \cap bs = {}
        BY <1>4, <1>6, <1>11 DEF Held
    <2>4. Sound(g) /\ g.live = p.live
        BY <1>8, <2>1, <2>2, <2>3, TrackKeeps
    <2>5. g.live = h.live \ (Held(h, Depth(h)) \ bs)
        BY <1>2, <1>3, <1>6, <1>11, <2>4
    <2>6. ~g.aborted /\ ~g.dangling
        BY <2>4 DEF Sound
    <2> QED
        BY <1>7, <2>4, <2>5, <2>6 DEF Outcome
<1> QED
    BY <1>9, <1>10, <1>11

\* DataTranscend of a block of the current pool, or of none.
LEMMA TranscendKeeps ==
    ASSUME NEW h, Sound(h), NEW b \in h.live, Handled(h, {b})
    PROVE  LET g == DataTranscend(h, b)
           IN  Sound(g) /\ g.live = h.live
<1>1. PICK u : u = DataUntrack(h, {b})
    OBVIOUS
<1>2. /\ Sound(u) /\ Depth(u) = Depth(h) /\ u.live = h.live
      /\ \A d \in Depths(h) : /\ d # Depth(h) => u.pools[d] = h.pools[d]
                              /\ u.pools[d].mem = h.pools[d].mem
                              /\ d = Depth(h) => Held(u, d) = Held(h, d) \ {b}
    BY <1>1, UntrackKeeps
<1>3. u \in Heaps /\ Depths(u) = Depths(h) /\ Depth(h) \in Nat /\ b # BelowArray
    BY <1>2, BelowIsNoBlock DEF Sound, Heaps, Depth, Depths
<1>4. \A d \in Depths(u) : Held(u, d) \cap {b} = {}
    BY <1>2, <1>3 DEF Handled, Held
<1>5. PICK g : g = DataTranscend(h, b)
    OBVIOUS
<1>6. CASE Depth(h) - 1 < 1
    BY <1>1, <1>2, <1>6 DEF DataTranscend
<1>7. CASE ~(Depth(h) - 1 < 1)
    <2>1. PICK below : below = Depth(h) - 1
        OBVIOUS
    <2>2. below \in Depths(h) /\ Depth(h) \in Depths(h) /\ below # Depth(h) /\ Depth(h) > 1
        BY <1>3, <1>7, <2>1 DEF Depths
    <2>3. PICK moved : moved = AddToPool(u, below, {b})
        OBVIOUS
    <2>4. /\ Sound(moved) /\ Depth(moved) = Depth(u) /\ moved.live = u.live
          /\ moved.emptied = u.emptied
          /\ (moved.pools[below].mem <=> u.pools[below].mem \/ {b} # {})
          /\ \A e \in Depths(u) : e # below => moved.pools[e] = u.pools[e]
        BY <1>2, <1>3, <1>4, <2>2, <2>3, AddToPoolKeeps
    <2>5. g = IF ~h.pools[below].mem /\ NullsTracked(u) > 0
              THEN AddToPool(moved, Depth(h), {BelowArray}) ELSE moved
        BY <1>1, <1>5, <1>7, <2>1, <2>3 DEF DataTranscend
    <2>6. CASE ~(~h.pools[below].mem /\ NullsTracked(u) > 0)
        BY <1>2, <1>5, <2>4, <2>5, <2>6
    <2>7. CASE ~h.pools[below].mem /\ NullsTracked(u) > 0
        <3>1. PoolFits(u, Depth(h))
            BY <1>2, <1>3, <2>2 DEF Sound
        <3>2. u.pools[Depth(h)].nulls > 0
            BY <1>2, <2>2, <2>7 DEF NullsTracked, Current
        <3>3. moved.emptied > 0
            BY <2>4, <3>1, <3>2 DEF PoolFits
        <3>4. ~u.pools[below].mem
            BY <1>2, <2>2, <2>7
        <3>5. BelowArray \notin Held(u, Depth(h))
            BY <2>1, <3>1, <3>4 DEF PoolFits
        <3>6. Held(moved, Depth(h)) \cap {BelowArray} = {}
            BY <1>3, <2>2, <2>4, <3>5 DEF Held
        <3>7. moved.pools[Depth(h) - 1].mem
            BY <2>1, <2>4
        <3>8. Depth(h) \in Depths(moved)
            BY <1>2, <2>2, <2>4 DEF Depths
        <3>9. \A e \in Depths(moved) : Held(moved, e) \cap {BelowArray} \subseteq {BelowArray}
            OBVIOUS
        <3>10. Sound(g) /\ g.live = moved.live
            BY <2>2, <2>4, <2>5, <2>7, <3>3, <3>6, <3>7, <3>8, <3>9, AddToPoolKeeps
        <3> QED
            BY <1>2, <1>5, <2>4, <3>10
    <2> QED
        BY <2>6, <2>7
<1> QED
    BY <1>6, <1>7

DatasElements == [own : Blocks, parts : SUBSET Blocks]
DatasTypes == [mem : Blocks \cup {0}, elems : SUBSET DatasElements, per : {1, 3}]

\* A Datas refers to live blocks, and to none of them twice.
DatasSound(d, live) ==
    /\ d \in DatasTypes /\ BlocksOf(d) \subseteq live
    /\ \A e \in d.elems : e.own \notin e.parts /\ d.mem \notin ElementBlocks(e)
    /\ \A e, f \in d.elems : e # f => ElementBlocks(e) \cap ElementBlocks(f) = {}

PoolInv == Outcome(heap) /\ (Running => DatasSound(datas, heap.live))

\* The blocks of a Datas.
LEMMA BlocksOfDatas ==
    ASSUME NEW d \in DatasTypes, NEW x
    PROVE  x \in BlocksOf(d) <=> \/ \E e \in d.elems : x \in ElementBlocks(e)
                                 \/ x = d.mem /\ x # 0
<1> QED
    BY DEF BlocksOf

\* A Datas stays sound while its blocks stay live.
LEMMA DatasStays ==
    ASSUME NEW d, NEW live, DatasSound(d, live), NEW more, BlocksOf(d) \subseteq more
    PROVE  DatasSound(d, more)
<1> QED
    BY DEF DatasSound

\* A Datas of nothing.
LEMMA NoDatasSound ==
    ASSUME NEW per \in {1, 3}, NEW live
    PROVE  DatasSound(NoDatas(per), live)
<1>1. NoDatas(per) \in DatasTypes /\ NoDatas(per).elems = {} /\ NoDatas(per).mem = 0
    BY DEF NoDatas, DatasTypes
<1>2. \A x : x \notin BlocksOf(NoDatas(per))
    BY <1>1, BlocksOfDatas
<1> QED
    BY <1>1, <1>2 DEF DatasSound

\* What the client may operate on is in the current pool, or in none.
LEMMA UsableHandled ==
    ASSUME Sound(heap), NEW bs \in SUBSET Usable
    PROVE  bs \in SUBSET heap.live /\ bs \in SUBSET Blocks /\ Handled(heap, bs)
<1>1. heap \in Heaps /\ Depth(heap) \in Nat
    BY DEF Sound, Heaps, Depth
<1>2. bs \in SUBSET heap.live /\ bs \in SUBSET Blocks
    BY <1>1 DEF Usable, Heaps
<1>3. ASSUME NEW d \in Depths(heap), d # Depth(heap), NEW b \in bs
      PROVE  b \notin Held(heap, d)
    <2>1. b # BelowArray
        BY <1>2, BelowIsNoBlock
    <2>2. CASE ~Tracked(b)
        BY <2>2 DEF Tracked, Held, Depths
    <2>3. CASE DataIsTracked(heap, b)
        <3>1. Depth(heap) \in Depths(heap) /\ b \in Held(heap, Depth(heap))
            BY <1>1, <2>3 DEF DataIsTracked, Depths, Current, Held
        <3> QED
            BY <1>3, <2>1, <3>1 DEF Sound
    <2> QED
        BY <2>2, <2>3 DEF Usable
<1> QED
    BY <1>2, <1>3 DEF Handled

\* What is not tracked, and what is not live, no pool holds.
LEMMA UntrackedUnheld ==
    ASSUME Sound(heap), NEW bs, bs \cap heap.live = {} \/ (\A b \in bs : ~Tracked(b)),
           bs \in SUBSET Blocks
    PROVE  \A d \in Depths(heap) : Held(heap, d) \cap bs = {}
<1>1. \A d \in Depths(heap) : Held(heap, d) \subseteq heap.live \cup {BelowArray}
    BY DEF Sound, PoolFits
<1>2. BelowArray \notin bs
    BY BelowIsNoBlock
<1>3. CASE bs \cap heap.live = {}
    BY <1>1, <1>2, <1>3
<1>4. CASE \A b \in bs : ~Tracked(b)
    BY <1>4 DEF Tracked, Held, Depths
<1> QED
    BY <1>3, <1>4

\* A new block that is tracked.
LEMMA GrowNewKeeps ==
    ASSUME NEW h, Sound(h), NEW bs \in SUBSET (Blocks \ h.live), IsFiniteSet(bs)
    PROVE  LET g == DataTrack(Allocated(h, bs), bs)
           IN  /\ Sound(g) /\ g.live = h.live \cup bs /\ Depth(g) = Depth(h)
               /\ \A d \in Depths(h) :
                     Held(g, d) = Held(h, d) \cup IF d = Depth(h) THEN bs ELSE {}
<1>1. PICK k : k = Allocated(h, bs)
    OBVIOUS
<1>2. Sound(k) /\ k.pools = h.pools /\ k.live = h.live \cup bs
    BY <1>1, AllocatedKeeps
<1>3. Depth(k) = Depth(h) /\ Depths(k) = Depths(h) /\ bs \in SUBSET k.live
    BY <1>2 DEF Depth, Depths
<1>4. \A d \in Depths(k) : Held(k, d) = Held(h, d)
    BY <1>2 DEF Held
<1>5. \A d \in Depths(h) : Held(h, d) \subseteq h.live \cup {BelowArray}
    BY DEF Sound, PoolFits
<1>6. \A d \in Depths(k) : Held(k, d) \cap bs = {}
    BY <1>3, <1>4, <1>5, BelowIsNoBlock
<1> QED
    BY <1>1, <1>2, <1>3, <1>4, <1>6, TrackKeeps

\* DatasAddCopy and DictAdd.
LEMMA AddElementKeeps ==
    ASSUME NEW h, Sound(h), NEW d \in DatasTypes, NEW bs \in SUBSET (Blocks \ h.live),
           IsFiniteSet(bs), NEW nb \in Blocks,
           d.mem # 0 => d.mem \in h.live /\ Handled(h, {d.mem}),
           nb = d.mem \/ (nb \notin h.live /\ nb \notin bs)
    PROVE  LET g == AddElement(h, d, bs, nb)
           IN  Sound(g) /\ g.live = ((h.live \cup bs) \ {d.mem}) \cup {nb}
<1>1. PICK k : k = DataTrack(Allocated(h, bs), bs)
    OBVIOUS
<1>2. /\ Sound(k) /\ k.live = h.live \cup bs /\ Depth(k) = Depth(h)
      /\ \A c \in Depths(h) : Held(k, c) = Held(h, c) \cup IF c = Depth(h) THEN bs ELSE {}
    BY <1>1, GrowNewKeeps
<1>3. k.live \subseteq Blocks /\ 0 \notin Blocks
    BY <1>2, BelowIsNoBlock DEF Sound, Heaps
<1>4. PICK g : g = AddElement(h, d, bs, nb)
    OBVIOUS
<1>5. CASE d.mem = 0
    <2>1. g = DataTrack(Allocated(k, {nb}), {nb})
        BY <1>1, <1>4, <1>5 DEF AddElement, GrowNew
    <2>2. {nb} \in SUBSET (Blocks \ k.live)
        BY <1>2, <1>3, <1>5
    <2>3. IsFiniteSet({nb})
        BY FS_Singleton
    <2>4. Sound(g) /\ g.live = k.live \cup {nb}
        BY <1>2, <2>1, <2>2, <2>3, GrowNewKeeps
    <2> QED
        BY <1>2, <1>3, <1>4, <1>5, <2>4
<1>6. CASE d.mem # 0
    <2>1. g = DataGrow(k, d.mem, nb)
        BY <1>1, <1>4, <1>6 DEF AddElement
    <2>2. Handled(k, {d.mem})
        BY <1>2, <1>6 DEF Handled, Depths
    <2>3. d.mem \in k.live /\ (nb = d.mem \/ nb \notin k.live)
        BY <1>2, <1>6
    <2>4. Sound(g) /\ g.live = (k.live \ {d.mem}) \cup {nb}
        BY <1>2, <2>1, <2>2, <2>3, GrowKeeps
    <2> QED
        BY <1>2, <1>4, <2>4
<1> QED
    BY <1>5, <1>6

\* A step that keeps the heap sound, and the blocks of the Datas live.
LEMMA StepKeeps ==
    ASSUME Sound(heap'), DatasSound(datas', heap'.live)
    PROVE  PoolInv'
<1>1. ~heap'.aborted /\ ~heap'.dangling
    BY DEF Sound
<1> QED
    BY <1>1 DEF PoolInv, Outcome, Running

\* The same when the Datas is left alone.
LEMMA HeapStepKeeps ==
    ASSUME Sound(heap'), DatasSound(datas, heap.live), UNCHANGED datas,
           BlocksOf(datas) \subseteq heap'.live
    PROVE  PoolInv'
<1>1. DatasSound(datas', heap'.live)
    BY DatasStays
<1> QED
    BY <1>1, StepKeeps

\* The same for a step that may abort.
LEMMA OutcomeKeeps ==
    ASSUME Outcome(heap'),
           ~heap'.aborted /\ ~heap'.dangling => DatasSound(datas', heap'.live)
    PROVE  PoolInv'
<1> QED
    BY DEF PoolInv, Running

\* The steps that change the pools.
LEMMA PoolSteps ==
    ASSUME Sound(heap), DatasSound(datas, heap.live), Push \/ Pop \/ PopWithDatas \/ FreeNull
    PROVE  PoolInv'
<1>1. datas \in DatasTypes /\ BlocksOf(datas) \subseteq heap.live
    BY DEF DatasSound
<1>2. CASE Push
    <2>1. heap' = DataTrackPush(heap) /\ UNCHANGED datas
        BY <1>2 DEF Push
    <2>2. Sound(heap') /\ heap'.live = heap.live
        BY <2>1, PushKeeps
    <2> QED
        BY <1>1, <2>1, <2>2, HeapStepKeeps
<1>3. CASE Pop
    <2>1. heap' = DataTrackPop(heap) /\ Depth(heap) > 0
          /\ datas' = IF DatasInCurrent THEN NoDatas(datas.per) ELSE datas
        BY <1>3 DEF Pop
    <2>2. Outcome(heap') /\ (~heap'.aborted => heap'.live = heap.live \ Held(heap, Depth(heap)))
        BY <2>1, PopOutcome
    <2>3. ASSUME ~heap'.aborted
          PROVE  DatasSound(datas', heap'.live)
        <3>1. CASE DatasInCurrent
            <4>1. datas.per \in {1, 3}
                BY <1>1 DEF DatasTypes
            <4> QED
                BY <2>1, <3>1, <4>1, NoDatasSound
        <3>2. CASE ~DatasInCurrent
            <4>1. \A b \in BlocksOf(datas) : b \notin Held(heap, Depth(heap))
                BY <2>1, <3>2 DEF DatasInCurrent, DataIsTracked, Current, Held
            <4>2. BlocksOf(datas) \subseteq heap'.live
                BY <1>1, <2>2, <2>3, <4>1
            <4> QED
                BY <2>1, <3>2, <4>2, DatasStays
        <3> QED
            BY <3>1, <3>2
    <2> QED
        BY <2>2, <2>3, OutcomeKeeps
<1>4. CASE PopWithDatas
    <2>1. heap' = DTPop(heap, BlocksOf(datas)) /\ Depth(heap) > 0 /\ UNCHANGED datas
          /\ BlocksOf(datas) \in SUBSET Usable
        BY <1>4 DEF PopWithDatas, Mine
    <2>2. BlocksOf(datas) \in SUBSET heap.live /\ Handled(heap, BlocksOf(datas))
        BY <2>1, UsableHandled
    <2>3. /\ Outcome(heap')
          /\ ~heap'.aborted /\ ~heap'.dangling
                => heap'.live = heap.live \ (Held(heap, Depth(heap)) \ BlocksOf(datas))
        BY <2>1, <2>2, DTPopOutcome
    <2>4. ASSUME ~heap'.aborted, ~heap'.dangling
          PROVE  DatasSound(datas', heap'.live)
        <3>1. BlocksOf(datas) \subseteq heap'.live
            BY <2>2, <2>3, <2>4
        <3> QED
            BY <2>1, <3>1, DatasStays
    <2> QED
        BY <2>3, <2>4, OutcomeKeeps
<1>5. CASE FreeNull
    <2>1. heap' = DataFreeNull(heap) /\ UNCHANGED datas
        BY <1>5 DEF FreeNull
    <2>2. Outcome(heap') /\ (~heap'.aborted => heap'.live = heap.live)
        BY <2>1, FreeNullOutcome
    <2> QED
        BY <2>1, <2>2, OutcomeKeeps
<1> QED
    BY <1>2, <1>3, <1>4, <1>5

\* The steps of one block.
LEMMA BlockSteps ==
    ASSUME Sound(heap), DatasSound(datas, heap.live), NEW b \in Blocks,
           New(b) \/ PopWith(b) \/ Resize(b) \/ MakeEmpty(b) \/ TrackOne(b) \/ HandOver(b)
    PROVE  PoolInv'
<1>1. datas \in DatasTypes /\ BlocksOf(datas) \subseteq heap.live
    BY DEF DatasSound
<1>2. ASSUME b \in Loose
      PROVE  /\ {b} \in SUBSET heap.live /\ b \in heap.live /\ Handled(heap, {b})
             /\ b \notin BlocksOf(datas)
    BY <1>2, UsableHandled DEF Loose
<1>3. CASE New(b)
    <2>1. {b} \in SUBSET (Blocks \ heap.live) /\ IsFiniteSet({b})
        BY <1>3, FS_Singleton DEF New, Malloc, Free
    <2>2. UNCHANGED datas
          /\ (heap' = DataTrack(Allocated(heap, {b}), {b}) \/ heap' = Allocated(heap, {b}))
        BY <1>3 DEF New, GrowNew
    <2>3. Sound(heap') /\ heap'.live = heap.live \cup {b}
        BY <2>1, <2>2, AllocatedKeeps, GrowNewKeeps
    <2> QED
        BY <1>1, <2>2, <2>3, HeapStepKeeps
<1>4. CASE PopWith(b)
    <2>1. heap' = DTPop(heap, {b}) /\ Depth(heap) > 0 /\ UNCHANGED datas /\ b \in Loose
          /\ ~DatasInCurrent
        BY <1>4 DEF PopWith
    <2>2. {b} \in SUBSET heap.live /\ Handled(heap, {b})
        BY <1>2, <2>1
    <2>3. /\ Outcome(heap')
          /\ ~heap'.aborted /\ ~heap'.dangling
                => heap'.live = heap.live \ (Held(heap, Depth(heap)) \ {b})
        BY <2>1, <2>2, DTPopOutcome
    <2>4. ASSUME ~heap'.aborted, ~heap'.dangling
          PROVE  DatasSound(datas', heap'.live)
        <3>1. \A c \in BlocksOf(datas) : c \notin Held(heap, Depth(heap))
            BY <2>1 DEF DatasInCurrent, DataIsTracked, Current, Held
        <3>2. BlocksOf(datas) \subseteq heap'.live
            BY <1>1, <2>3, <2>4, <3>1
        <3> QED
            BY <2>1, <3>2, DatasStays
    <2> QED
        BY <2>3, <2>4, OutcomeKeeps
<1>5. CASE Resize(b)
    <2>1. PICK nb \in Blocks : (nb = b \/ nb \notin heap.live) /\ heap' = DataGrow(heap, b, nb)
        BY <1>5 DEF Resize, Malloc, Free
    <2>2. b \in Loose /\ UNCHANGED datas
        BY <1>5 DEF Resize
    <2>3. Sound(heap') /\ heap'.live = (heap.live \ {b}) \cup {nb}
        BY <1>2, <2>1, <2>2, GrowKeeps
    <2>4. BlocksOf(datas) \subseteq heap'.live
        BY <1>1, <1>2, <2>2, <2>3
    <2> QED
        BY <2>2, <2>3, <2>4, HeapStepKeeps
<1>6. CASE MakeEmpty(b)
    <2>1. b \in Loose /\ UNCHANGED datas /\ heap' = DataEmpty(heap, b)
        BY <1>6 DEF MakeEmpty
    <2>2. Sound(heap') /\ heap'.live = heap.live \ {b}
        BY <1>2, <2>1, EmptyKeeps
    <2>3. BlocksOf(datas) \subseteq heap'.live
        BY <1>1, <1>2, <2>1, <2>2
    <2> QED
        BY <2>1, <2>2, <2>3, HeapStepKeeps
<1>7. CASE TrackOne(b)
    <2>1. b \in Loose /\ UNCHANGED datas /\ heap' = DataTrack(heap, {b}) /\ \A c \in {b} : ~Tracked(c)
        BY <1>7 DEF TrackOne
    <2>2. \A d \in Depths(heap) : Held(heap, d) \cap {b} = {}
        BY <2>1, UntrackedUnheld
    <2>3. {b} \in SUBSET heap.live
        BY <1>2, <2>1
    <2>4. Sound(heap') /\ heap'.live = heap.live
        BY <2>1, <2>2, <2>3, TrackKeeps
    <2> QED
        BY <1>1, <2>1, <2>4, HeapStepKeeps
<1>8. CASE HandOver(b)
    <2>1. b \in Loose /\ UNCHANGED datas
        BY <1>8 DEF HandOver
    <2>2. /\ {b} \in SUBSET heap.live /\ b \in heap.live /\ Handled(heap, {b})
          /\ b \notin BlocksOf(datas)
        BY <1>2, <2>1
    <2>3. CASE heap' = DataUntrack(heap, {b})
        BY <1>1, <2>1, <2>3, UntrackKeeps, HeapStepKeeps
    <2>4. CASE heap' = DataTranscend(heap, b)
        BY <1>1, <2>1, <2>2, <2>4, TranscendKeeps, HeapStepKeeps
    <2>5. CASE heap' = DataFree(heap, {b})
        <3>1. Sound(heap') /\ heap'.live = heap.live \ {b}
            BY <2>2, <2>5, FreeKeeps
        <3>2. BlocksOf(datas) \subseteq heap'.live
            BY <1>1, <2>2, <3>1
        <3> QED
            BY <2>1, <3>1, <3>2, HeapStepKeeps
    <2> QED
        BY <1>8, <2>3, <2>4, <2>5 DEF HandOver
<1> QED
    BY <1>3, <1>4, <1>5, <1>6, <1>7, <1>8

\* A Datas with one more element, whose array may have moved.
LEMMA GrownDatas ==
    ASSUME NEW d, NEW live, DatasSound(d, live), live \subseteq Blocks,
           NEW bs \in SUBSET (Blocks \ live), NEW own \in bs, NEW nb \in Blocks,
           nb = d.mem \/ (nb \notin live /\ nb \notin bs)
    PROVE  DatasSound([d EXCEPT !.mem = nb,
                                !.elems = @ \cup {[own |-> own, parts |-> bs \ {own}]}],
                      ((live \cup bs) \ {d.mem}) \cup {nb})
<1>1. d \in DatasTypes /\ 0 \notin Blocks /\ d.mem \notin bs
    <2>1. d \in DatasTypes /\ 0 \notin Blocks
        BY BelowIsNoBlock DEF DatasSound
    <2>2. d.mem = 0 \/ d.mem \in BlocksOf(d)
        BY <2>1, BlocksOfDatas
    <2> QED
        BY <2>1, <2>2 DEF DatasSound
<1>2. PICK e : e = [own |-> own, parts |-> bs \ {own}]
    OBVIOUS
<1>3. e \in DatasElements /\ ElementBlocks(e) = bs /\ e.own \notin e.parts
    BY <1>2 DEF DatasElements, ElementBlocks
<1>4. PICK es : es = d.elems \cup {e}
    OBVIOUS
<1>5. PICK g : g = [d EXCEPT !.mem = nb, !.elems = es]
    OBVIOUS
<1>6. g \in DatasTypes /\ g.mem = nb /\ g.elems = es
    BY <1>1, <1>3, <1>4, <1>5 DEF DatasTypes
<1>7. \A f \in d.elems : ElementBlocks(f) \subseteq live /\ d.mem \notin ElementBlocks(f)
                         /\ f.own \notin f.parts
    BY <1>1, BlocksOfDatas DEF DatasSound
<1>8. BlocksOf(g) \subseteq ((live \cup bs) \ {d.mem}) \cup {nb}
    <2>1. \A f \in es : ElementBlocks(f) \subseteq (live \cup bs) \ {d.mem}
        BY <1>1, <1>3, <1>4, <1>7
    <2> QED
        BY <1>6, <2>1, BlocksOfDatas
<1>9. \A f \in es : f.own \notin f.parts /\ nb \notin ElementBlocks(f)
    BY <1>1, <1>3, <1>4, <1>7
<1>10. \A f, h \in es : f # h => ElementBlocks(f) \cap ElementBlocks(h) = {}
    <2>1. \A f \in d.elems : ElementBlocks(f) \cap bs = {}
        BY <1>7
    <2>2. \A f, h \in d.elems : f # h => ElementBlocks(f) \cap ElementBlocks(h) = {}
        BY DEF DatasSound
    <2> QED
        BY <1>3, <1>4, <2>1, <2>2
<1>11. DatasSound(g, ((live \cup bs) \ {d.mem}) \cup {nb})
    BY <1>6, <1>8, <1>9, <1>10 DEF DatasSound
<1> QED
    BY <1>2, <1>4, <1>5, <1>11

\* A Datas with one element less.
LEMMA ShrunkDatas ==
    ASSUME NEW d, NEW live, DatasSound(d, live), NEW e \in d.elems
    PROVE  DatasSound([d EXCEPT !.elems = @ \ {e}], live \ ElementBlocks(e))
<1>1. d \in DatasTypes
    BY DEF DatasSound
<1>2. PICK es : es = d.elems \ {e}
    OBVIOUS
<1>3. PICK g : g = [d EXCEPT !.elems = es]
    OBVIOUS
<1>4. g \in DatasTypes /\ g.mem = d.mem /\ g.elems = es
    BY <1>1, <1>2, <1>3 DEF DatasTypes
<1>5. \A f \in es : ElementBlocks(f) \cap ElementBlocks(e) = {} /\ f \in d.elems
    BY <1>2 DEF DatasSound
<1>6. d.mem \notin ElementBlocks(e)
    BY DEF DatasSound
<1>7. \A x \in BlocksOf(g) : x \in BlocksOf(d) /\ x \notin ElementBlocks(e)
    BY <1>1, <1>4, <1>5, <1>6, BlocksOfDatas
<1>8. BlocksOf(g) \subseteq live \ ElementBlocks(e)
    BY <1>7 DEF DatasSound
<1>9. DatasSound(g, live \ ElementBlocks(e))
    BY <1>4, <1>5, <1>8 DEF DatasSound
<1> QED
    BY <1>2, <1>3, <1>9

\* The steps of the Datas.
LEMMA DatasSteps ==
    ASSUME Sound(heap), DatasSound(datas, heap.live),
           \/ DatasAdd \/ DatasHandOver \/ DatasFreed \/ \E e \in datas.elems : DatasRemove(e)
    PROVE  PoolInv'
<1>1. /\ datas \in DatasTypes /\ BlocksOf(datas) \subseteq heap.live /\ datas.per \in {1, 3}
      /\ heap.live \in SUBSET Blocks
    BY DEF DatasSound, DatasTypes, Sound, Heaps
<1>2. CASE DatasAdd
    <2>1. BlocksOf(datas) \in SUBSET Usable
        BY <1>2 DEF DatasAdd, Mine
    <2>2. PICK bs \in SUBSET Blocks : \E own \in bs, nb \in Blocks :
             /\ Malloc(bs) /\ (nb = datas.mem \/ (Malloc(bs \cup {nb}) /\ nb \notin bs))
             /\ heap' = AddElement(heap, datas, bs, nb)
             /\ datas' = [datas EXCEPT !.mem = nb,
                                       !.elems = @ \cup {[own |-> own, parts |-> bs \ {own}]}]
        BY <1>2 DEF DatasAdd
    <2>3. PICK own \in bs, nb \in Blocks :
             /\ Malloc(bs) /\ (nb = datas.mem \/ (Malloc(bs \cup {nb}) /\ nb \notin bs))
             /\ heap' = AddElement(heap, datas, bs, nb)
             /\ datas' = [datas EXCEPT !.mem = nb,
                                       !.elems = @ \cup {[own |-> own, parts |-> bs \ {own}]}]
        BY <2>2
    <2>4. bs \in SUBSET (Blocks \ heap.live) /\ (nb = datas.mem \/ (nb \notin heap.live /\ nb \notin bs))
        BY <2>3 DEF Malloc, Free
    <2>5. IsFiniteSet(bs)
        BY FS_Subset, DataPoolAssumption
    <2>6. datas.mem # 0 => datas.mem \in heap.live /\ Handled(heap, {datas.mem})
        <3>1. datas.mem # 0 => datas.mem \in BlocksOf(datas)
            BY <1>1, BlocksOfDatas
        <3>2. datas.mem # 0 => {datas.mem} \in SUBSET Usable
            BY <2>1, <3>1
        <3> QED
            BY <1>1, <3>1, <3>2, UsableHandled
    <2>7. Sound(heap') /\ heap'.live = ((heap.live \cup bs) \ {datas.mem}) \cup {nb}
        BY <1>1, <2>3, <2>4, <2>5, <2>6, AddElementKeeps
    <2>8. DatasSound(datas', heap'.live)
        <3>1. PICK g : g = [datas EXCEPT !.mem = nb,
                                         !.elems = @ \cup {[own |-> own, parts |-> bs \ {own}]}]
            OBVIOUS
        <3>2. PICK l : l = heap.live
            OBVIOUS
        <3>3. DatasSound(datas, l) /\ l \subseteq Blocks /\ bs \in SUBSET (Blocks \ l)
              /\ (nb = datas.mem \/ (nb \notin l /\ nb \notin bs))
            BY <1>1, <2>4, <3>2
        <3>4. DatasSound(g, ((l \cup bs) \ {datas.mem}) \cup {nb})
            BY <3>1, <3>3, GrownDatas
        <3>5. datas' = g /\ heap'.live = ((l \cup bs) \ {datas.mem}) \cup {nb}
            BY <2>3, <2>7, <3>1, <3>2
        <3> QED
            BY <3>4, <3>5
    <2> QED
        BY <2>7, <2>8, StepKeeps
<1>3. CASE DatasHandOver
    <2>1. UNCHANGED datas
        BY <1>3 DEF DatasHandOver
    <2>2. CASE heap' = DataUntrack(heap, BlocksOf(datas))
        BY <1>1, <2>1, <2>2, UntrackKeeps, HeapStepKeeps
    <2>3. CASE heap' = DataTrack(heap, BlocksOf(datas)) /\ \A b \in BlocksOf(datas) : ~Tracked(b)
        <3>1. \A d \in Depths(heap) : Held(heap, d) \cap BlocksOf(datas) = {}
            BY <1>1, <2>3, UntrackedUnheld
        <3>2. Sound(heap') /\ heap'.live = heap.live
            BY <1>1, <2>3, <3>1, TrackKeeps
        <3> QED
            BY <1>1, <2>1, <3>2, HeapStepKeeps
    <2> QED
        BY <1>3, <2>2, <2>3 DEF DatasHandOver
<1>4. CASE DatasFreed
    <2>1. heap' = DatasFree(heap, datas) /\ datas' = NoDatas(datas.per)
          /\ BlocksOf(datas) \in SUBSET Usable
        BY <1>4 DEF DatasFreed, Mine
    <2>2. PICK bs \in SUBSET Usable : heap' = DataFree(heap, bs)
        BY <2>1 DEF DatasFree
    <2>3. bs \in SUBSET heap.live /\ Handled(heap, bs)
        BY UsableHandled
    <2>4. Sound(heap')
        BY <2>2, <2>3, FreeKeeps
    <2>5. DatasSound(datas', heap'.live)
        BY <1>1, <2>1, NoDatasSound
    <2> QED
        BY <2>4, <2>5, StepKeeps
<1>5. CASE \E e \in datas.elems : DatasRemove(e)
    <2>1. PICK e \in datas.elems : DatasRemove(e)
        BY <1>5
    <2>2. /\ heap' = DataFree(heap, ElementBlocks(e)) /\ datas' = [datas EXCEPT !.elems = @ \ {e}]
          /\ BlocksOf(datas) \in SUBSET Usable
        BY <2>1 DEF DatasRemove, RemoveElement, Mine
    <2>3. ElementBlocks(e) \in SUBSET Usable
        BY <1>1, <2>2, BlocksOfDatas
    <2>4. ElementBlocks(e) \in SUBSET heap.live /\ Handled(heap, ElementBlocks(e))
        BY <2>3, UsableHandled
    <2>5. Sound(heap') /\ heap'.live = heap.live \ ElementBlocks(e)
        BY <2>2, <2>4, FreeKeeps
    <2>6. DatasSound(datas', heap'.live)
        BY <2>2, <2>5, ShrunkDatas
    <2> QED
        BY <2>5, <2>6, StepKeeps
<1> QED
    BY <1>2, <1>3, <1>4, <1>5

\* At first there is no pool and no block.
LEMMA PoolStart ==
    ASSUME PoolInit
    PROVE  PoolInv
<1>1. /\ heap = [pools |-> <<>>, live |-> {}, count |-> 0, emptied |-> 0, aborted |-> FALSE,
                 dangling |-> FALSE]
      /\ datas = NoDatas(1) \/ datas = NoDatas(3)
    BY DEF PoolInit
<1>2. <<>> \in Seq(Pools) /\ Len(<<>>) = 0
    OBVIOUS
<1>3. heap \in Heaps /\ Depth(heap) = 0 /\ ~heap.aborted /\ ~heap.dangling /\ heap.live = {}
      /\ heap.count = 0 /\ heap.emptied = 0
    BY <1>1, <1>2 DEF Heaps, Depth
<1>4. Depths(heap) = {} /\ Arrays(heap) = {} /\ StackArray(heap) = 0
    BY <1>3 DEF Depths, Arrays, StackArray
<1>5. Counted(heap)
    BY <1>3, <1>4, FS_EmptySet DEF Counted
<1>6. Sound(heap)
    BY <1>3, <1>4, <1>5, FS_EmptySet DEF Sound
<1>7. DatasSound(datas, heap.live)
    BY <1>1, NoDatasSound
<1> QED
    BY <1>3, <1>6, <1>7 DEF PoolInv, Outcome

\* The invariant is inductive.
LEMMA PoolStep ==
    ASSUME PoolInv, [PoolNext]_poolVars
    PROVE  PoolInv'
<1>1. CASE UNCHANGED poolVars
    BY <1>1 DEF poolVars, PoolInv, Outcome, Running, Sound, DatasSound, Depths, Depth, PoolFits,
                Held, Counted, Arrays, StackArray, BlocksOf, ElementBlocks
<1>2. CASE PoolNext
    <2>1. Running
        BY <1>2 DEF PoolNext, Push, Pop, PopWithDatas, FreeNull, DatasAdd, DatasHandOver, DatasFreed,
                    New, PopWith, Resize, MakeEmpty, TrackOne, HandOver, DatasRemove
    <2>2. Sound(heap) /\ DatasSound(datas, heap.live)
        BY <2>1 DEF PoolInv, Outcome, Running
    <2>3. CASE Push \/ Pop \/ PopWithDatas \/ FreeNull
        BY <2>2, <2>3, PoolSteps
    <2>4. CASE \E b \in Blocks : New(b) \/ PopWith(b) \/ Resize(b) \/ MakeEmpty(b) \/ TrackOne(b)
                                 \/ HandOver(b)
        BY <2>2, <2>4, BlockSteps
    <2>5. CASE \/ DatasAdd \/ DatasHandOver \/ DatasFreed
               \/ \E e \in datas.elems : DatasRemove(e)
        BY <2>2, <2>5, DatasSteps
    <2> QED
        BY <1>2, <2>3, <2>4, <2>5 DEF PoolNext
<1> QED
    BY <1>1, <1>2

\* What the invariant says of ownership.
LEMMA SoundOwns ==
    ASSUME PoolInv
    PROVE  PoolsOwnLive
<1>1. CASE heap.aborted
    BY <1>1 DEF PoolInv, Outcome, PoolsOwnLive, Depths, Running
<1>2. CASE ~heap.aborted /\ heap.dangling
    BY <1>2 DEF PoolInv, Outcome, PoolsOwnLive, Running
<1>3. CASE ~heap.aborted /\ ~heap.dangling
    <2>1. Sound(heap)
        BY <1>3 DEF PoolInv, Outcome
    <2>2. \A d \in 1 .. Depth(heap) : heap.pools[d].held \subseteq heap.live \cup {BelowArray}
        BY <2>1 DEF Sound, PoolFits, Held, Depths
    <2>3. \A d, e \in 1 .. Depth(heap) :
             d # e => heap.pools[d].held \cap heap.pools[e].held \subseteq {BelowArray}
        BY <2>1 DEF Sound, Held, Depths
    <2>4. heap.count = Cardinality(heap.live) + heap.emptied
                          + Cardinality({d \in 1 .. Depth(heap) : heap.pools[d].mem})
                          + (IF Depth(heap) = 0 THEN 0 ELSE 1)
        BY <2>1 DEF Sound, Counted, Arrays, StackArray, Depths
    <2> QED
        BY <1>3, <2>2, <2>3, <2>4 DEF PoolsOwnLive
<1> QED
    BY <1>1, <1>2, <1>3

\* Pools own what they hold: whatever a thread does with its pools, blocks,
\* Datas and dictionaries, a pool holds live blocks only and shares none, and
\* allocatedCount is exact but for the Datas resized to nothing, for any number
\* of blocks, pools and steps.
THEOREM PoolsOwnTheirBlocks == PoolInit /\ [][PoolNext]_poolVars => []PoolsOwnLive
<1>1. PoolInit => PoolInv
    BY PoolStart
<1>2. PoolInv /\ [PoolNext]_poolVars => PoolInv'
    BY PoolStep
<1>3. PoolInv => PoolsOwnLive
    BY SoundOwns
<1> QED
    BY <1>1, <1>2, <1>3, PTL
=============================================================================
