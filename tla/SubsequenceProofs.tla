-------------------------- MODULE SubsequenceProofs --------------------------
(***************************************************************************)
(* Lemmas about the elements of a sequence that are in a set.  What they   *)
(* say of every sequence rests on SequencesByAppend, which states an       *)
(* induction over sequences as a fact about sets of sequences.             *)
(***************************************************************************)
EXTENDS Subsequences, SequencesExt, SequenceTheorems, FiniteSetTheorems,
        NaturalsInduction, WellFoundedInduction, TLAPS

-----------------------------------------------------------------------------
(* Sequences *)

\* A sequence that is not empty is one element more than another.
LEMMA LastOfSequence ==
    ASSUME NEW T, NEW s \in Seq(T), Len(s) # 0
    PROVE  \E r \in Seq(T) : \E x \in T : s = Append(r, x) /\ Len(r) = Len(s) - 1
<1> DEFINE r == [i \in 1 .. Len(s) - 1 |-> s[i]]
           x == s[Len(s)]
<1>0. Len(s) \in Nat /\ Len(s) \in 1 .. Len(s) /\ Len(s) - 1 \in 0 .. Len(s)
    OBVIOUS
<1>1. r \in Seq(T) /\ Len(r) = Len(s) - 1 /\ x \in T
    <2>1. \A i \in 1 .. Len(s) - 1 : s[i] \in T
        OBVIOUS
    <2>2. x \in T
        BY <1>0
    <2>3. QED
        BY <1>0, <2>1, <2>2
<1>2. \A i \in 1 .. Len(r) : r[i] = s[i]
    OBVIOUS
<1>3. Append(r, x) \in Seq(T) /\ Len(Append(r, x)) = Len(s)
    BY <1>1
<1>4. \A i \in 1 .. Len(s) : Append(r, x)[i] = s[i]
    BY <1>1, <1>2
<1>5. s = Append(r, x)
    <2> HIDE DEF r, x
    <2>1. QED
        BY <1>3, <1>4
<1>6. QED
    BY <1>1, <1>5

\* A set that holds the empty sequence, and with a sequence every one that is
\* longer by an element, holds all.
LEMMA SequencesByAppend ==
    ASSUME NEW T, NEW A, <<>> \in A,
           \A s \in Seq(T) : \A x \in T : s \in A => Append(s, x) \in A
    PROVE  \A s \in Seq(T) : s \in A
<1> DEFINE Bad == {n \in Nat : \E s \in Seq(T) : Len(s) = n /\ s \notin A}
<1>1. SUFFICES ASSUME Bad # {} PROVE FALSE
    OBVIOUS
<1>2. PICK n \in Bad : \A m \in Bad : ~(<<m, n>> \in OpToRel(<, Nat))
    BY <1>1, WFMin, NatLessThanWellFounded
<1>3. n \in Nat /\ \A m \in Bad : ~(m < n)
    BY <1>2 DEF OpToRel
<1>4. PICK s \in Seq(T) : Len(s) = n /\ s \notin A
    BY <1>2
<1>5. Len(s) # 0
    BY <1>4
<1>6. PICK r \in Seq(T) : \E x \in T : s = Append(r, x) /\ Len(r) = Len(s) - 1
    BY <1>5, LastOfSequence
<1>7. r \in A
    BY <1>3, <1>4, <1>5, <1>6
<1>8. QED
    BY <1>4, <1>6, <1>7

\* The elements of a concatenation.
LEMMA ElementsConcat ==
    ASSUME NEW T, NEW s \in Seq(T), NEW t \in Seq(T)
    PROVE  s \o t \in Seq(T) /\ ToSet(s \o t) = ToSet(s) \cup ToSet(t)
<1>1. PICK u \in Seq(T) : u = s \o t
    BY ConcatProperties
<1>2. /\ Len(s) \in Nat /\ Len(t) \in Nat /\ DOMAIN s = 1 .. Len(s) /\ DOMAIN t = 1 .. Len(t)
      /\ DOMAIN u = 1 .. Len(s) + Len(t)
    BY <1>1
<1>3. \A i \in 1 .. Len(s) + Len(t) : u[i] = IF i <= Len(s) THEN s[i] ELSE t[i - Len(s)]
    BY <1>1, ConcatProperties
<1>4. ASSUME NEW x, x \in ToSet(u) PROVE x \in ToSet(s) \cup ToSet(t)
    <2>1. PICK i \in 1 .. Len(s) + Len(t) : x = u[i]
        BY <1>2, <1>4 DEF ToSet
    <2>2. CASE i <= Len(s)
        BY <1>2, <1>3, <2>1, <2>2 DEF ToSet
    <2>3. CASE ~(i <= Len(s))
        <3>1. i - Len(s) \in 1 .. Len(t) /\ x = t[i - Len(s)]
            BY <1>2, <1>3, <2>1, <2>3
        <3>2. QED
            BY <1>2, <3>1 DEF ToSet
    <2>4. QED
        BY <2>2, <2>3
<1>5. ASSUME NEW x, x \in ToSet(s) PROVE x \in ToSet(u)
    <2>1. PICK i \in 1 .. Len(s) : x = s[i]
        BY <1>2, <1>5 DEF ToSet
    <2>2. i \in DOMAIN u /\ u[i] = x
        BY <1>2, <1>3, <2>1
    <2>3. QED
        BY <2>2 DEF ToSet
<1>6. ASSUME NEW x, x \in ToSet(t) PROVE x \in ToSet(u)
    <2>1. PICK i \in 1 .. Len(t) : x = t[i]
        BY <1>2, <1>6 DEF ToSet
    <2>2. i + Len(s) \in 1 .. Len(s) + Len(t) /\ ~(i + Len(s) <= Len(s)) /\ (i + Len(s)) - Len(s) = i
        BY <1>2, <2>1
    <2>3. i + Len(s) \in DOMAIN u /\ u[i + Len(s)] = x
        BY <1>2, <1>3, <2>1, <2>2
    <2>4. QED
        BY <2>3 DEF ToSet
<1>7. QED
    BY <1>1, <1>4, <1>5, <1>6

-----------------------------------------------------------------------------
(* Within *)

\* f counts with the loop of Within.
Keeps(f, s, S) ==
    f = [i \in 0 .. Len(s) |->
            IF i = 0 THEN <<>>
            ELSE IF s[i] \in S THEN Append(f[i - 1], s[i]) ELSE f[i - 1]]

\* The loop over a sequence that is longer by an element takes one round more.
LEMMA KeepsAppend ==
    ASSUME NEW T, NEW s \in Seq(T), NEW x \in T, NEW S, NEW f, Keeps(f, s, S)
    PROVE  \E g : /\ Keeps(g, Append(s, x), S)
                  /\ g[Len(s) + 1] = IF x \in S THEN Append(f[Len(s)], x) ELSE f[Len(s)]
<1> DEFINE N == Len(s)
           last == IF x \in S THEN Append(f[N], x) ELSE f[N]
           g == [i \in 0 .. N + 1 |-> IF i = N + 1 THEN last ELSE f[i]]
           t == Append(s, x)
<1>1. N \in Nat /\ Len(t) = N + 1 /\ t[N + 1] = x /\ \A i \in 1 .. N : t[i] = s[i]
    OBVIOUS
<1>2. \A i \in 0 .. N : f[i] = IF i = 0 THEN <<>>
                               ELSE IF s[i] \in S THEN Append(f[i - 1], s[i]) ELSE f[i - 1]
    BY DEF Keeps
<1>3. g[N + 1] = last /\ \A i \in 0 .. N : g[i] = f[i]
    BY <1>1
<1>4. ASSUME NEW i \in 0 .. N + 1
      PROVE  g[i] = IF i = 0 THEN <<>>
                    ELSE IF t[i] \in S THEN Append(g[i - 1], t[i]) ELSE g[i - 1]
    <2> HIDE DEF g, t, N
    <2>1. CASE i = N + 1
        <3>1. i # 0 /\ i - 1 = N /\ N \in 0 .. N
            BY <1>1, <2>1
        <3>2. g[i - 1] = f[N] /\ t[i] = x /\ g[i] = last
            BY <1>1, <1>3, <2>1, <3>1
        <3>3. QED
            BY <3>1, <3>2
    <2>2. CASE i = 0
        BY <1>1, <1>2, <1>3, <2>2
    <2>3. CASE i # N + 1 /\ i # 0
        <3>1. i \in 0 .. N /\ i \in 1 .. N /\ i - 1 \in 0 .. N
            BY <1>1, <2>3
        <3>2. g[i] = f[i] /\ g[i - 1] = f[i - 1] /\ t[i] = s[i]
            BY <1>1, <1>3, <3>1
        <3>3. QED
            BY <1>2, <2>3, <3>1, <3>2
    <2>4. QED
        BY <2>1, <2>2, <2>3
<1>5. Keeps(g, t, S)
    <2>1. g = [i \in 0 .. Len(t) |-> g[i]]
        BY <1>1
    <2> HIDE DEF g, t, N
    <2>2. QED
        BY <1>1, <1>4, <2>1 DEF Keeps
<1>6. QED
    <2> HIDE DEF g
    <2>1. QED
        BY <1>3, <1>5

\* Two functions that count with the loop are the same.
LEMMA KeepsOnce ==
    ASSUME NEW T, NEW s \in Seq(T), NEW S, NEW f, NEW g, Keeps(f, s, S), Keeps(g, s, S)
    PROVE  f = g
<1> DEFINE N == Len(s)
           Bad == {i \in 0 .. N : f[i] # g[i]}
<1>0. N \in Nat
    OBVIOUS
<1>1. /\ \A i \in 0 .. N : f[i] = IF i = 0 THEN <<>>
                               ELSE IF s[i] \in S THEN Append(f[i - 1], s[i]) ELSE f[i - 1]
      /\ \A i \in 0 .. N : g[i] = IF i = 0 THEN <<>>
                               ELSE IF s[i] \in S THEN Append(g[i - 1], s[i]) ELSE g[i - 1]
    BY DEF Keeps
<1>2. ASSUME Bad # {} PROVE FALSE
    <2>1. Bad \subseteq Nat
        BY <1>0
    <2>2. PICK k \in Bad : \A j \in Bad : ~(<<j, k>> \in OpToRel(<, Nat))
        <3> HIDE DEF Bad
        <3>1. QED
            BY <1>2, <2>1, WFMin, NatLessThanWellFounded
    <2>3. k \in 0 .. N /\ f[k] # g[k]
        OBVIOUS
    <2>4. \A j \in Bad : ~(j < k)
        <3> HIDE DEF Bad
        <3>1. QED
            BY <2>1, <2>2 DEF OpToRel
    <2>5. k # 0
        BY <1>0, <1>1, <2>3
    <2>6. k - 1 \in 0 .. N /\ f[k - 1] = g[k - 1]
        BY <1>0, <2>3, <2>4, <2>5
    <2>7. QED
        BY <1>1, <2>3, <2>5, <2>6
<1>3. \A i \in 0 .. N : f[i] = g[i]
    BY <1>2
<1>4. f = [i \in 0 .. N |-> f[i]] /\ g = [i \in 0 .. N |-> g[i]]
    <2>1. ASSUME NEW e, e = [i \in 0 .. N |->
                        IF i = 0 THEN <<>>
                        ELSE IF s[i] \in S THEN Append(e[i - 1], s[i]) ELSE e[i - 1]]
          PROVE  e = [i \in 0 .. N |-> e[i]]
        BY <2>1, <1>0
    <2>2. QED
        BY <2>1 DEF Keeps
<1>5. QED
    BY <1>3, <1>4

\* The loop has a function, for every sequence.
LEMMA KeepsExists ==
    ASSUME NEW T, NEW s \in Seq(T), NEW S
    PROVE  \E f : Keeps(f, s, S)
<1> DEFINE A == {r \in Seq(T) : \E f : Keeps(f, r, S)}
<1>1. <<>> \in A
    <2>1. Keeps([i \in 0 .. 0 |-> <<>>], <<>>, S)
        BY DEF Keeps
    <2>2. QED
        BY <2>1
<1>2. ASSUME NEW r \in Seq(T), NEW x \in T, r \in A PROVE Append(r, x) \in A
    BY <1>2, KeepsAppend
<1>3. \A r \in Seq(T) : r \in A
    <2> HIDE DEF A
    <2>1. QED
        BY <1>1, <1>2, SequencesByAppend
<1>4. QED
    BY <1>3

\* Within is the last value of the loop.
LEMMA WithinKeeps ==
    ASSUME NEW T, NEW s \in Seq(T), NEW S, NEW f, Keeps(f, s, S)
    PROVE  Within(s, S) = f[Len(s)]
<1> DEFINE kept == CHOOSE g : Keeps(g, s, S)
<1>1. Keeps(kept, s, S)
    <2>1. \E g : Keeps(g, s, S)
        OBVIOUS
    <2>2. QED
        BY <2>1
<1>2. kept = f
    <2> HIDE DEF kept
    <2>1. QED
        BY <1>1, KeepsOnce
<1>3. Within(s, S) = kept[Len(s)]
    BY Zenon DEF Within, Keeps
<1>4. QED
    BY <1>2, <1>3

\* Nothing is in an empty sequence.
LEMMA WithinEmpty == ASSUME NEW S PROVE Within(<<>>, S) = <<>>
<1>1. <<>> \in Seq({})
    OBVIOUS
<1>2. PICK f : Keeps(f, <<>>, S)
    BY <1>1, KeepsExists
<1>3. Within(<<>>, S) = f[Len(<<>>)] /\ Len(<<>>) = 0
    BY <1>1, <1>2, WithinKeeps
<1>4. QED
    BY <1>2, <1>3 DEF Keeps

\* One element more is kept if it is in the set.
LEMMA WithinAppend ==
    ASSUME NEW T, NEW s \in Seq(T), NEW x \in T, NEW S
    PROVE  Within(Append(s, x), S) = IF x \in S THEN Append(Within(s, S), x) ELSE Within(s, S)
<1>1. PICK f : Keeps(f, s, S)
    BY KeepsExists
<1>2. PICK g : /\ Keeps(g, Append(s, x), S)
               /\ g[Len(s) + 1] = IF x \in S THEN Append(f[Len(s)], x) ELSE f[Len(s)]
    BY <1>1, KeepsAppend
<1>3. Append(s, x) \in Seq(T) /\ Len(Append(s, x)) = Len(s) + 1
    OBVIOUS
<1>4. Within(s, S) = f[Len(s)] /\ Within(Append(s, x), S) = g[Len(s) + 1]
    BY <1>1, <1>2, <1>3, WithinKeeps
<1>5. QED
    BY <1>2, <1>4

\* What is kept is in the sequence and in the set.
LEMMA WithinType ==
    ASSUME NEW T, NEW s \in Seq(T), NEW S
    PROVE  /\ Within(s, S) \in Seq(T)
           /\ Within(s, S) \in Seq(T \cap S)
<1> DEFINE A == {r \in Seq(T) : Within(r, S) \in Seq(T) /\ Within(r, S) \in Seq(T \cap S)}
<1>0. ASSUME NEW V, NEW w \in Seq(V), NEW x \in V PROVE Append(w, x) \in Seq(V)
    OBVIOUS
<1>1. <<>> \in A
    <2>1. <<>> \in Seq(T) /\ <<>> \in Seq(T \cap S)
        OBVIOUS
    <2>2. QED
        BY <2>1, WithinEmpty
<1>2. ASSUME NEW r \in Seq(T), NEW x \in T, r \in A PROVE Append(r, x) \in A
    <2>1. Within(r, S) \in Seq(T) /\ Within(r, S) \in Seq(T \cap S)
        BY <1>2
    <2>2. Within(Append(r, x), S) = IF x \in S THEN Append(Within(r, S), x) ELSE Within(r, S)
        BY WithinAppend
    <2>3. Append(r, x) \in Seq(T)
        OBVIOUS
    <2>4. CASE x \in S
        <3>1. x \in T \cap S
            BY <2>4
        <3>2. Append(Within(r, S), x) \in Seq(T) /\ Append(Within(r, S), x) \in Seq(T \cap S)
            BY <1>0, <2>1, <3>1
        <3>3. QED
            BY <2>2, <2>3, <2>4, <3>2
    <2>5. CASE x \notin S
        BY <2>1, <2>2, <2>3, <2>5
    <2>6. QED
        BY <2>4, <2>5
<1>3. \A r \in Seq(T) : r \in A
    <2> HIDE DEF A
    <2>1. QED
        BY <1>1, <1>2, SequencesByAppend
<1>4. QED
    BY <1>3

\* The elements of a sequence with one more.
LEMMA ElementsAppend ==
    ASSUME NEW T, NEW s \in Seq(T), NEW x \in T
    PROVE  ToSet(Append(s, x)) = ToSet(s) \cup {x}
<1>1. /\ Len(s) \in Nat /\ DOMAIN s = 1 .. Len(s) /\ DOMAIN Append(s, x) = 1 .. Len(s) + 1
      /\ Append(s, x)[Len(s) + 1] = x /\ \A i \in 1 .. Len(s) : Append(s, x)[i] = s[i]
    OBVIOUS
<1>2. PICK t : t = Append(s, x)
    OBVIOUS
<1>3. /\ DOMAIN t = 1 .. Len(s) + 1
      /\ t[Len(s) + 1] = x /\ \A i \in 1 .. Len(s) : t[i] = s[i]
    BY <1>1, <1>2
<1>4. ASSUME NEW y, y \in {t[i] : i \in DOMAIN t} PROVE y \in {s[i] : i \in DOMAIN s} \cup {x}
    <2>1. PICK i \in 1 .. Len(s) + 1 : y = t[i]
        BY <1>3, <1>4
    <2>2. QED
        BY <1>1, <1>3, <2>1
<1>5. ASSUME NEW y, y \in {s[i] : i \in DOMAIN s} \cup {x} PROVE y \in {t[i] : i \in DOMAIN t}
    <2>1. CASE y = x
        <3>1. Len(s) + 1 \in DOMAIN t /\ t[Len(s) + 1] = y
            BY <1>1, <1>3, <2>1
        <3>2. QED
            BY <3>1
    <2>2. CASE y # x
        <3>1. PICK i \in DOMAIN s : y = s[i]
            BY <1>5, <2>2
        <3>2. i \in DOMAIN t /\ t[i] = y
            BY <1>1, <1>3, <3>1
        <3>3. QED
            BY <3>2
    <2>3. QED
        BY <2>1, <2>2
<1>6. QED
    BY <1>2, <1>4, <1>5 DEF ToSet

\* What is kept is all that is in both.
LEMMA WithinElements ==
    ASSUME NEW T, NEW s \in Seq(T), NEW S
    PROVE  ToSet(Within(s, S)) = ToSet(s) \cap S
<1> DEFINE A == {r \in Seq(T) : ToSet(Within(r, S)) = ToSet(r) \cap S}
<1>1. <<>> \in A
    BY WithinEmpty DEF ToSet
<1>2. ASSUME NEW r \in Seq(T), NEW x \in T, r \in A PROVE Append(r, x) \in A
    <2>1. PICK w \in Seq(T) : w = Within(r, S)
        BY WithinType
    <2>2. Within(Append(r, x), S) = IF x \in S THEN Append(w, x) ELSE w
        BY <2>1, WithinAppend
    <2>3. ToSet(Append(r, x)) = ToSet(r) \cup {x} /\ ToSet(Append(w, x)) = ToSet(w) \cup {x}
        BY ElementsAppend
    <2>4. ToSet(w) = ToSet(r) \cap S
        BY <1>2, <2>1
    <2>5. Append(r, x) \in Seq(T)
        OBVIOUS
    <2>6. CASE x \in S
        BY <2>2, <2>3, <2>4, <2>5, <2>6
    <2>7. CASE x \notin S
        BY <2>2, <2>3, <2>4, <2>5, <2>7
    <2>8. QED
        BY <2>6, <2>7
<1>3. \A r \in Seq(T) : r \in A
    <2> HIDE DEF A
    <2>1. QED
        BY <1>1, <1>2, SequencesByAppend
<1>4. QED
    BY <1>3

\* A concatenation with one element more.
LEMMA ConcatAppend ==
    ASSUME NEW T, NEW s \in Seq(T), NEW t \in Seq(T), NEW x \in T
    PROVE  s \o Append(t, x) = Append(s \o t, x)
<1>1. s \o Append(t, x) \in Seq(T) /\ Append(s \o t, x) \in Seq(T)
    OBVIOUS
<1>2. Len(s \o Append(t, x)) = Len(s) + Len(t) + 1 /\ Len(Append(s \o t, x)) = Len(s) + Len(t) + 1
    OBVIOUS
<1>3. \A i \in 1 .. Len(s) + Len(t) + 1 : (s \o Append(t, x))[i] = Append(s \o t, x)[i]
    OBVIOUS
<1>4. PICK u \in Seq(T), v \in Seq(T) : u = s \o Append(t, x) /\ v = Append(s \o t, x)
    BY <1>1
<1>5. Len(u) = Len(v) /\ \A i \in 1 .. Len(u) : u[i] = v[i]
    BY <1>2, <1>3, <1>4
<1>6. u = v
    BY <1>5
<1>7. QED
    BY <1>4, <1>6

\* What is kept of two sequences, one behind the other.
LEMMA WithinConcat ==
    ASSUME NEW T, NEW s \in Seq(T), NEW t \in Seq(T), NEW S
    PROVE  Within(s \o t, S) = Within(s, S) \o Within(t, S)
<1> DEFINE A == {r \in Seq(T) : Within(s \o r, S) = Within(s, S) \o Within(r, S)}
<1>0. PICK u \in Seq(T) : u = Within(s, S)
    BY WithinType
<1>1. <<>> \in A
    <2>1. s \o <<>> = s /\ u \o <<>> = u
        OBVIOUS
    <2>2. QED
        BY <1>0, <2>1, WithinEmpty
<1>2. ASSUME NEW r \in Seq(T), NEW x \in T, r \in A PROVE Append(r, x) \in A
    <2>1. PICK w \in Seq(T) : w = Within(r, S)
        BY WithinType
    <2>2. Within(Append(r, x), S) = IF x \in S THEN Append(w, x) ELSE w
        BY <2>1, WithinAppend
    <2>3. s \o Append(r, x) = Append(s \o r, x) /\ u \o Append(w, x) = Append(u \o w, x)
        BY ConcatAppend
    <2>4. s \o r \in Seq(T)
        OBVIOUS
    <2>5. Within(Append(s \o r, x), S)
            = IF x \in S THEN Append(Within(s \o r, S), x) ELSE Within(s \o r, S)
        BY <2>4, WithinAppend
    <2>6. Within(s \o r, S) = u \o w
        BY <1>0, <1>2, <2>1
    <2>7. Append(r, x) \in Seq(T)
        OBVIOUS
    <2>8. CASE x \in S
        BY <1>0, <2>2, <2>3, <2>5, <2>6, <2>7, <2>8
    <2>9. CASE x \notin S
        BY <1>0, <2>2, <2>3, <2>5, <2>6, <2>7, <2>9
    <2>10. QED
        BY <2>8, <2>9
<1>3. \A r \in Seq(T) : r \in A
    <2> HIDE DEF A
    <2>1. QED
        BY <1>1, <1>2, SequencesByAppend
<1>4. QED
    BY <1>3

\* Elements outside the sequence's range do not matter.
LEMMA WithinSame ==
    ASSUME NEW T, NEW s \in Seq(T), NEW S, NEW U, S \cap T = U \cap T
    PROVE  Within(s, S) = Within(s, U)
<1> DEFINE A == {r \in Seq(T) : Within(r, S) = Within(r, U)}
<1>1. <<>> \in A
    BY WithinEmpty
<1>2. ASSUME NEW r \in Seq(T), NEW x \in T, r \in A PROVE Append(r, x) \in A
    <2>1. x \in S <=> x \in U
        OBVIOUS
    <2>2. QED
        <3>1. /\ Within(Append(r, x), S) = IF x \in S THEN Append(Within(r, S), x) ELSE Within(r, S)
              /\ Within(Append(r, x), U) = IF x \in U THEN Append(Within(r, U), x) ELSE Within(r, U)
            BY WithinAppend
        <3>2. Append(r, x) \in Seq(T)
            OBVIOUS
        <3>3. QED
            BY <1>2, <2>1, <3>1, <3>2
<1>3. \A r \in Seq(T) : r \in A
    <2> HIDE DEF A
    <2>1. QED
        BY <1>1, <1>2, SequencesByAppend
<1>4. QED
    BY <1>3

\* A sequence whose elements are all in the set is kept as it is, and one of
\* which none is, is gone.
LEMMA WithinAllOrNone ==
    ASSUME NEW T, NEW s \in Seq(T), NEW S
    PROVE  /\ T \subseteq S => Within(s, S) = s
           /\ T \cap S = {} => Within(s, S) = <<>>
<1> DEFINE A == {r \in Seq(T) : /\ T \subseteq S => Within(r, S) = r
                                /\ T \cap S = {} => Within(r, S) = <<>>}
<1>1. <<>> \in A
    BY WithinEmpty
<1>2. ASSUME NEW r \in Seq(T), NEW x \in T, r \in A PROVE Append(r, x) \in A
    <2>1. Within(Append(r, x), S) = IF x \in S THEN Append(Within(r, S), x) ELSE Within(r, S)
        BY WithinAppend
    <2>2. QED
        BY <1>2, <2>1
<1>3. \A r \in Seq(T) : r \in A
    <2> HIDE DEF A
    <2>1. QED
        BY <1>1, <1>2, SequencesByAppend
<1>4. QED
    BY <1>3

\* Keeping twice is keeping what is in both sets.
LEMMA WithinTwice ==
    ASSUME NEW T, NEW s \in Seq(T), NEW S, NEW U
    PROVE  Within(Within(s, S), U) = Within(s, S \cap U)
<1> DEFINE A == {r \in Seq(T) : Within(Within(r, S), U) = Within(r, S \cap U)}
<1>1. <<>> \in A
    BY WithinEmpty
<1>2. ASSUME NEW r \in Seq(T), NEW x \in T, r \in A PROVE Append(r, x) \in A
    <2>1. PICK w \in Seq(T) : w = Within(r, S)
        BY WithinType
    <2>2. Within(Append(r, x), S) = IF x \in S THEN Append(w, x) ELSE w
        BY <2>1, WithinAppend
    <2>3. Within(Append(w, x), U) = IF x \in U THEN Append(Within(w, U), x) ELSE Within(w, U)
        BY WithinAppend
    <2>4. Within(Append(r, x), S \cap U)
            = IF x \in S \cap U THEN Append(Within(r, S \cap U), x) ELSE Within(r, S \cap U)
        BY WithinAppend
    <2>5. Within(w, U) = Within(r, S \cap U)
        BY <1>2, <2>1
    <2>6. Append(r, x) \in Seq(T)
        OBVIOUS
    <2>7. CASE x \in S
        <3>1. x \in S \cap U <=> x \in U
            BY <2>7
        <3>2. Within(Append(r, x), S) = Append(w, x)
            BY <2>2, <2>7
        <3>3. Within(Within(Append(r, x), S), U) = Within(Append(r, x), S \cap U)
            BY <2>3, <2>4, <2>5, <3>1, <3>2, Zenon
        <3>4. QED
            BY <2>6, <3>3
    <2>8. CASE x \notin S
        BY <2>2, <2>4, <2>5, <2>6, <2>8
    <2>9. QED
        BY <2>7, <2>8
<1>3. \A r \in Seq(T) : r \in A
    <2> HIDE DEF A
    <2>1. QED
        BY <1>1, <1>2, SequencesByAppend
<1>4. QED
    BY <1>3

\* Of two sequences that are in their sets at the same places, as many are kept.
LEMMA WithinAlike ==
    ASSUME NEW T, NEW U, NEW S, NEW V, NEW s \in Seq(T), NEW t \in Seq(U), Len(s) = Len(t),
           \A i \in 1 .. Len(s) : s[i] \in S <=> t[i] \in V
    PROVE  Len(Within(s, S)) = Len(Within(t, V))
<1> DEFINE Like(r, q) == /\ Len(r) = Len(q)
                         /\ \A i \in 1 .. Len(r) : r[i] \in S <=> q[i] \in V
           A == {r \in Seq(T) : \A q \in Seq(U) :
                    Like(r, q) => Len(Within(r, S)) = Len(Within(q, V))}
<1>1. <<>> \in A
    <2>1. ASSUME NEW q \in Seq(U), Like(<<>>, q) PROVE q = <<>>
        BY <2>1
    <2>2. QED
        BY <2>1, WithinEmpty
<1>2. ASSUME NEW r \in Seq(T), NEW x \in T, r \in A PROVE Append(r, x) \in A
    <2>1. SUFFICES ASSUME NEW q \in Seq(U), Like(Append(r, x), q)
                   PROVE  Len(Within(Append(r, x), S)) = Len(Within(q, V))
        <3>1. Append(r, x) \in Seq(T)
            OBVIOUS
        <3> HIDE DEF Like
        <3>2. QED
            BY <3>1
    <2>2. Len(q) = Len(r) + 1 /\ Len(r) \in Nat
        BY <2>1
    <2>3. Len(q) # 0
        BY <2>2
    <2>4. PICK p \in Seq(U), y \in U : q = Append(p, y) /\ Len(p) = Len(q) - 1
        BY <2>3, LastOfSequence
    <2>5. Like(r, p)
        <3>1. Len(r) = Len(p)
            BY <2>2, <2>4
        <3>2. ASSUME NEW i \in 1 .. Len(r) PROVE r[i] \in S <=> p[i] \in V
            <4>1. i \in 1 .. Len(Append(r, x)) /\ Append(r, x)[i] = r[i] /\ q[i] = p[i]
                BY <2>4, <3>1
            <4>2. QED
                BY <2>1, <4>1
        <3>3. QED
            BY <3>1, <3>2
    <2>6. x \in S <=> y \in V
        <3>1. /\ Len(q) \in 1 .. Len(Append(r, x)) /\ Append(r, x)[Len(q)] = x
              /\ q[Len(q)] = y
            BY <2>2, <2>4
        <3>2. QED
            BY <2>1, <3>1
    <2>7. Len(Within(r, S)) = Len(Within(p, V))
        BY <1>2, <2>5
    <2>8. /\ Within(Append(r, x), S) = IF x \in S THEN Append(Within(r, S), x) ELSE Within(r, S)
          /\ Within(q, V) = IF y \in V THEN Append(Within(p, V), y) ELSE Within(p, V)
        BY <2>4, WithinAppend
    <2>9. PICK m \in Seq(T), n \in Seq(U) : m = Within(r, S) /\ n = Within(p, V)
        BY WithinType
    <2>10. QED
        BY <2>6, <2>7, <2>8, <2>9
<1>3. \A r \in Seq(T) : r \in A
    <2> HIDE DEF A
    <2>1. QED
        BY <1>1, <1>2, SequencesByAppend
<1>4. QED
    BY <1>3

\* A sequence of distinct elements with one more.
LEMMA DistinctAppend ==
    ASSUME NEW T, NEW s \in Seq(T), NEW x \in T
    PROVE  IsInjective(Append(s, x)) <=> IsInjective(s) /\ x \notin ToSet(s)
<1>1. PICK t : t = Append(s, x)
    OBVIOUS
<1>2. /\ Len(s) \in Nat /\ DOMAIN s = 1 .. Len(s) /\ DOMAIN t = 1 .. Len(s) + 1
      /\ t[Len(s) + 1] = x /\ \A i \in 1 .. Len(s) : t[i] = s[i]
    BY <1>1
<1>3. ASSUME IsInjective(t) PROVE IsInjective(s) /\ x \notin ToSet(s)
    <2>1. IsInjective(s)
        BY <1>2, <1>3 DEF IsInjective
    <2>2. ASSUME NEW i \in DOMAIN s PROVE x # s[i]
        <3>1. i \in DOMAIN t /\ Len(s) + 1 \in DOMAIN t /\ i # Len(s) + 1
            BY <1>2
        <3>2. QED
            BY <1>2, <1>3, <3>1 DEF IsInjective
    <2>3. QED
        BY <2>1, <2>2 DEF ToSet
<1>4. ASSUME IsInjective(s), x \notin ToSet(s) PROVE IsInjective(t)
    <2>1. SUFFICES ASSUME NEW i \in DOMAIN t, NEW j \in DOMAIN t, t[i] = t[j] PROVE i = j
        BY DEF IsInjective
    <2>2. \A k \in DOMAIN s : s[k] # x
        BY <1>4 DEF ToSet
    <2>3. QED
        BY <1>2, <1>4, <2>1, <2>2 DEF IsInjective
<1>5. QED
    BY <1>1, <1>3, <1>4

\* Distinct elements stay distinct.
LEMMA WithinDistinct ==
    ASSUME NEW T, NEW s \in Seq(T), NEW S, IsInjective(s)
    PROVE  IsInjective(Within(s, S))
<1> DEFINE A == {r \in Seq(T) : IsInjective(r) => IsInjective(Within(r, S))}
<1>1. <<>> \in A
    BY WithinEmpty
<1>2. ASSUME NEW r \in Seq(T), NEW x \in T, r \in A PROVE Append(r, x) \in A
    <2>1. SUFFICES ASSUME IsInjective(Append(r, x)) PROVE IsInjective(Within(Append(r, x), S))
        OBVIOUS
    <2>2. IsInjective(r) /\ x \notin ToSet(r)
        BY <2>1, DistinctAppend
    <2>3. PICK w \in Seq(T) : w = Within(r, S)
        BY WithinType
    <2>4. IsInjective(w) /\ x \notin ToSet(w)
        <3>1. IsInjective(w)
            BY <1>2, <2>2, <2>3
        <3>2. ToSet(w) = ToSet(r) \cap S
            BY <2>3, WithinElements
        <3>3. QED
            BY <2>2, <3>1, <3>2
    <2>5. IsInjective(Append(w, x))
        BY <2>4, DistinctAppend
    <2>6. QED
        BY <2>3, <2>4, <2>5, WithinAppend
<1>3. \A r \in Seq(T) : r \in A
    <2> HIDE DEF A
    <2>1. QED
        BY <1>1, <1>2, SequencesByAppend
<1>4. QED
    BY <1>3

\* The place, among the elements that are kept, of one that is: the number of
\* those kept up to it.
LEMMA WithinCounts ==
    ASSUME NEW T, NEW s \in Seq(T), NEW S
    PROVE  /\ Cardinality({j \in 1 .. Len(s) : s[j] \in S}) = Len(Within(s, S))
           /\ \A i \in 1 .. Len(s) : s[i] \in S =>
                  LET n == Cardinality({j \in 1 .. i : s[j] \in S})
                  IN  n \in 1 .. Len(Within(s, S)) /\ Within(s, S)[n] = s[i]
<1> DEFINE Count(r, i) == Cardinality({j \in 1 .. i : r[j] \in S})
           Placed(r, w) ==
               /\ Count(r, Len(r)) = Len(w)
               /\ \A i \in 1 .. Len(r) : r[i] \in S =>
                      Count(r, i) \in 1 .. Len(w) /\ w[Count(r, i)] = r[i]
           A == {r \in Seq(T) : Placed(r, Within(r, S))}
<1> HIDE DEF Count, Placed, A
<1>1. <<>> \in A
    <2>1. {j \in 1 .. 0 : <<>>[j] \in S} = {} /\ Len(<<>>) = 0
        OBVIOUS
    <2>2. Count(<<>>, 0) = 0
        BY <2>1, FS_EmptySet DEF Count
    <2>3. Placed(<<>>, <<>>)
        BY <2>1, <2>2 DEF Placed
    <2>4. QED
        BY <2>3, WithinEmpty DEF A
<1>2. ASSUME NEW r \in Seq(T), NEW x \in T, r \in A PROVE Append(r, x) \in A
    <2>1. PICK w \in Seq(T) : w = Within(r, S)
        BY WithinType
    <2>2. PICK t \in Seq(T) : t = Append(r, x)
        BY AppendProperties
    <2>3. /\ Len(r) \in Nat /\ Len(t) = Len(r) + 1 /\ t[Len(r) + 1] = x
          /\ \A i \in 1 .. Len(r) : t[i] = r[i]
        BY <2>2
    <2>4. Placed(r, w)
        BY <1>2, <2>1 DEF A
    <2>5. \A i \in 0 .. Len(r) : Count(t, i) = Count(r, i)
        <3>1. ASSUME NEW i \in 0 .. Len(r)
              PROVE  {j \in 1 .. i : t[j] \in S} = {j \in 1 .. i : r[j] \in S}
            <4>1. \A j \in 1 .. i : t[j] = r[j]
                BY <2>3
            <4>2. QED
                BY <4>1
        <3>2. QED
            BY <3>1 DEF Count
    <2>6. CASE x \in S
        <3>1. Within(t, S) = Append(w, x)
            BY <2>1, <2>2, <2>6, WithinAppend
        <3>2. Count(t, Len(t)) = Len(w) + 1
            <4>1. PICK D : D = {j \in 1 .. Len(r) : t[j] \in S}
                OBVIOUS
            <4>2. {j \in 1 .. Len(t) : t[j] \in S} = D \cup {Len(t)}
                BY <2>3, <2>6, <4>1
            <4>3. IsFiniteSet(D) /\ Len(t) \notin D
                <5>1. IsFiniteSet(1 .. Len(r)) /\ D \in SUBSET (1 .. Len(r))
                    BY <2>3, <4>1, FS_Interval
                <5>2. IsFiniteSet(D)
                    BY <5>1, FS_Subset
                <5>3. Len(t) \notin D
                    BY <2>3, <4>1
                <5>4. QED
                    BY <5>2, <5>3
            <4>4. Cardinality(D) = Len(w)
                <5>1. Count(t, Len(r)) = Count(r, Len(r))
                    BY <2>3, <2>5
                <5>2. QED
                    BY <2>4, <4>1, <5>1 DEF Count, Placed
            <4>5. Cardinality(D \cup {Len(t)}) = Cardinality(D) + 1
                BY <4>3, FS_AddElement
            <4>6. QED
                BY <4>2, <4>4, <4>5 DEF Count
        <3>3. PICK v \in Seq(T) : v = Append(w, x)
            BY AppendProperties
        <3>4. Len(w) \in Nat /\ Len(v) = Len(w) + 1 /\ v[Len(w) + 1] = x /\ \A i \in 1 .. Len(w) : v[i] = w[i]
            BY <3>3
        <3>5. \A i \in 1 .. Len(r) : r[i] \in S =>
                  Count(t, i) \in 1 .. Len(w) /\ w[Count(t, i)] = r[i]
            BY <2>3, <2>4, <2>5 DEF Placed
        <3>6. \A i \in 1 .. Len(t) : t[i] \in S =>
                  Count(t, i) \in 1 .. Len(v) /\ v[Count(t, i)] = t[i]
            <4>1. ASSUME NEW i \in 1 .. Len(t), t[i] \in S
                  PROVE  Count(t, i) \in 1 .. Len(v) /\ v[Count(t, i)] = t[i]
                <5>1. CASE i = Len(t)
                    BY <2>3, <3>2, <3>4, <5>1
                <5>2. CASE i # Len(t)
                    <6>1. i \in 1 .. Len(r) /\ t[i] = r[i]
                        BY <2>3, <4>1, <5>2
                    <6>2. Count(t, i) \in 1 .. Len(w) /\ w[Count(t, i)] = r[i]
                        BY <3>5, <4>1, <6>1
                    <6>3. QED
                        BY <3>4, <6>1, <6>2
                <5>3. QED
                    BY <5>1, <5>2
            <4>2. QED
                BY <4>1
        <3>7. Placed(t, v)
            BY <3>2, <3>4, <3>6 DEF Placed
        <3>8. QED
            BY <2>2, <3>1, <3>3, <3>7 DEF A
    <2>7. CASE x \notin S
        <3>1. Within(t, S) = w
            BY <2>1, <2>2, <2>7, WithinAppend
        <3>2. {j \in 1 .. Len(t) : t[j] \in S} = {j \in 1 .. Len(r) : t[j] \in S}
            BY <2>3, <2>7
        <3>3. Count(t, Len(t)) = Count(r, Len(r))
            <4>1. Count(t, Len(t)) = Count(t, Len(r))
                BY <3>2 DEF Count
            <4>2. QED
                BY <2>3, <2>5, <4>1
        <3>4. \A i \in 1 .. Len(t) : t[i] \in S =>
                  Count(t, i) \in 1 .. Len(w) /\ w[Count(t, i)] = t[i]
            <4>1. QED
                BY <2>3, <2>4, <2>5, <2>7 DEF Placed
        <3>5. Placed(t, w)
            BY <2>4, <3>3, <3>4 DEF Placed
        <3>6. QED
            BY <2>2, <3>1, <3>5 DEF A
    <2>8. QED
        BY <2>6, <2>7
<1>3. \A r \in Seq(T) : r \in A
    BY <1>1, <1>2, SequencesByAppend
<1>4. QED
    BY <1>3 DEF A, Placed, Count
=============================================================================
