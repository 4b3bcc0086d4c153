-------------------------------- MODULE DiskProofs --------------------------------
(***************************************************************************)
(* Proofs about the file system and the disk driver under it (Fat32 on     *)
(* Ahci), for every disk and whatever the controller does.                 *)
(***************************************************************************)
EXTENDS Volumes, SequenceTheorems, WellFoundedInduction, TLAPS

-------------------------------------------------------------------------------
(***************************************************************************)
(* Parts that follow each other.  FlattenSeq is recursive: what it gives   *)
(* is by induction on the number of parts.                                 *)
(***************************************************************************)

\* A function on 1 .. n is a sequence of n elements.
LEMMA FunctionSeq ==
  ASSUME NEW S, NEW n \in Nat, NEW f, f = [k \in 1 .. n |-> f[k]], \A k \in 1 .. n : f[k] \in S
  PROVE  f \in Seq(S) /\ Len(f) = n
OBVIOUS

\* A set of natural numbers has a least one.
LEMMA LeastNat ==
  ASSUME NEW T \in SUBSET Nat, T # {}
  PROVE  \E x \in T : \A y \in T : x <= y
<1> DEFINE R == {ss \in Nat \X Nat : ss[1] < ss[2]}
<1>1. IsWellFoundedOn(R, Nat)
  BY NatLessThanWellFounded, Zenon DEF OpToRel
<1>2. \A x, y \in Nat : x < y => <<x, y>> \in R
  BY Zenon
<1> HIDE DEF R
<1>3. PICK x \in T : \A y \in T : ~(<<y, x>> \in R)
  BY <1>1, WFMin, Zenon
<1>4. ASSUME NEW y \in T PROVE x <= y
  <2>1. x \in Nat /\ y \in Nat
    BY Zenon
  <2>2. ~(y < x)
    BY <1>2, <1>3, <2>1, Zenon
  <2> QED
    BY <2>1, <2>2
<1> QED
  BY <1>4, Zenon

\* Induction over 0 .. n, with a set in the place of a property.
LEMMA Upward ==
  ASSUME NEW n \in Nat, NEW T, 0 \in T, \A i \in 0 .. n - 1 : i \in T => i + 1 \in T
  PROVE  \A i \in 0 .. n : i \in T
<1> DEFINE Bad == {i \in 0 .. n : i \notin T}
<1> SUFFICES ASSUME Bad # {} PROVE FALSE
  BY Zenon
<1>1. PICK m \in Bad : \A y \in Bad : m <= y
  <2> Bad \in SUBSET Nat
    OBVIOUS
  <2> HIDE DEF Bad
  <2> QED
    BY LeastNat, Zenon
<1>2. m \in 0 .. n /\ m \notin T
  BY Zenon
<1>3. m # 0
  BY <1>2, Zenon
<1>4. m - 1 \in 0 .. n - 1 /\ m - 1 \in 0 .. n /\ (m - 1) + 1 = m /\ ~(m <= m - 1)
  BY <1>2, <1>3
<1>5. m - 1 \in T
  BY <1>1, <1>4, Zenon
<1> QED
  BY <1>2, <1>4, <1>5, Zenon

\* What FlattenSeq has of the first parts, as an equation.
IsFlat(f, s, n) == f = [i \in 0 .. n |-> IF i = 0 THEN << >> ELSE f[i - 1] \o s[i]]

LEMMA FlatExists == ASSUME NEW s PROVE \A n \in Nat : \E f : IsFlat(f, s, n)
<1> DEFINE T == {n \in Nat : ~ \E f : IsFlat(f, s, n)}
<1> SUFFICES ASSUME T # {} PROVE FALSE
  BY Zenon
<1>1. PICK n \in T : \A y \in T : n <= y
  <2> T \in SUBSET Nat
    BY Zenon
  <2> HIDE DEF T
  <2> QED
    BY LeastNat, Zenon
<1>2. n \in Nat /\ ~ \E f : IsFlat(f, s, n)
  BY Zenon
<1>3. CASE n = 0
  <2> DEFINE f == [i \in 0 .. 0 |-> << >>]
  <2>1. \A i \in 0 .. 0 : i = 0
    OBVIOUS
  <2>2. f = [i \in 0 .. 0 |-> IF i = 0 THEN << >> ELSE f[i - 1] \o s[i]]
    BY <2>1, Zenon
  <2> QED
    BY <1>2, <1>3, <2>2, Zenon DEF IsFlat
<1>4. CASE n # 0
  <2>1. n - 1 \in Nat /\ n - 1 \notin T
    BY <1>1, <1>2, <1>4
  <2>2. PICK f : IsFlat(f, s, n - 1)
    BY <2>1, Zenon
  <2> DEFINE last == f[n - 1] \o s[n]
             g == [i \in 0 .. n |-> IF i = n THEN last ELSE f[i]]
  <2>3. ASSUME NEW i \in 0 .. n
        PROVE  g[i] = IF i = 0 THEN << >> ELSE g[i - 1] \o s[i]
    <3>1. i = n \/ (i \in 0 .. n - 1 /\ i # n)
      BY <1>2
    <3>2. i # 0 => i - 1 \in 0 .. n /\ i - 1 # n
      BY <1>2
    <3>3. i # 0 => g[i - 1] = f[i - 1]
      BY <3>2, Zenon
    <3>4. CASE i = n
      <4>1. g[i] = last
        BY <3>4, Zenon
      <4> QED
        BY <1>4, <3>3, <3>4, <4>1, Zenon
    <3>5. CASE i \in 0 .. n - 1 /\ i # n
      <4>1. f[i] = IF i = 0 THEN << >> ELSE f[i - 1] \o s[i]
        BY <2>2, <3>5, Zenon DEF IsFlat
      <4>2. g[i] = f[i]
        BY <3>5, Zenon
      <4> QED
        BY <3>3, <4>1, <4>2, Zenon
    <3> QED
      BY <3>1, <3>4, <3>5, Zenon
  <2>4. g = [i \in 0 .. n |-> IF i = 0 THEN << >> ELSE g[i - 1] \o s[i]]
    <3> DEFINE h == [i \in 0 .. n |-> IF i = 0 THEN << >> ELSE g[i - 1] \o s[i]]
    <3>1. g = [i \in 0 .. n |-> g[i]] /\ h = [i \in 0 .. n |-> h[i]]
      OBVIOUS
    <3>2. \A i \in 0 .. n : g[i] = h[i]
      BY <2>3, Zenon
    <3> QED
      BY <3>1, <3>2, Zenon
  <2> QED
    BY <1>2, <2>4, Zenon DEF IsFlat
<1> QED
  BY <1>3, <1>4, Zenon

\* The parts of s, one after the other: f[i] are the first i of them.
Joins(f, s) ==
  /\ f[0] = << >>
  /\ \A i \in 0 .. Len(s) - 1 : f[i + 1] = f[i] \o s[i + 1]
  /\ FlattenSeq(s) = f[Len(s)]

LEMMA FlattenIs ==
  ASSUME NEW S, NEW s \in Seq(S)
  PROVE  \E f : Joins(f, s)
<1> DEFINE n == Len(s)
           f == CHOOSE g : IsFlat(g, s, n)
<1>1. n \in Nat
  OBVIOUS
<1>2. FlattenSeq(s) = f[n]
  BY Zenon DEF FlattenSeq, IsFlat
<1>3. IsFlat(f, s, n)
  <2>1. \E g : IsFlat(g, s, n)
    BY <1>1, FlatExists, Zenon
  <2> HIDE DEF n
  <2> QED
    BY <2>1, Zenon
<1> HIDE DEF n, f
<1>4. \A i \in 0 .. n : f[i] = IF i = 0 THEN << >> ELSE f[i - 1] \o s[i]
  BY <1>3, Zenon DEF IsFlat
<1>5. f[0] = << >>
  <2>1. 0 \in 0 .. n
    BY <1>1
  <2> QED
    BY <1>4, <2>1, Zenon
<1>6. ASSUME NEW i \in 0 .. n - 1 PROVE f[i + 1] = f[i] \o s[i + 1]
  <2>1. i + 1 \in 0 .. n /\ i + 1 # 0 /\ (i + 1) - 1 = i
    BY <1>1
  <2> QED
    BY <1>4, <2>1, Zenon
<1>7. Joins(f, s)
  BY <1>2, <1>5, <1>6, Zenon DEF Joins, n
<1> QED
  BY <1>7, Zenon

LEMMA JoinsTyped ==
  ASSUME NEW S, NEW s \in Seq(Seq(S)), NEW f, Joins(f, s)
  PROVE  \A i \in 0 .. Len(s) : f[i] \in Seq(S)
<1> DEFINE n == Len(s)
           T == {i \in 0 .. n : f[i] \in Seq(S)}
<1>1. n \in Nat /\ \A i \in 1 .. n : s[i] \in Seq(S)
  <2>1. n \in Nat
    OBVIOUS
  <2>2. \A i \in 1 .. n : s[i] \in Seq(S)
    BY ElementOfSeq, Zenon
  <2> HIDE DEF n
  <2> QED
    BY <2>1, <2>2, Zenon
<1>2. f[0] = << >> /\ \A i \in 0 .. n - 1 : f[i + 1] = f[i] \o s[i + 1]
  BY Zenon DEF Joins
<1> HIDE DEF n
<1>3. 0 \in T
  <2>1. 0 \in 0 .. n /\ << >> \in Seq(S)
    BY <1>1
  <2> QED
    BY <1>2, <2>1, Zenon
<1>4. ASSUME NEW i \in 0 .. n - 1, i \in T PROVE i + 1 \in T
  <2>1. i + 1 \in 1 .. n /\ i + 1 \in 0 .. n
    BY <1>1
  <2>2. s[i + 1] \in Seq(S) /\ f[i] \in Seq(S)
    BY <1>1, <1>4, <2>1, Zenon
  <2>3. f[i] \o s[i + 1] \in Seq(S)
    BY <2>2, ConcatProperties, Zenon
  <2> QED
    BY <1>2, <2>1, <2>3, Zenon
<1> HIDE DEF T
<1>5. \A i \in 0 .. n : i \in T
  BY <1>1, <1>3, <1>4, Upward, Zenon
<1> QED
  BY <1>5, Zenon DEF T, n

LEMMA FlattenTyped ==
  ASSUME NEW S, NEW s \in Seq(Seq(S))
  PROVE  FlattenSeq(s) \in Seq(S)
<1>1. PICK f : Joins(f, s)
  BY FlattenIs, Zenon
<1>2. \A i \in 0 .. Len(s) : f[i] \in Seq(S)
  BY <1>1, JoinsTyped, Zenon
<1>3. FlattenSeq(s) = f[Len(s)]
  BY <1>1, Zenon DEF Joins
<1>4. Len(s) \in 0 .. Len(s)
  BY LenProperties
<1> QED
  BY <1>2, <1>3, <1>4, Zenon

\* n parts of the same length.
LEMMA FlattenLength ==
  ASSUME NEW S, NEW s \in Seq(Seq(S)), NEW l \in Nat, \A i \in 1 .. Len(s) : Len(s[i]) = l
  PROVE  Len(FlattenSeq(s)) = Len(s) * l
<1> DEFINE n == Len(s)
<1>1. PICK f : Joins(f, s)
  BY FlattenIs, Zenon
<1>2. \A i \in 0 .. n : f[i] \in Seq(S)
  BY <1>1, JoinsTyped, Zenon
<1>3. n \in Nat /\ \A i \in 1 .. n : s[i] \in Seq(S) /\ Len(s[i]) = l
  BY ElementOfSeq, LenProperties, Zenon
<1>4. /\ f[0] = << >> /\ FlattenSeq(s) = f[n]
      /\ \A i \in 0 .. n - 1 : f[i + 1] = f[i] \o s[i + 1]
  BY <1>1, Zenon DEF Joins
<1> HIDE DEF n
<1> DEFINE T == {i \in 0 .. n : Len(f[i]) = i * l}
<1>5. 0 \in T
  BY <1>3, <1>4
<1>6. ASSUME NEW i \in 0 .. n - 1, i \in T PROVE i + 1 \in T
  <2>1. i \in 0 .. n /\ i + 1 \in 1 .. n /\ i + 1 \in 0 .. n /\ i \in Nat
    BY <1>3
  <2>2. Len(f[i + 1]) = Len(f[i]) + Len(s[i + 1])
    <3>1. f[i] \in Seq(S) /\ s[i + 1] \in Seq(S)
      BY <1>2, <1>3, <2>1, Zenon
    <3>2. f[i + 1] = f[i] \o s[i + 1]
      BY <1>4, Zenon
    <3> QED
      BY <3>1, <3>2, ConcatProperties, Zenon
  <2>3. i * l + l = (i + 1) * l
    BY <2>1
  <2> QED
    BY <1>3, <1>6, <2>1, <2>2, <2>3, Zenon
<1> HIDE DEF T
<1>7. \A i \in 0 .. n : i \in T
  BY <1>3, <1>5, <1>6, Upward, Zenon
<1> QED
  BY <1>3, <1>4, <1>7 DEF T, n

-------------------------------------------------------------------------------
(***************************************************************************)
(* Names: what fat32_extract_entry_name makes of an entry's name,          *)
(* fat32_normalize_name takes back.                                        *)
(***************************************************************************)
Prefix(s, from, n) == [k \in 1 .. n |-> s[from + k]]

LEMMA PrefixIs ==
  ASSUME NEW S, NEW s, NEW from \in Nat, NEW n \in Nat, \A k \in 1 .. n : s[from + k] \in S
  PROVE  Prefix(s, from, n) \in Seq(S) /\ Len(Prefix(s, from, n)) = n
<1> DEFINE f == Prefix(s, from, n)
<1>1. f = [k \in 1 .. n |-> f[k]] /\ \A k \in 1 .. n : f[k] \in S
  BY Zenon DEF Prefix
<1> HIDE DEF f
<1>2. f \in Seq(S) /\ Len(f) = n
  BY <1>1, FunctionSeq, Zenon
<1> QED
  BY <1>2, Zenon DEF f

LEMMA PrefixOf ==
  ASSUME NEW S, NEW s \in Seq(S), NEW from \in Nat, NEW n \in Nat, from + n <= Len(s)
  PROVE  Prefix(s, from, n) \in Seq(S) /\ Len(Prefix(s, from, n)) = n
<1>1. \A k \in 1 .. n : s[from + k] \in S
  OBVIOUS
<1> QED
  BY <1>1, PrefixIs

\* SubSeq, as a function.
LEMMA SubSeqIs ==
  ASSUME NEW S, NEW s \in Seq(S), NEW from \in Nat, NEW n \in Nat, from + n <= Len(s)
  PROVE  SubSeq(s, from + 1, from + n) = Prefix(s, from, n)
<1>1. PICK a \in Int, b \in Int : a = from + 1 /\ b = from + n
  OBVIOUS
<1>2. PICK t : t = SubSeq(s, a, b)
  BY Zenon
<1>3. \A i \in a .. b : s[i] \in S
  BY <1>1
<1>4. /\ t \in Seq(S) /\ Len(t) = IF a <= b THEN b - a + 1 ELSE 0
      /\ \A i \in 1 .. b - a + 1 : t[i] = s[a + i - 1]
  <2>1. /\ SubSeq(s, a, b) \in Seq(S)
        /\ Len(SubSeq(s, a, b)) = IF a <= b THEN b - a + 1 ELSE 0
        /\ \A i \in 1 .. b - a + 1 : SubSeq(s, a, b)[i] = s[a + i - 1]
    BY <1>1, <1>3, SubSeqProperties
  <2> QED
    BY <1>2, <2>1, Zenon
<1>5. Len(t) = n /\ \A i \in 1 .. n : t[i] = s[from + i]
  BY <1>1, <1>4
<1>6. t = [i \in 1 .. n |-> t[i]]
  BY <1>4, <1>5
<1> QED
  BY <1>1, <1>2, <1>5, <1>6, Zenon DEF Prefix

\* The characters up to the first one in stop, which is the n+1st or none.
LEMMA UpToIs ==
  ASSUME NEW S, NEW s \in Seq(S), NEW stop, NEW n \in 0 .. Len(s),
         \A k \in 1 .. n : s[k] \notin stop, n < Len(s) => s[n + 1] \in stop
  PROVE  UpTo(s, stop) = Prefix(s, 0, n)
<1> DEFINE at == {k \in DOMAIN s : \A j \in 1 .. k : s[j] \notin stop}
<1>1. at = 1 .. n
  <2>1. ASSUME NEW k \in at PROVE k \in 1 .. n
    <3>1. k \in 1 .. Len(s) /\ \A j \in 1 .. k : s[j] \notin stop
      OBVIOUS
    <3>2. ~(k > n)
      <4> SUFFICES ASSUME k > n PROVE FALSE
        BY Zenon
      <4>1. n + 1 \in 1 .. k /\ n < Len(s)
        BY <3>1
      <4> QED
        BY <3>1, <4>1, Zenon
    <3> QED
      BY <3>1, <3>2
  <2>2. ASSUME NEW k \in 1 .. n PROVE k \in at
    <3>1. k \in DOMAIN s /\ \A j \in 1 .. k : j \in 1 .. n
      OBVIOUS
    <3> QED
      BY <3>1, Zenon
  <2> QED
    BY <2>1, <2>2, Zenon
<1>2. UpTo(s, stop) = [k \in at |-> s[k]]
  BY Zenon DEF UpTo
<1> HIDE DEF at
<1>3. \A k \in 1 .. n : 0 + k = k
  OBVIOUS
<1> QED
  BY <1>1, <1>2, <1>3, Zenon DEF Prefix

\* The characters.
Chars == STRING \cup {" ", "."}
BLANK == " "
DOT == "."

\* The capitals that a name has are left as they are.
Proper(c) == c \notin {" ", "."} \cup DOMAIN UPPER

LEMMA CharFacts ==
  /\ BLANK \in Chars /\ DOT \in Chars
  /\ \A c : Proper(c) => c # BLANK /\ c # DOT /\ Upper(c) = c
<1>1. BLANK \in Chars /\ DOT \in Chars
  BY Zenon DEF BLANK, DOT, Chars
<1>2. ASSUME NEW c, Proper(c) PROVE c # BLANK /\ c # DOT /\ Upper(c) = c
  BY <1>2, Zenon DEF BLANK, DOT, Proper, Upper
<1> QED
  BY <1>1, <1>2, Zenon

LEMMA NameSizes == BASE \in Nat /\ EXT \in Nat
BY DiskAssumption, Zenon

LEMMA FieldIs ==
  ASSUME NEW S, NEW s \in Seq(S), NEW n \in Nat, Len(s) <= n,
         \A k \in 1 .. Len(s) : Proper(s[k])
  PROVE  Field(s, n) = [k \in 1 .. n |-> IF k <= Len(s) THEN s[k] ELSE BLANK]
<1>1. ASSUME NEW k \in 1 .. n
      PROVE  (IF k <= Len(s) THEN Upper(s[k]) ELSE BLANK) = (IF k <= Len(s) THEN s[k] ELSE BLANK)
  <2>1. k <= Len(s) => k \in 1 .. Len(s)
    OBVIOUS
  <2> QED
    BY <2>1, CharFacts, Zenon
<1>2. Field(s, n) = [k \in 1 .. n |-> IF k <= Len(s) THEN Upper(s[k]) ELSE BLANK]
  BY Zenon DEF Field, BLANK
<1> QED
  BY <1>1, <1>2, Zenon

\* A field of size characters: n, then blanks.
Filled(s, from, size, n) ==
  /\ n \in 0 .. size
  /\ \A k \in 1 .. n : Proper(s[from + k])
  /\ \A k \in n + 1 .. size : s[from + k] = BLANK

\* An entry's name: n characters and m of the extension.
NameOf(name, n, m) ==
  /\ name \in Seq(Chars) /\ Len(name) = BASE + EXT
  /\ Filled(name, 0, BASE, n) /\ Filled(name, BASE, EXT, m)

LEMMA IsFieldIs ==
  ASSUME NEW s, NEW from, NEW size \in Nat, NEW t, t = Prefix(s, from, size), Len(t) = size, IsField(t)
  PROVE  \E n : Filled(s, from, size, n)
<1>1. DOMAIN t = 1 .. size /\ \A k \in 1 .. size : t[k] = s[from + k]
  BY Zenon DEF Prefix
<1>2. PICK n \in 0 .. Len(t) : \A k \in DOMAIN t :
        IF k <= n THEN t[k] \notin {" ", "."} \cup DOMAIN UPPER ELSE t[k] = " "
  BY Zenon DEF IsField
<1>3. n \in 0 .. size /\ \A k \in 1 .. size : IF k <= n THEN Proper(t[k]) ELSE t[k] = BLANK
  BY <1>1, <1>2, Zenon DEF Proper, BLANK
<1>4. ASSUME NEW k \in 1 .. n PROVE Proper(s[from + k])
  <2>1. k \in 1 .. size /\ k <= n
    BY <1>3
  <2> QED
    BY <1>1, <1>3, <2>1, Zenon
<1>5. ASSUME NEW k \in n + 1 .. size PROVE s[from + k] = BLANK
  <2>1. k \in 1 .. size /\ ~(k <= n)
    BY <1>3
  <2> QED
    BY <1>1, <1>3, <2>1, Zenon
<1> QED
  BY <1>3, <1>4, <1>5, Zenon DEF Filled

LEMMA NameFields ==
  ASSUME NEW name \in Seq(Chars), IsShortName(name)
  PROVE  \E n, m : NameOf(name, n, m)
<1>1. BASE \in Nat /\ EXT \in Nat /\ Len(name) = BASE + EXT
  BY NameSizes, Zenon DEF IsShortName
<1> DEFINE b == SubSeq(name, 1, BASE)
           e == SubSeq(name, BASE + 1, BASE + EXT)
<1>2. b = Prefix(name, 0, BASE) /\ e = Prefix(name, BASE, EXT)
  <2>1. SubSeq(name, 0 + 1, 0 + BASE) = Prefix(name, 0, BASE)
    BY <1>1, SubSeqIs
  <2>2. e = Prefix(name, BASE, EXT)
    BY <1>1, SubSeqIs
  <2>3. 0 + 1 = 1 /\ 0 + BASE = BASE
    BY <1>1
  <2> QED
    BY <2>1, <2>2, <2>3, Zenon
<1>3. IsField(b) /\ IsField(e)
  BY Zenon DEF IsShortName
<1> HIDE DEF b, e
<1>4. Len(b) = BASE /\ Len(e) = EXT
  <2>1. \A k \in 1 .. BASE : name[0 + k] \in Chars
    BY <1>1
  <2>2. \A k \in 1 .. EXT : name[BASE + k] \in Chars
    BY <1>1
  <2>3. Len(b) = BASE
    BY <1>1, <1>2, <2>1, PrefixIs
  <2>4. Len(e) = EXT
    BY <1>1, <1>2, <2>2, PrefixIs
  <2> QED
    BY <2>3, <2>4, Zenon
<1>5. PICK n : Filled(name, 0, BASE, n)
  BY <1>1, <1>2, <1>3, <1>4, IsFieldIs, Zenon
<1>6. PICK m : Filled(name, BASE, EXT, m)
  BY <1>1, <1>2, <1>3, <1>4, IsFieldIs, Zenon
<1> QED
  BY <1>1, <1>5, <1>6, Zenon DEF NameOf

\* The characters of a field before its blanks.
LEMMA FieldUpTo ==
  ASSUME NEW name \in Seq(Chars), NEW from \in Nat, NEW size \in Nat, from + size <= Len(name),
         NEW n, Filled(name, from, size, n)
  PROVE  UpTo(SubSeq(name, from + 1, from + size), {BLANK}) = Prefix(name, from, n)
<1> DEFINE b == Prefix(name, from, size)
<1>1. b = SubSeq(name, from + 1, from + size)
  BY SubSeqIs, Zenon
<1>2. n \in Nat /\ n \in 0 .. size
  BY DEF Filled
<1>3. \A k \in 1 .. size : name[from + k] \in Chars
  OBVIOUS
<1>4. b \in Seq(Chars) /\ Len(b) = size
  BY <1>3, PrefixIs
<1>5. \A k \in 1 .. size : b[k] = name[from + k]
  BY Zenon DEF Prefix
<1> HIDE DEF b
<1>6. UpTo(b, {BLANK}) = Prefix(b, 0, n)
  <2>1. ASSUME NEW k \in 1 .. n PROVE b[k] \notin {BLANK}
    <3>1. k \in 1 .. size /\ Proper(name[from + k])
      BY <1>2 DEF Filled
    <3> QED
      BY <1>5, <3>1, CharFacts, Zenon
  <2>2. ASSUME n < Len(b) PROVE b[n + 1] \in {BLANK}
    <3>1. n + 1 \in 1 .. size /\ n + 1 \in n + 1 .. size
      BY <1>2, <1>4, <2>2
    <3>2. name[from + (n + 1)] = BLANK
      BY <3>1, Zenon DEF Filled
    <3> QED
      BY <1>5, <3>1, <3>2, Zenon
  <2> QED
    BY <1>2, <1>4, <2>1, <2>2, UpToIs, Zenon
<1>7. ASSUME NEW k \in 1 .. n PROVE b[0 + k] = name[from + k]
  <2>1. k \in 1 .. size /\ 0 + k = k
    BY <1>2
  <2> QED
    BY <1>5, <2>1, Zenon
<1>8. Prefix(b, 0, n) = Prefix(name, from, n)
  BY <1>7, Zenon DEF Prefix
<1> QED
  BY <1>1, <1>6, <1>8, Zenon

\* What is reported: d is 1 when there is an extension.
LEMMA ExtractIs ==
  ASSUME NEW name, NEW n, NEW m, NameOf(name, n, m), NEW d, d = IF m = 0 THEN 0 ELSE 1
  PROVE  LET x == ExtractName(name)
         IN  /\ x \in Seq(Chars) /\ Len(x) = n + d + m
             /\ \A k \in 1 .. n : x[k] = name[k]
             /\ d = 1 => x[n + 1] = DOT
             /\ \A k \in 1 .. m : x[n + d + k] = name[BASE + k]
<1>1. /\ BASE \in Nat /\ EXT \in Nat /\ n \in 0 .. BASE /\ m \in 0 .. EXT
      /\ name \in Seq(Chars) /\ Len(name) = BASE + EXT /\ n \in Nat /\ m \in Nat
  BY NameSizes DEF NameOf, Filled
<1> DEFINE base == Prefix(name, 0, n)
           ext == Prefix(name, BASE, m)
<1>2. Filled(name, 0, BASE, n) /\ Filled(name, BASE, EXT, m)
  BY Zenon DEF NameOf
<1>3. UpTo(SubSeq(name, 1, BASE), {BLANK}) = base
  <2>1. 0 \in Nat /\ 0 + BASE <= Len(name) /\ 0 + 1 = 1 /\ 0 + BASE = BASE
    BY <1>1
  <2>2. UpTo(SubSeq(name, 0 + 1, 0 + BASE), {BLANK}) = Prefix(name, 0, n)
    BY <1>1, <1>2, <2>1, FieldUpTo, Zenon
  <2> QED
    BY <2>1, <2>2, Zenon
<1>4. UpTo(SubSeq(name, BASE + 1, BASE + EXT), {BLANK}) = ext
  <2>1. name \in Seq(Chars) /\ BASE \in Nat /\ EXT \in Nat /\ BASE + EXT <= Len(name)
    BY <1>1
  <2>2. Filled(name, BASE, EXT, m)
    BY <1>2, Zenon
  <2> QED
    BY <2>1, <2>2, FieldUpTo, Zenon
<1>5. base \in Seq(Chars) /\ Len(base) = n /\ \A k \in 1 .. n : base[k] = name[k]
  <2>1. \A k \in 1 .. n : name[0 + k] \in Chars
    BY <1>1
  <2>2. base \in Seq(Chars) /\ Len(base) = n
    <3>1. 0 \in Nat /\ n \in Nat
      BY <1>1, Zenon
    <3> QED
      BY <2>1, <3>1 DEF Prefix
  <2>3. \A k \in 1 .. n : base[k] = name[k]
    BY <1>1 DEF Prefix
  <2> QED
    BY <2>2, <2>3, Zenon
<1>6. ext \in Seq(Chars) /\ Len(ext) = m /\ \A k \in 1 .. m : ext[k] = name[BASE + k]
  <2>1. \A k \in 1 .. m : name[BASE + k] \in Chars
    BY <1>1
  <2>2. ext \in Seq(Chars) /\ Len(ext) = m
    <3>1. BASE \in Nat /\ m \in Nat
      BY <1>1, Zenon
    <3> QED
      BY <2>1, <3>1 DEF Prefix
  <2>3. \A k \in 1 .. m : ext[k] = name[BASE + k]
    BY <1>1, Zenon DEF Prefix
  <2> QED
    BY <2>2, <2>3, Zenon
<1> DEFINE tail == IF ext = << >> THEN << >> ELSE <<DOT>> \o ext
<1>7. ExtractName(name) = base \o tail
  BY <1>3, <1>4, Zenon DEF ExtractName, BLANK, DOT
<1> HIDE DEF base, ext
<1>8. /\ tail \in Seq(Chars) /\ Len(tail) = d + m /\ d \in Nat
      /\ d = 1 => tail[1] = DOT
      /\ \A k \in 1 .. m : tail[d + k] = name[BASE + k]
  <2>1. CASE m = 0
    <3>1. ext = << >>
      BY <1>6, <2>1
    <3> QED
      BY <1>1, <2>1, <3>1
  <2>2. CASE m # 0
    <3>1. ext # << >>
      BY <1>6, <2>2
    <3> DEFINE dot == <<DOT>>
    <3>2. dot \in Seq(Chars) /\ Len(dot) = 1 /\ dot[1] = DOT
      BY CharFacts
    <3> HIDE DEF dot
    <3>3. /\ dot \o ext \in Seq(Chars) /\ Len(dot \o ext) = Len(dot) + Len(ext)
          /\ \A i \in 1 .. Len(dot) + Len(ext) :
               (dot \o ext)[i] = IF i <= Len(dot) THEN dot[i] ELSE ext[i - Len(dot)]
      BY <1>6, <3>2, ConcatProperties, Zenon
    <3>4. tail = dot \o ext
      BY <3>1, Zenon DEF dot
    <3> HIDE DEF tail
    <3>5. tail \in Seq(Chars) /\ Len(tail) = 1 + m /\ d = 1
      BY <1>6, <2>2, <3>2, <3>3, <3>4, Zenon
    <3>6. ASSUME NEW i \in 1 .. 1 + m PROVE tail[i] = IF i <= 1 THEN DOT ELSE ext[i - 1]
      <4>1. i \in 1 .. Len(dot) + Len(ext) /\ Len(dot) = 1
        BY <1>6, <3>2, Zenon
      <4>2. tail[i] = IF i <= 1 THEN dot[i] ELSE ext[i - 1]
        BY <3>3, <3>4, <4>1, Zenon
      <4>3. i <= 1 => i = 1
        BY <1>1
      <4> QED
        BY <3>2, <4>2, <4>3, Zenon
    <3>7. ASSUME NEW k \in 1 .. m PROVE tail[1 + k] = name[BASE + k]
      <4>1. 1 + k \in 1 .. 1 + m /\ ~(1 + k <= 1) /\ (1 + k) - 1 = k
        BY <1>1
      <4> QED
        BY <1>6, <3>6, <4>1, Zenon
    <3>8. tail[1] = DOT
      BY <1>1, <3>6
    <3> QED
      BY <3>5, <3>7, <3>8
  <2> QED
    BY <2>1, <2>2, Zenon
<1> HIDE DEF tail
<1> DEFINE x == base \o tail
<1>9. /\ x \in Seq(Chars) /\ Len(x) = Len(base) + Len(tail)
      /\ \A i \in 1 .. Len(base) + Len(tail) : x[i] = IF i <= Len(base) THEN base[i] ELSE tail[i - Len(base)]
  <2>1. base \in Seq(Chars) /\ tail \in Seq(Chars)
    BY <1>5, <1>8, Zenon
  <2> QED
    BY <2>1, ConcatProperties, Zenon
<1> HIDE DEF x
<1>10. x \in Seq(Chars) /\ Len(x) = n + d + m
  BY <1>1, <1>5, <1>8, <1>9
<1>11. \A i \in 1 .. n + d + m : x[i] = IF i <= n THEN base[i] ELSE tail[i - n]
  <2>1. Len(base) + Len(tail) = n + d + m
    BY <1>1, <1>5, <1>8
  <2> QED
    BY <1>5, <1>9, <2>1, Zenon
<1>12. ASSUME NEW k \in 1 .. n PROVE x[k] = name[k]
  <2>1. k \in 1 .. n + d + m /\ k <= n
    BY <1>1, <1>8
  <2> QED
    BY <1>5, <1>11, <2>1, Zenon
<1>13. ASSUME d = 1 PROVE x[n + 1] = DOT
  <2>1. n + 1 \in 1 .. n + d + m /\ ~(n + 1 <= n) /\ (n + 1) - n = 1
    BY <1>1, <1>13
  <2> QED
    BY <1>8, <1>11, <1>13, <2>1, Zenon
<1>14. ASSUME NEW k \in 1 .. m PROVE x[n + d + k] = name[BASE + k]
  <2>1. n + d + k \in 1 .. n + d + m /\ ~(n + d + k <= n) /\ (n + d + k) - n = d + k
    BY <1>1, <1>8
  <2>2. x[n + d + k] = tail[d + k]
    BY <1>11, <2>1, Zenon
  <2> QED
    BY <1>8, <2>2, Zenon
<1> QED
  BY <1>7, <1>10, <1>12, <1>13, <1>14, Zenon DEF x

LEMMA NormalizeIs ==
  ASSUME NEW name, NEW n, NEW m, NameOf(name, n, m), NEW d, d = IF m = 0 THEN 0 ELSE 1,
         NEW x \in Seq(Chars), Len(x) = n + d + m,
         \A k \in 1 .. n : x[k] = name[k],
         d = 1 => x[n + 1] = DOT,
         \A k \in 1 .. m : x[n + d + k] = name[BASE + k]
  PROVE  NormalizeName(x) = name
<1>1. /\ BASE \in Nat /\ EXT \in Nat /\ n \in 0 .. BASE /\ m \in 0 .. EXT
      /\ name \in Seq(Chars) /\ Len(name) = BASE + EXT /\ n \in Nat /\ m \in Nat /\ d \in Nat
  BY NameSizes DEF NameOf, Filled
<1>2. \A k \in 1 .. n : Proper(name[k])
  <2>1. \A k \in 1 .. n : Proper(name[0 + k]) /\ 0 + k = k
    BY <1>1 DEF NameOf, Filled
  <2> QED
    BY <2>1, Zenon
<1>3. \A k \in n + 1 .. BASE : name[k] = BLANK
  <2>1. \A k \in n + 1 .. BASE : name[0 + k] = BLANK /\ 0 + k = k
    BY <1>1 DEF NameOf, Filled
  <2> QED
    BY <2>1, Zenon
<1>4. /\ \A k \in 1 .. m : Proper(name[BASE + k])
      /\ \A k \in m + 1 .. EXT : name[BASE + k] = BLANK
  BY Zenon DEF NameOf, Filled
<1> DEFINE base == Prefix(x, 0, n)
           ext == Prefix(x, n + d, m)
<1>5. UpTo(x, {DOT}) = base
  <2>1. ASSUME NEW k \in 1 .. n PROVE x[k] \notin {DOT}
    <3>1. Proper(name[k])
      BY <1>2, Zenon
    <3> QED
      BY <3>1, CharFacts, Zenon
  <2>2. n < Len(x) => x[n + 1] \in {DOT}
    BY <1>1
  <2>3. n \in 0 .. Len(x)
    BY <1>1
  <2> QED
    BY <2>1, <2>2, <2>3, UpToIs, Zenon
<1>6. /\ base \in Seq(Chars) /\ Len(base) = n /\ \A k \in 1 .. n : base[k] = name[k]
      /\ ext \in Seq(Chars) /\ Len(ext) = m /\ \A k \in 1 .. m : ext[k] = name[BASE + k]
  <2>1. \A k \in 1 .. n : x[0 + k] \in Chars
    BY <1>1
  <2>2. base \in Seq(Chars) /\ Len(base) = n
    <3>1. n \in Nat /\ 0 \in Nat
      BY <1>1, Zenon
    <3> QED
      BY <2>1, <3>1, PrefixIs
  <2>3. ASSUME NEW k \in 1 .. n PROVE base[k] = name[k]
    <3>1. base[k] = x[0 + k] /\ 0 + k = k
      BY <1>1 DEF Prefix
    <3> QED
      BY <3>1, Zenon
  <2>4. PICK from : from = n + d
    BY Zenon
  <2>5. from \in Nat /\ Len(x) = from + m
    BY <1>1, <2>4
  <2>6. \A k \in 1 .. m : x[from + k] = name[BASE + k]
    BY <2>4, Zenon
  <2>7. Prefix(x, from, m) \in Seq(Chars) /\ Len(Prefix(x, from, m)) = m
    <3>1. m \in Nat /\ from \in Nat /\ from + m <= Len(x)
      BY <1>1, <2>5
    <3> QED
      BY <3>1, PrefixOf, Zenon
  <2>8. \A k \in 1 .. m : Prefix(x, from, m)[k] = name[BASE + k]
    BY <2>6, Zenon DEF Prefix
  <2>9. ext = Prefix(x, from, m)
    BY <2>4, Zenon
  <2> HIDE DEF base, ext
  <2> QED
    BY <2>2, <2>3, <2>7, <2>8, <2>9, Zenon
<1>7. SubSeq(base, 1, n) = base
  <2> HIDE DEF base
  <2> QED
    BY <1>6, SubSeqFull, Zenon
<1>8. SubSeq(x, n + d + 1, Len(x)) = ext
  <2> DEFINE from == n + d
  <2>1. from \in Nat /\ from + m <= Len(x) /\ Len(x) = from + m
    BY <1>1
  <2> HIDE DEF from
  <2>2. SubSeq(x, from + 1, from + m) = Prefix(x, from, m)
    BY <1>1, <2>1, SubSeqIs, Zenon
  <2> QED
    BY <2>1, <2>2, Zenon DEF from
<1>9. /\ (IF n < BASE THEN n ELSE BASE) = n
      /\ (IF n < Len(x) /\ x[n + 1] = DOT THEN 1 ELSE 0) = d
  BY <1>1
<1>10. NormalizeName(x) = Field(base, BASE) \o Field(ext, EXT)
  <2> HIDE DEF base, ext
  <2> QED
    BY <1>5, <1>6, <1>7, <1>8, <1>9, Zenon DEF NormalizeName, DOT
<1> HIDE DEF base, ext
<1> DEFINE B == Prefix(name, 0, BASE)
           E == Prefix(name, BASE, EXT)
<1>11. Field(base, BASE) = B
  <2>1. \A k \in 1 .. Len(base) : Proper(base[k])
    BY <1>1, <1>6, <1>2, Zenon
  <2>2. Field(base, BASE) = [k \in 1 .. BASE |-> IF k <= Len(base) THEN base[k] ELSE BLANK]
    <3>1. base \in Seq(Chars) /\ BASE \in Nat /\ Len(base) <= BASE
      BY <1>1, <1>6
    <3> QED
      BY <2>1, <3>1, FieldIs, Zenon
  <2>3. ASSUME NEW k \in 1 .. BASE
        PROVE  (IF k <= Len(base) THEN base[k] ELSE BLANK) = name[0 + k]
    <3>1. 0 + k = k /\ (k \in 1 .. n \/ k \in n + 1 .. BASE)
      BY <1>1
    <3>2. CASE k \in 1 .. n
      BY <1>1, <1>6, <3>1, <3>2
    <3>3. CASE k \in n + 1 .. BASE
      BY <1>1, <1>6, <1>3, <3>1, <3>3
    <3> QED
      BY <3>1, <3>2, <3>3, Zenon
  <2> QED
    BY <2>2, <2>3, Zenon DEF Prefix
<1>12. Field(ext, EXT) = E
  <2>1. \A k \in 1 .. Len(ext) : Proper(ext[k])
    BY <1>1, <1>6, <1>4, Zenon
  <2>2. Field(ext, EXT) = [k \in 1 .. EXT |-> IF k <= Len(ext) THEN ext[k] ELSE BLANK]
    <3>1. ext \in Seq(Chars) /\ EXT \in Nat /\ Len(ext) <= EXT
      BY <1>1, <1>6
    <3> QED
      BY <2>1, <3>1, FieldIs, Zenon
  <2>3. ASSUME NEW k \in 1 .. EXT
        PROVE  (IF k <= Len(ext) THEN ext[k] ELSE BLANK) = name[BASE + k]
    <3>1. k \in 1 .. m \/ k \in m + 1 .. EXT
      BY <1>1
    <3>2. CASE k \in 1 .. m
      BY <1>1, <1>6, <3>2
    <3>3. CASE k \in m + 1 .. EXT
      BY <1>1, <1>6, <1>4, <3>3
    <3> QED
      BY <3>1, <3>2, <3>3, Zenon
  <2> QED
    BY <2>2, <2>3, Zenon DEF Prefix
<1>13. B = SubSeq(name, 1, BASE) /\ E = SubSeq(name, BASE + 1, BASE + EXT)
  <2>1. SubSeq(name, 0 + 1, 0 + BASE) = B
    BY <1>1, SubSeqIs
  <2>2. SubSeq(name, BASE + 1, BASE + EXT) = E
    BY <1>1, SubSeqIs
  <2>3. 0 + 1 = 1 /\ 0 + BASE = BASE
    BY <1>1
  <2> QED
    BY <2>1, <2>2, <2>3, Zenon
<1>14. B \o E = name
  <2>1. 1 \in 1 .. Len(name) + 1 /\ BASE \in 1 - 1 .. Len(name) /\ BASE + EXT \in BASE .. Len(name)
    BY <1>1
  <2>2. B \o E = SubSeq(name, 1, BASE + EXT)
    BY <1>13, <1>1, <2>1, ConcatAdjacentSubSeq, Zenon
  <2> QED
    BY <1>1, <2>2, SubSeqFull, Zenon
<1> QED
  BY <1>10, <1>11, <1>12, <1>14, Zenon

LEMMA NameBack ==
  ASSUME NEW name \in Seq(STRING), IsShortName(name)
  PROVE  NormalizeName(ExtractName(name)) = name
<1>1. name \in Seq(Chars)
  BY SeqMonotonic, Zenon DEF Chars
<1>2. PICK n, m : NameOf(name, n, m)
  BY <1>1, NameFields, Zenon
<1>3. PICK d : d = IF m = 0 THEN 0 ELSE 1
  BY Zenon
<1>4. PICK x : x = ExtractName(name)
  BY Zenon
<1>5. /\ x \in Seq(Chars) /\ Len(x) = n + d + m
      /\ \A k \in 1 .. n : x[k] = name[k]
      /\ d = 1 => x[n + 1] = DOT
      /\ \A k \in 1 .. m : x[n + d + k] = name[BASE + k]
  BY <1>2, <1>3, <1>4, ExtractIs
<1> QED
  BY <1>2, <1>3, <1>4, <1>5, NormalizeIs

-------------------------------------------------------------------------------
(***************************************************************************)
(* What is on a disk.                                                      *)
(***************************************************************************)
EntryType == [kind : STRING, name : Seq(STRING), first : Nat, size : Nat]
PartitionType == [fat32 : BOOLEAN, start : Nat]
BpbType == [bytes_ok : BOOLEAN, spc : Nat, reserved : Nat, num_fats : Nat, fat_size : Nat, root : Nat]

LEMMA SectorOfTyped ==
  ASSUME NEW j \in DOMAIN Machines, NEW lba
  PROVE  /\ SectorOf(Machines[j], lba).bpb \in BpbType
         /\ SectorOf(Machines[j], lba).partitions \in Seq(PartitionType)
         /\ SectorOf(Machines[j], lba).fat \in Seq(Nat)
         /\ SectorOf(Machines[j], lba).entries \in Seq(EntryType)
         /\ SectorOf(Machines[j], lba).bytes \in Seq(0 .. 255)
         /\ Len(SectorOf(Machines[j], lba).bytes) = SECTOR_SIZE
<1>1. SectorOf(Machines[j], lba) \in SectorType
  BY DiskAssumption, Zenon DEF SectorOf
<1>2. /\ SectorOf(Machines[j], lba).bpb \in BpbType
      /\ SectorOf(Machines[j], lba).partitions \in Seq(PartitionType)
      /\ SectorOf(Machines[j], lba).fat \in Seq(Nat)
      /\ SectorOf(Machines[j], lba).entries \in Seq(EntryType)
      /\ SectorOf(Machines[j], lba).bytes \in [1 .. SECTOR_SIZE -> 0 .. 255]
  BY <1>1, Zenon DEF SectorType, BpbType, EntryType, PartitionType
<1> DEFINE b == SectorOf(Machines[j], lba).bytes
<1>3. b \in [1 .. SECTOR_SIZE -> 0 .. 255] /\ SECTOR_SIZE \in Nat
  BY <1>2, DiskAssumption, Zenon
<1> HIDE DEF b
<1>4. b \in Seq(0 .. 255) /\ Len(b) = SECTOR_SIZE
  <2> DEFINE D == 0 .. 255
  <2>1. b = [k \in 1 .. SECTOR_SIZE |-> b[k]] /\ \A k \in 1 .. SECTOR_SIZE : b[k] \in D
    BY <1>3, Zenon
  <2> HIDE DEF D
  <2>2. b \in Seq(D) /\ Len(b) = SECTOR_SIZE
    BY <1>3, <2>1, FunctionSeq, Zenon
  <2> QED
    BY <2>2, Zenon DEF D
<1> QED
  BY <1>2, <1>4, Zenon DEF b

LEMMA BootTyped ==
  ASSUME NEW j \in DOMAIN Machines, NEW p
  PROVE  /\ BootSector(Machines[j], p).spc \in Nat /\ BootSector(Machines[j], p).fat_size \in Nat
         /\ BootSector(Machines[j], p).root \in Nat
BY SectorOfTyped, Zenon DEF BootSector, BpbType

LEMMA TableTyped ==
  ASSUME NEW j \in DOMAIN Machines, NEW p
  PROVE  TableOf(Machines[j], p) \in Seq(Nat)
<1> DEFINE n == BootSector(Machines[j], p).fat_size
           from == p + BootSector(Machines[j], p).reserved
           s == [k \in 1 .. n |-> SectorOf(Machines[j], from + k - 1).fat]
<1>1. n \in Nat
  BY BootTyped, Zenon
<1>2. \A k \in 1 .. n : s[k] \in Seq(Nat)
  BY SectorOfTyped, Zenon
<1>3. TableOf(Machines[j], p) = FlattenSeq(s)
  BY Zenon DEF TableOf
<1>4. s = [k \in 1 .. n |-> s[k]]
  BY Zenon
<1> HIDE DEF n, s
<1>5. s \in Seq(Seq(Nat))
  BY <1>1, <1>2, <1>4, FunctionSeq, Zenon
<1> QED
  BY <1>3, <1>5, FlattenTyped, Zenon

LEMMA EntriesTyped ==
  ASSUME NEW j \in DOMAIN Machines, NEW p, NEW c
  PROVE  EntriesOf(Machines[j], p, c) \in Seq(EntryType)
<1> DEFINE n == BootSector(Machines[j], p).spc
           from == FirstSector(Machines[j], p, c)
           s == [k \in 1 .. n |-> SectorOf(Machines[j], from + k - 1).entries]
<1>1. n \in Nat
  BY BootTyped, Zenon
<1>2. \A k \in 1 .. n : s[k] \in Seq(EntryType)
  BY SectorOfTyped, Zenon
<1>3. EntriesOf(Machines[j], p, c) = FlattenSeq(s)
  BY Zenon DEF EntriesOf
<1>4. s = [k \in 1 .. n |-> s[k]]
  BY Zenon
<1> HIDE DEF n, s
<1>5. s \in Seq(Seq(EntryType))
  BY <1>1, <1>2, <1>4, FunctionSeq, Zenon
<1> QED
  BY <1>3, <1>5, FlattenTyped, Zenon

LEMMA BytesTyped ==
  ASSUME NEW j \in DOMAIN Machines, NEW p, NEW c
  PROVE  /\ BytesOf(Machines[j], p, c) \in Seq(0 .. 255)
         /\ Len(BytesOf(Machines[j], p, c)) = BootSector(Machines[j], p).spc * SECTOR_SIZE
<1> DEFINE n == BootSector(Machines[j], p).spc
           from == FirstSector(Machines[j], p, c)
           s == [k \in 1 .. n |-> SectorOf(Machines[j], from + k - 1).bytes]
<1>1. n \in Nat /\ SECTOR_SIZE \in Nat
  BY BootTyped, DiskAssumption, Zenon
<1>2. \A k \in 1 .. n : s[k] \in Seq(0 .. 255) /\ Len(s[k]) = SECTOR_SIZE
  BY SectorOfTyped, Zenon
<1>3. BytesOf(Machines[j], p, c) = FlattenSeq(s)
  BY Zenon DEF BytesOf
<1>4. s = [k \in 1 .. n |-> s[k]]
  BY Zenon
<1> HIDE DEF s
<1>5. s \in Seq(Seq(0 .. 255)) /\ Len(s) = n
  <2> HIDE DEF n
  <2> QED
    BY <1>1, <1>2, <1>4, FunctionSeq
<1>6. FlattenSeq(s) \in Seq(0 .. 255)
  BY <1>5, FlattenTyped, Zenon
<1>7. Len(FlattenSeq(s)) = n * SECTOR_SIZE
  <2> HIDE DEF n
  <2>1. \A i \in 1 .. Len(s) : Len(s[i]) = SECTOR_SIZE
    BY <1>2, <1>5, Zenon
  <2>2. Len(FlattenSeq(s)) = Len(s) * SECTOR_SIZE
    BY <1>1, <1>5, <2>1, FlattenLength, Zenon
  <2> QED
    BY <1>5, <2>2, Zenon
<1> QED
  BY <1>3, <1>6, <1>7, Zenon

-------------------------------------------------------------------------------
(***************************************************************************)
(* The disk: one call of fat32_read_sectors.  L are the n sectors that it  *)
(* was asked for, d of which are read.                                     *)
(***************************************************************************)
Rest(L, n, d) == [k \in 1 .. n - d |-> L[k + d]]

\* Those that were read are the ones that were asked for.
ReadSoFar(L, d) ==
  /\ transfer.got = [k \in 1 .. d |-> Addressed(L[k])]
  /\ \A k \in 1 .. d : Addressed(L[k]) >= 0

Transferring(L, n) ==
  \E d \in 0 .. n :
    /\ transfer.todo = Rest(L, n, d)
    /\ transfer.status \in {"issue", "wait"} => d < n
    /\ transfer.status = "done" => d = n
    /\ transfer.status \in {"issue", "done"} \/ Working => ReadSoFar(L, d)
    /\ Working => port.lba = L[d + 1]
    /\ transfer.status = "wait" /\ ~port.ci /\ ~port.tfes => ReadSoFar(L, d + 1)

\* The fields that the structures have.
Shapes ==
  /\ port = [ci |-> port.ci, tfes |-> port.tfes, lba |-> port.lba]
  /\ transfer = [todo |-> transfer.todo, got |-> transfer.got, status |-> transfer.status]

LEMMA RestIs ==
  ASSUME NEW L, NEW n \in Nat, NEW d \in 0 .. n
  PROVE  /\ Len(Rest(L, n, d)) = n - d
         /\ d < n => /\ Head(Rest(L, n, d)) = L[d + 1]
                     /\ Tail(Rest(L, n, d)) = Rest(L, n, d + 1)
<1> DEFINE S == {L[k] : k \in 1 .. n}
           s == Rest(L, n, d)
<1>1. s \in Seq(S) /\ Len(s) = n - d
  <2>1. \A k \in 1 .. n - d : k + d \in 1 .. n
    OBVIOUS
  <2>2. \A k \in 1 .. n - d : L[k + d] \in S
    BY <2>1, Zenon
  <2> HIDE DEF S
  <2>3. n - d \in Nat
    OBVIOUS
  <2>4. s = [k \in 1 .. n - d |-> s[k]] /\ \A k \in 1 .. n - d : s[k] \in S
    BY <2>2, Zenon DEF Rest
  <2> HIDE DEF s
  <2> QED
    BY <2>3, <2>4, FunctionSeq, Zenon
<1>2. ASSUME d < n
      PROVE  Head(s) = L[d + 1] /\ Tail(s) = Rest(L, n, d + 1)
  <2> HIDE DEF S
  <2>1. s # << >>
    BY <1>1, <1>2
  <2>2. Head(s) = s[1] /\ s[1] = L[d + 1]
    BY <1>2 DEF Rest
  <2>3. /\ Tail(s) \in Seq(S) /\ Len(Tail(s)) = n - d - 1
        /\ \A i \in 1 .. Len(Tail(s)) : Tail(s)[i] = s[i + 1]
    BY <1>1, <2>1, HeadTailProperties, Zenon
  <2>4. \A i \in 1 .. n - d - 1 : s[i + 1] = L[i + (d + 1)]
    BY DEF Rest
  <2>5. Tail(s) = [i \in 1 .. n - d - 1 |-> Tail(s)[i]]
    <3> DEFINE t == Tail(s)
               m == n - d - 1
    <3>1. t \in Seq(S) /\ Len(t) = m
      BY <2>3, Zenon
    <3> HIDE DEF t, m
    <3>2. t \in [1 .. m -> S]
      BY <3>1, LenProperties, Zenon
    <3>3. t = [i \in 1 .. m |-> t[i]]
      BY <3>2, Zenon
    <3> QED
      BY <3>3, Zenon DEF t, m
  <2>6. n - (d + 1) = n - d - 1
    OBVIOUS
  <2>7. \A i \in 1 .. n - d - 1 : Tail(s)[i] = L[i + (d + 1)]
    BY <2>3, <2>4, Zenon
  <2> HIDE DEF s
  <2>8. Tail(s) = Rest(L, n, d + 1)
    BY <2>5, <2>6, <2>7, Zenon DEF Rest
  <2> QED
    BY <2>2, <2>8, Zenon
<1> QED
  BY <1>1, <1>2, Zenon

\* One more sector.
LEMMA ReadOneMore ==
  ASSUME NEW L, NEW d \in Nat
  PROVE  Append([k \in 1 .. d |-> Addressed(L[k])], Addressed(L[d + 1]))
           = [k \in 1 .. d + 1 |-> Addressed(L[k])]
<1> DEFINE S == {Addressed(L[k]) : k \in 1 .. d + 1}
           s == [k \in 1 .. d |-> Addressed(L[k])]
           t == Append(s, Addressed(L[d + 1]))
<1>1. s \in Seq(S) /\ Len(s) = d /\ Addressed(L[d + 1]) \in S
  OBVIOUS
<1> HIDE DEF S
<1>2. /\ t \in Seq(S) /\ Len(t) = d + 1
      /\ \A i \in 1 .. d : t[i] = s[i]
      /\ t[d + 1] = Addressed(L[d + 1])
  BY <1>1, AppendProperties
<1>3. t = [i \in 1 .. d + 1 |-> t[i]]
  BY <1>2
<1>4. \A i \in 1 .. d + 1 : t[i] = Addressed(L[i])
  BY <1>2
<1> HIDE DEF t
<1> QED
  BY <1>3, <1>4, Zenon DEF t

\* The steps of the driver and of the controller keep to what was asked for.
LEMMA TransferStep ==
  ASSUME NEW L, NEW n \in Nat, Shapes, Transferring(L, n),
         \/ DoTransfer \/ WaitCompletion \/ HbaCompletes
         \/ \E clears \in BOOLEAN : HbaFails(clears)
  PROVE  Transferring(L, n)'
<1>1. PICK d \in 0 .. n :
        /\ transfer.todo = Rest(L, n, d)
        /\ transfer.status \in {"issue", "wait"} => d < n
        /\ transfer.status = "done" => d = n
        /\ transfer.status \in {"issue", "done"} \/ Working => ReadSoFar(L, d)
        /\ Working => port.lba = L[d + 1]
        /\ transfer.status = "wait" /\ ~port.ci /\ ~port.tfes => ReadSoFar(L, d + 1)
  BY Zenon DEF Transferring
<1>2. ASSUME Fails
      PROVE  Transferring(L, n)'
  <2>1. transfer'.todo = Rest(L, n, d) /\ transfer'.status = "failed"
    BY <1>1, <1>2, Zenon DEF Fails, Shapes
  <2> QED
    BY <2>1, Zenon DEF Transferring, Working
<1>3. CASE DoTransfer
  <2>1. transfer.status = "issue" /\ d < n /\ ReadSoFar(L, d) /\ machine' = machine
    BY <1>1, <1>3, Zenon DEF DoTransfer
  <2>2. Head(transfer.todo) = L[d + 1]
    BY <1>1, <2>1, RestIs, Zenon
  <2>3. CASE transfer' = [transfer EXCEPT !.status = "fault"]
    <3>1. transfer'.todo = Rest(L, n, d) /\ transfer'.status = "fault"
      BY <1>1, <2>3, Zenon DEF Shapes
    <3> QED
      BY <3>1, Zenon DEF Transferring, Working
  <2>4. CASE /\ port' = [ci |-> TRUE, tfes |-> FALSE, lba |-> L[d + 1]]
             /\ transfer' = [transfer EXCEPT !.status = "wait"]
    <3>1. /\ transfer'.todo = Rest(L, n, d) /\ transfer'.status = "wait"
          /\ transfer'.got = transfer.got
          /\ port'.lba = L[d + 1] /\ port'.ci
      BY <1>1, <2>4, Zenon DEF Shapes
    <3>2. ReadSoFar(L, d)'
      BY <2>1, <3>1, Zenon DEF ReadSoFar, Addressed, hw
    <3> QED
      BY <2>1, <3>1, <3>2, Zenon DEF Transferring
  <2> QED
    BY <1>2, <1>3, <2>2, <2>3, <2>4, Zenon DEF DoTransfer, PrepareCommand
<1>4. CASE WaitCompletion
  <2>1. CASE port.tfes
    BY <1>2, <1>4, <2>1, Zenon DEF WaitCompletion
  <2>2. CASE ~port.tfes
    <3>1. /\ d < n /\ ReadSoFar(L, d + 1) /\ machine' = machine
          /\ transfer' = [transfer EXCEPT !.todo = Tail(@),
                            !.status = IF Len(transfer.todo) = 1 THEN "done" ELSE "issue"]
      BY <1>1, <1>4, <2>2, Zenon DEF WaitCompletion
    <3>2. Tail(transfer.todo) = Rest(L, n, d + 1) /\ Len(transfer.todo) = n - d
      BY <1>1, <3>1, RestIs, Zenon
    <3>3. /\ transfer'.todo = Rest(L, n, d + 1) /\ transfer'.got = transfer.got
          /\ transfer'.status = IF n - d = 1 THEN "done" ELSE "issue"
      BY <3>1, <3>2, Zenon DEF Shapes
    <3>4. ReadSoFar(L, d + 1)'
      BY <3>1, <3>3, Zenon DEF ReadSoFar, Addressed, hw
    <3>5. d + 1 \in 0 .. n /\ (n - d # 1 => d + 1 < n) /\ (n - d = 1 => d + 1 = n)
      BY <3>1
    <3> DEFINE e == d + 1
    <3> HIDE DEF e
    <3>6. /\ e \in 0 .. n /\ transfer'.todo = Rest(L, n, e) /\ ReadSoFar(L, e)'
          /\ transfer'.status = "done" => e = n
          /\ transfer'.status # "done" => transfer'.status = "issue" /\ e < n
      BY <3>3, <3>4, <3>5, Zenon DEF e
    <3> QED
      BY <3>6, Zenon DEF Transferring, Working
  <2> QED
    BY <2>1, <2>2, Zenon
<1>5. CASE HbaCompletes
  <2>1. /\ Working /\ machine' = machine /\ Addressed(L[d + 1]) >= 0
        /\ port' = [port EXCEPT !.ci = FALSE]
        /\ transfer' = [transfer EXCEPT !.got = Append(@, Addressed(L[d + 1]))]
    BY <1>1, <1>5, Zenon DEF HbaCompletes
  <2>2. /\ transfer'.todo = transfer.todo /\ transfer'.status = "wait"
        /\ transfer'.got = Append(transfer.got, Addressed(L[d + 1]))
        /\ ~port'.ci
    BY <2>1, Zenon DEF Shapes, Working
  <2>3. d < n /\ ReadSoFar(L, d)
    BY <1>1, <2>1, Zenon DEF Working
  <2>4. transfer'.got = [k \in 1 .. d + 1 |-> Addressed(L[k])]
    BY <2>2, <2>3, ReadOneMore DEF ReadSoFar
  <2>5. \A k \in 1 .. d + 1 : Addressed(L[k]) >= 0
    BY <2>1, <2>3 DEF ReadSoFar
  <2>6. ReadSoFar(L, d + 1)'
    BY <2>1, <2>4, <2>5, Zenon DEF ReadSoFar, Addressed, hw
  <2> QED
    BY <1>1, <2>2, <2>3, <2>6, Zenon DEF Transferring, Working
<1>6. ASSUME NEW clears \in BOOLEAN, HbaFails(clears)
      PROVE  Transferring(L, n)'
  <2>1. /\ transfer'.todo = transfer.todo /\ transfer'.status = "wait" /\ port'.tfes
    BY <1>6, Zenon DEF HbaFails, Shapes, Working
  <2>2. d < n
    BY <1>1, <1>6, Zenon DEF HbaFails, Working
  <2> QED
    BY <1>1, <2>1, <2>2, Zenon DEF Transferring, Working
<1> QED
  BY <1>3, <1>4, <1>5, <1>6, Zenon

\* Where a transfer begins.
LEMMA TransferBegins ==
  ASSUME NEW L, NEW n \in Nat \ {0}, L = [k \in 1 .. n |-> L[k]], ReadSectors(L)
  PROVE  Transferring(L, n)'
<1>1. Rest(L, n, 0) = L /\ Len(L) = n
  <2>1. \A k \in 1 .. n : k + 0 = k
    OBVIOUS
  <2>2. Rest(L, n, 0) = [k \in 1 .. n |-> L[k]]
    BY <2>1 DEF Rest
  <2>3. Len(Rest(L, n, 0)) = n - 0 /\ n - 0 = n
    BY RestIs
  <2>4. Rest(L, n, 0) = L
    BY <2>2, Zenon
  <2> QED
    BY <2>3, <2>4, Zenon
<1>2. L # << >>
  BY <1>1, Zenon
<1>3. transfer' = [todo |-> L, got |-> << >>, status |-> "issue"]
  BY <1>2, Zenon DEF ReadSectors
<1>4. ReadSoFar(L, 0)'
  BY <1>3 DEF ReadSoFar
<1>5. 0 \in 0 .. n /\ 0 < n
  OBVIOUS
<1> QED
  BY <1>1, <1>3, <1>4, <1>5, Zenon DEF Transferring, Working

\* What the caller finds when it was read.
LEMMA TransferDone ==
  ASSUME NEW L, NEW n \in Nat, Transferring(L, n), Read
  PROVE  /\ transfer.todo = << >> /\ transfer.got = [k \in 1 .. n |-> Addressed(L[k])]
         /\ \A k \in 1 .. n : Addressed(L[k]) >= 0
<1>1. transfer.todo = Rest(L, n, n) /\ ReadSoFar(L, n)
  BY Zenon DEF Transferring, Read
<1>2. Rest(L, n, n) = << >>
  BY DEF Rest
<1> QED
  BY <1>1, <1>2, Zenon DEF ReadSoFar

\* When nothing moves.
LEMMA TransferSame ==
  ASSUME NEW L, NEW n, Transferring(L, n), UNCHANGED <<machine, port, transfer>>
  PROVE  Transferring(L, n)'
<1>1. \A d : ReadSoFar(L, d) => ReadSoFar(L, d)'
  BY Zenon DEF ReadSoFar, Addressed, hw
<1>2. Working' <=> Working
  BY Zenon DEF Working
<1>3. PICK d \in 0 .. n :
        /\ transfer.todo = Rest(L, n, d)
        /\ transfer.status \in {"issue", "wait"} => d < n
        /\ transfer.status = "done" => d = n
        /\ transfer.status \in {"issue", "done"} \/ Working => ReadSoFar(L, d)
        /\ Working => port.lba = L[d + 1]
        /\ transfer.status = "wait" /\ ~port.ci /\ ~port.tfes => ReadSoFar(L, d + 1)
  BY Zenon DEF Transferring
<1> QED
  BY <1>1, <1>2, <1>3, Zenon DEF Transferring

-------------------------------------------------------------------------------
(***************************************************************************)
(* Mounting.  While fat32_initialize looks for a boot sector, the copy it  *)
(* holds is not a valid one; when it goes on with one that was refused,    *)
(* the sectors per cluster are 0, and the driver does not get past that.   *)
(***************************************************************************)

\* The sectors that fat32_initialize waits for.
Asks(L, n) ==
  \/ call.at \in {"lba0", "mbr"} /\ L = <<0>> /\ n = 1
  \/ call.at = "partition" /\ L = <<call.partitions[call.i].start>> /\ n = 1
  \/ /\ call.at = "fat"
     /\ L = Sectors(fat32_fs.fat_offset, fat32_fs.bpb.fat_size) /\ n = fat32_fs.bpb.fat_size

Looking == {"boot", "lba0", "mbr", "partition"}

\* The parameters are those of that boot sector.
Parameters(bpb, lba) ==
  /\ fat32_fs.bpb = bpb
  /\ fat32_fs.fat_offset = lba + bpb.reserved
  /\ fat32_fs.data_offset = lba + bpb.reserved + bpb.num_fats * bpb.fat_size
  /\ fat32_fs.spc = bpb.spc /\ fat32_fs.root = bpb.root

FatShapes ==
  /\ machine \in DOMAIN Machines
  /\ Shapes
  /\ "at" \in DOMAIN call
  /\ fat32_fs = [bpb |-> fat32_fs.bpb, partition_lba |-> fat32_fs.partition_lba,
                 fat_offset |-> fat32_fs.fat_offset, data_offset |-> fat32_fs.data_offset,
                 spc |-> fat32_fs.spc, root |-> fat32_fs.root, whole |-> fat32_fs.whole]

\* What is known of the file system; also that a drive which insists on the LBA
\* bit never gives sector 0.
FsInv ==
  /\ fat32_fs.bpb.fat_size \in Nat
  /\ call.at \in Looking => ~Valid(fat32_fs.bpb)
  /\ call.at \in Looking \cup {"fat"} => ~fat32_fs.whole
  /\ hw.lba_bit => call.at \notin {"partition", "fat"} /\ ~fat32_fs.whole
  /\ call.at = "fat" => Parameters(fat32_fs.bpb, fat32_fs.partition_lba) /\ fat32_fs.bpb.fat_size # 0
  /\ (call.at = "fat" \/ fat32_fs.whole) /\ fat32_fs.spc # 0 =>
       /\ Valid(Sector(fat32_fs.partition_lba).bpb)
       /\ Parameters(Sector(fat32_fs.partition_lba).bpb, fat32_fs.partition_lba)
  /\ fat32_fs.whole /\ fat32_fs.spc = 0 => call.at = "fault"
  /\ fat32_fs.whole /\ fat32_fs.spc # 0 =>
       fat_table = FlattenSeq([k \in 1 .. fat32_fs.bpb.fat_size |->
                                 Sector(fat32_fs.fat_offset + k - 1).fat])

MountInv ==
  /\ FatShapes /\ FsInv
  /\ call.at \in {"lba0", "mbr", "partition", "fat"} =>
       \E L, n : Asks(L, n) /\ Transferring(L, n)

LEMMA SectorTyped ==
  ASSUME machine \in DOMAIN Machines, NEW lba
  PROVE  Sector(lba).bpb.fat_size \in Nat
BY DiskAssumption, Zenon DEF Sector, SectorOf, hw, SectorType

\* Asking for one sector.
LEMMA AsksOne ==
  ASSUME NEW lba, ReadSectors(<<lba>>)
  PROVE  Transferring(<<lba>>, 1)'
<1> DEFINE L == <<lba>>
<1>1. L = [k \in 1 .. 1 |-> L[k]] /\ 1 \in Nat \ {0}
  OBVIOUS
<1>2. ReadSectors(L)
  BY Zenon
<1> HIDE DEF L
<1>3. Transferring(L, 1)'
  BY <1>1, <1>2, TransferBegins, Zenon
<1> QED
  BY <1>3, Zenon DEF L

\* The end of fat32_initialize, with a boot sector that is valid and is where it
\* is said to be, or with one that was refused.
LEMMA MountStep ==
  ASSUME FatShapes, NEW bpb, NEW lba, Mount(bpb, lba), UNCHANGED disk,
         bpb.fat_size \in Nat, ~fat32_fs.whole, ~hw.lba_bit,
         Valid(bpb) => bpb = Sector(lba).bpb
  PROVE  MountInv'
<1>1. machine' = machine /\ port' = port
  BY Zenon DEF disk
<1>2. CASE /\ fat32_fs' = [fat32_fs EXCEPT !.bpb = bpb, !.partition_lba = lba]
           /\ Return([of |-> "mount"]) /\ ReadDone /\ UNCHANGED fat_table
  <2>1. /\ fat32_fs'.bpb = bpb /\ ~fat32_fs'.whole
        /\ call' = [at |-> "idle"]
    BY <1>2, Zenon DEF FatShapes, Return, IDLE
  <2>2. FatShapes'
    BY <1>1, <1>2, Zenon DEF FatShapes, Shapes, Return, IDLE, ReadDone
  <2> QED
    BY <2>1, <2>2, Zenon DEF MountInv, FsInv, Looking
<1>3. CASE /\ Acceptable(bpb)
           /\ fat32_fs' = [bpb |-> bpb, partition_lba |-> lba, fat_offset |-> lba + bpb.reserved,
                           data_offset |-> lba + bpb.reserved + bpb.num_fats * bpb.fat_size,
                           spc |-> bpb.spc, root |-> bpb.root, whole |-> FALSE]
  <2>1. /\ fat32_fs'.bpb = bpb /\ ~fat32_fs'.whole /\ fat32_fs'.partition_lba = lba
        /\ fat32_fs'.fat_offset = lba + bpb.reserved
        /\ Parameters(bpb, lba)' /\ fat32_fs'.spc = bpb.spc
    BY <1>3, Zenon DEF Parameters
  <2>2. CASE Return([of |-> "mount"]) /\ ReadDone
    <3>1. FatShapes'
      BY <1>1, <1>3, <2>2, Zenon DEF FatShapes, Shapes, Return, IDLE, ReadDone
    <3>2. call' = [at |-> "idle"]
      BY <2>2, Zenon DEF Return, IDLE
    <3> QED
      BY <2>1, <3>1, <3>2, Zenon DEF MountInv, FsInv, Looking
  <2>3. CASE /\ ReadSectors(Sectors(lba + bpb.reserved, bpb.fat_size))
             /\ call' = [at |-> "fat"]
    <3>1. FatShapes'
      BY <1>1, <1>3, <2>3, Zenon DEF FatShapes, Shapes, ReadSectors
    <3> DEFINE L == Sectors(lba + bpb.reserved, bpb.fat_size)
    <3>2. L = [k \in 1 .. bpb.fat_size |-> L[k]] /\ bpb.fat_size \in Nat \ {0} /\ ReadSectors(L)
      BY <1>3, <2>3, Zenon DEF Sectors, Acceptable
    <3> HIDE DEF L
    <3>3. Transferring(L, bpb.fat_size)'
      BY <3>2, TransferBegins, Zenon
    <3>4. Asks(L, bpb.fat_size)'
      BY <2>1, <2>3, Zenon DEF Asks, L
    <3>5. bpb.spc # 0 => Valid(bpb)
      BY <1>3, Zenon DEF Acceptable, Valid
    <3>6. Sector(lba)' = Sector(lba)
      BY <1>1, Zenon DEF Sector, hw
    <3>7. FsInv'
      <4>1. call'.at = "fat" /\ bpb.fat_size # 0 /\ ~hw'.lba_bit
        BY <1>1, <2>3, <3>2, Zenon DEF hw
      <4>2. fat32_fs'.spc # 0 => /\ Valid(Sector(lba).bpb)'
                                 /\ Parameters(Sector(lba).bpb, lba)'
        BY <2>1, <3>5, <3>6, Zenon DEF Parameters, Valid
      <4>3. call'.at \notin Looking
        BY <4>1, Zenon DEF Looking
      <4> QED
        BY <2>1, <4>1, <4>2, <4>3, Zenon DEF FsInv, Parameters
    <3> QED
      BY <3>1, <3>3, <3>4, <3>7, Zenon DEF MountInv
  <2> QED
    BY <1>3, <2>2, <2>3, Zenon DEF Mount
<1> QED
  BY <1>2, <1>3, Zenon DEF Mount

LEMMA GotOne ==
  ASSUME NEW lba, Transferring(<<lba>>, 1), Read
  PROVE  transfer.got[1] = Addressed(lba) /\ Addressed(lba) >= 0
<1> DEFINE L == <<lba>>
<1>1. L[1] = lba /\ Transferring(L, 1) /\ 1 \in Nat
  BY Zenon
<1> HIDE DEF L
<1>2. /\ transfer.got = [k \in 1 .. 1 |-> Addressed(L[k])]
      /\ \A k \in 1 .. 1 : Addressed(L[k]) >= 0
  BY <1>1, TransferDone, Zenon
<1> QED
  BY <1>1, <1>2

LEMMA BootStep ==
  ASSUME MountInv, Boot
  PROVE  MountInv'
<1>1. /\ machine' = machine /\ fat32_fs' = fat32_fs /\ fat_table' = fat_table
      /\ call.at = "boot"
      /\ \/ call' = [at |-> "lba0"] /\ ReadSectors(<<0>>)
         \/ call' = [at |-> "rebase"] /\ UNCHANGED transfer
  BY Zenon DEF Boot
<1>2. FatShapes'
  BY <1>1 DEF Boot, AhciInitialize, PortRebase, MountInv, FatShapes, Shapes, ReadSectors
<1>3. CASE call' = [at |-> "lba0"] /\ ReadSectors(<<0>>)
  <2>1. FsInv'
    BY <1>1, <1>3, Zenon DEF MountInv, FsInv, Looking, hw
  <2>2. Asks(<<0>>, 1)' /\ Transferring(<<0>>, 1)'
    BY <1>3, AsksOne, Zenon DEF Asks
  <2> QED
    BY <1>2, <2>1, <2>2, Zenon DEF MountInv
<1>4. CASE call' = [at |-> "rebase"]
  <2>1. FsInv'
    BY <1>1, <1>4, Zenon DEF MountInv, FsInv, Looking, hw
  <2> QED
    BY <1>2, <1>4, <2>1, Zenon DEF MountInv
<1> QED
  BY <1>1, <1>3, <1>4, Zenon

\* The next sector to look at, with another copy that is not valid.
LEMMA LookStep ==
  ASSUME MountInv, NEW bpb, NEW lba, UNCHANGED disk,
         bpb.fat_size \in Nat, ~Valid(bpb), ~fat32_fs.whole,
         fat32_fs' = [fat32_fs EXCEPT !.bpb = bpb],
         ReadSectors(<<lba>>), UNCHANGED fat_table,
         "at" \in DOMAIN call', Asks(<<lba>>, 1)',
         \/ call'.at = "mbr"
         \/ call'.at = "partition" /\ ~hw.lba_bit
  PROVE  MountInv'
<1>1. machine' = machine /\ port' = port /\ fat32_fs'.bpb = bpb /\ ~fat32_fs'.whole
  BY Zenon DEF disk, MountInv, FatShapes
<1>2. FatShapes'
  BY <1>1, Zenon DEF MountInv, FatShapes, Shapes, ReadSectors
<1>3. FsInv'
  BY <1>1, Zenon DEF FsInv, Looking, hw
<1>4. Transferring(<<lba>>, 1)'
  BY AsksOne, Zenon
<1> QED
  BY <1>2, <1>3, <1>4, Zenon DEF MountInv

LEMMA MountLba0Step ==
  ASSUME MountInv, MountLba0
  PROVE  MountInv'
<1>1. call.at = "lba0" /\ UNCHANGED disk
  BY Zenon DEF MountLba0, Ready
<1>2. Transferring(<<0>>, 1)
  BY <1>1, Zenon DEF MountInv, Asks
<1>3. /\ FatShapes /\ ~fat32_fs.whole /\ ~Valid(fat32_fs.bpb)
      /\ fat32_fs.bpb.fat_size \in Nat /\ machine \in DOMAIN Machines
  BY <1>1, Zenon DEF MountInv, FsInv, FatShapes, Looking
<1>4. Copied.fat_size \in Nat
  BY <1>3, SectorTyped, Zenon DEF Copied
<1>5. ASSUME Read
      PROVE  Copied = Sector(0).bpb /\ ~hw.lba_bit
  BY <1>2, <1>5, GotOne DEF Copied, Addressed
<1>6. CASE Read /\ Valid(Copied)
  <2>1. Mount(Copied, 0)
    BY <1>6, Zenon DEF MountLba0
  <2> DEFINE bpb == Copied
  <2>2. Mount(bpb, 0) /\ bpb.fat_size \in Nat /\ bpb = Sector(0).bpb
    BY <1>4, <1>5, <1>6, <2>1, Zenon
  <2> HIDE DEF bpb
  <2> QED
    BY <1>1, <1>3, <1>5, <1>6, <2>2, MountStep, Zenon
<1>7. CASE ~(Read /\ Valid(Copied))
  <2>1. ~Valid(Copied)
    BY <1>3, <1>7, Zenon DEF Copied
  <2>2. /\ fat32_fs' = [fat32_fs EXCEPT !.bpb = Copied] /\ ReadSectors(<<0>>)
        /\ call' = [at |-> "mbr"] /\ UNCHANGED fat_table
    BY <1>7, Zenon DEF MountLba0
  <2>3. Asks(<<0>>, 1)' /\ "at" \in DOMAIN call' /\ call'.at = "mbr"
    BY <2>2, Zenon DEF Asks
  <2> DEFINE bpb == Copied
  <2>4. ~Valid(bpb) /\ bpb.fat_size \in Nat /\ fat32_fs' = [fat32_fs EXCEPT !.bpb = bpb]
    BY <1>4, <2>1, <2>2, Zenon
  <2> HIDE DEF bpb
  <2> QED
    BY <1>1, <1>3, <2>2, <2>3, <2>4, LookStep, Zenon
<1> QED
  BY <1>6, <1>7, Zenon

\* The partitions that are left, with a copy that is not valid.
LEMMA TryPartitionsStep ==
  ASSUME MountInv, NEW bpb, NEW partitions, NEW i, TryPartitions(bpb, partitions, i), UNCHANGED disk,
         bpb.fat_size \in Nat, ~Valid(bpb), ~fat32_fs.whole, ~hw.lba_bit
  PROVE  MountInv'
<1>1. CASE Mount(bpb, 0)
  <2>1. FatShapes
    BY Zenon DEF MountInv
  <2> QED
    BY <1>1, <2>1, MountStep, Zenon
<1>2. CASE \E k : /\ fat32_fs' = [fat32_fs EXCEPT !.bpb = bpb]
                  /\ ReadSectors(<<partitions[k].start>>)
                  /\ call' = [at |-> "partition", partitions |-> partitions, i |-> k]
                  /\ UNCHANGED fat_table
  <2>1. PICK k : /\ fat32_fs' = [fat32_fs EXCEPT !.bpb = bpb]
                 /\ ReadSectors(<<partitions[k].start>>)
                 /\ call' = [at |-> "partition", partitions |-> partitions, i |-> k]
                 /\ UNCHANGED fat_table
    BY <1>2, Zenon
  <2> DEFINE lba == partitions[k].start
  <2>2. Asks(<<lba>>, 1)' /\ "at" \in DOMAIN call' /\ call'.at = "partition" /\ ReadSectors(<<lba>>)
    BY <2>1, Zenon DEF Asks
  <2> HIDE DEF lba
  <2> QED
    BY <2>1, <2>2, LookStep, Zenon
<1> QED
  BY <1>1, <1>2, Zenon DEF TryPartitions

LEMMA MountMbrStep ==
  ASSUME MountInv, MountMbr
  PROVE  MountInv'
<1>1. call.at = "mbr" /\ UNCHANGED disk /\ machine' = machine /\ port' = port
  BY Zenon DEF MountMbr, Ready, disk
<1>2. Transferring(<<0>>, 1)
  BY <1>1, Zenon DEF MountInv, Asks
<1>3. ~fat32_fs.whole /\ ~Valid(fat32_fs.bpb) /\ fat32_fs.bpb.fat_size \in Nat
  BY <1>1, Zenon DEF MountInv, FsInv, Looking
<1>4. CASE Read
  <2>1. ~hw.lba_bit
    BY <1>2, <1>4, GotOne DEF Addressed
  <2>2. PICK partitions, i : TryPartitions(fat32_fs.bpb, partitions, i)
    BY <1>4, Zenon DEF MountMbr
  <2> DEFINE bpb == fat32_fs.bpb
  <2>3. TryPartitions(bpb, partitions, i) /\ ~Valid(bpb) /\ bpb.fat_size \in Nat
    BY <1>3, <2>2, Zenon
  <2> HIDE DEF bpb
  <2> QED
    BY <1>1, <1>3, <2>1, <2>3, TryPartitionsStep, Zenon
<1>5. CASE ~Read
  <2>1. /\ fat32_fs' = fat32_fs /\ fat_table' = fat_table
        /\ Return([of |-> "mount"]) /\ ReadDone
    BY <1>5, Zenon DEF MountMbr
  <2>2. FatShapes'
    BY <1>1, <2>1, Zenon DEF MountInv, FatShapes, Shapes, Return, IDLE, ReadDone
  <2>3. call' = [at |-> "idle"]
    BY <2>1, Zenon DEF Return, IDLE
  <2> QED
    BY <1>3, <2>1, <2>2, <2>3, Zenon DEF MountInv, FsInv, Looking
<1> QED
  BY <1>4, <1>5, Zenon

LEMMA MountPartitionStep ==
  ASSUME MountInv, MountPartition
  PROVE  MountInv'
<1> DEFINE lba == call.partitions[call.i].start
           bpb == Copied
<1>1. call.at = "partition" /\ UNCHANGED disk
  BY Zenon DEF MountPartition, Ready
<1>2. Transferring(<<lba>>, 1)
  BY <1>1, Zenon DEF MountInv, Asks
<1>3. /\ FatShapes /\ ~fat32_fs.whole /\ ~Valid(fat32_fs.bpb) /\ ~hw.lba_bit
      /\ fat32_fs.bpb.fat_size \in Nat /\ machine \in DOMAIN Machines
  BY <1>1, Zenon DEF MountInv, FsInv, FatShapes, Looking
<1>4. bpb.fat_size \in Nat
  BY <1>3, SectorTyped, Zenon DEF Copied
<1>5. ASSUME Read
      PROVE  bpb = Sector(lba).bpb
  <2> HIDE DEF lba
  <2> QED
    BY <1>2, <1>3, <1>5, GotOne, Zenon DEF Copied, Addressed
<1>6. CASE Read /\ Valid(bpb)
  <2>1. Mount(bpb, lba)
    BY <1>6, Zenon DEF MountPartition
  <2>2. bpb = Sector(lba).bpb
    BY <1>5, <1>6, Zenon
  <2> HIDE DEF bpb, lba
  <2> QED
    BY <1>1, <1>3, <1>4, <1>6, <2>1, <2>2, MountStep, Zenon
<1>7. CASE ~(Read /\ Valid(bpb))
  <2>1. ~Valid(bpb)
    BY <1>3, <1>7, Zenon DEF Copied
  <2>2. PICK partitions, i : TryPartitions(bpb, partitions, i)
    BY <1>7, Zenon DEF MountPartition
  <2> HIDE DEF bpb
  <2> QED
    BY <1>1, <1>3, <1>4, <2>1, <2>2, TryPartitionsStep, Zenon
<1> QED
  BY <1>6, <1>7, Zenon

LEMMA MountFatStep ==
  ASSUME MountInv, MountFat
  PROVE  MountInv'
<1> DEFINE n == fat32_fs.bpb.fat_size
           L == Sectors(fat32_fs.fat_offset, n)
<1>1. /\ call.at = "fat" /\ machine' = machine /\ port' = port /\ ReadDone
      /\ fat32_fs' = [fat32_fs EXCEPT !.whole = Read]
      /\ call' = [at |-> "fault"] \/ call' = [at |-> "idle"]
      /\ Read /\ fat32_fs.spc = 0 => call' = [at |-> "fault"]
  BY Zenon DEF MountFat, Ready, disk, Return, IDLE
<1>2. Transferring(L, n) /\ n \in Nat /\ ~hw.lba_bit
  BY <1>1, Zenon DEF MountInv, Asks, FsInv
<1>3. /\ fat32_fs'.bpb = fat32_fs.bpb /\ fat32_fs'.spc = fat32_fs.spc
      /\ fat32_fs'.partition_lba = fat32_fs.partition_lba
      /\ fat32_fs'.fat_offset = fat32_fs.fat_offset
      /\ fat32_fs'.data_offset = fat32_fs.data_offset /\ fat32_fs'.root = fat32_fs.root
  BY <1>1, Zenon DEF MountInv, FatShapes
<1>4. fat32_fs'.whole => Read
  BY <1>1, Zenon DEF MountInv, FatShapes
<1>5. FatShapes'
  BY <1>1, <1>3, Zenon DEF MountInv, FatShapes, Shapes, ReadDone
<1>6. ASSUME Read
      PROVE  fat_table' = FlattenSeq([k \in 1 .. n |-> Sector(fat32_fs.fat_offset + k - 1).fat])
  <2> HIDE DEF L, n
  <2>1. transfer.todo = << >> /\ transfer.got = [k \in 1 .. n |-> Addressed(L[k])]
    BY <1>2, <1>6, TransferDone, Zenon
  <2>2. n - Len(transfer.todo) = n
    BY <1>2, <2>1
  <2>3. \A k \in 1 .. n : transfer.got[k] = fat32_fs.fat_offset + k - 1
    BY <1>2, <2>1, Zenon DEF Addressed, L, Sectors
  <2>4. fat_table' = FlattenSeq([k \in 1 .. n |-> Sector(transfer.got[k]).fat])
    BY <2>2, Zenon DEF MountFat, n
  <2>5. [k \in 1 .. n |-> Sector(transfer.got[k]).fat]
          = [k \in 1 .. n |-> Sector(fat32_fs.fat_offset + k - 1).fat]
    BY <2>3, Zenon
  <2> QED
    BY <2>4, <2>5, Zenon
<1>7. FsInv'
  <2>1. ~hw'.lba_bit /\ fat32_fs'.bpb.fat_size \in Nat
    BY <1>1, <1>2, <1>3, Zenon DEF hw
  <2>2. call'.at \in {"fault", "idle"} /\ call'.at \notin Looking
    BY <1>1 DEF Looking
  <2>3. fat32_fs'.spc # 0 =>
          /\ Valid(Sector(fat32_fs.partition_lba).bpb)
          /\ Parameters(Sector(fat32_fs.partition_lba).bpb, fat32_fs.partition_lba)
    BY <1>1, <1>3, Zenon DEF MountInv, FsInv
  <2>4. fat32_fs'.spc # 0 =>
          /\ Valid(Sector(fat32_fs.partition_lba).bpb)'
          /\ Parameters(Sector(fat32_fs.partition_lba).bpb, fat32_fs.partition_lba)'
    BY <1>1, <1>3, <2>3, Zenon DEF Valid, Parameters, Sector, hw
  <2>5. fat32_fs'.whole =>
          (fat_table = FlattenSeq([k \in 1 .. fat32_fs.bpb.fat_size |->
                                     Sector(fat32_fs.fat_offset + k - 1).fat]))'
    BY <1>1, <1>3, <1>4, <1>6, Zenon DEF Sector, hw
  <2>6. fat32_fs'.whole /\ fat32_fs'.spc = 0 => call'.at = "fault"
    BY <1>1, <1>3, <1>4
  <2> QED
    BY <2>1, <2>2, <2>4, <2>5, <2>6, Zenon DEF FsInv
<1> QED
  BY <1>1, <1>5, <1>7 DEF MountInv

\* The driver and the controller work for whatever call there is.
LEMMA DiskStep ==
  ASSUME MountInv, Driver \/ Hba
  PROVE  MountInv'
<1>1. UNCHANGED fatVars /\ machine' = machine
  BY Zenon DEF Driver, Hba, DoTransfer, WaitCompletion, HbaCompletes, HbaFails
<1>2. Shapes'
  <2>1. Shapes
    BY Zenon DEF MountInv, FatShapes
  <2>2. CASE DoTransfer
    BY <2>1, <2>2 DEF DoTransfer, PrepareCommand, Fails, Shapes
  <2>3. CASE WaitCompletion
    BY <2>1, <2>3, Zenon DEF WaitCompletion, Fails, Shapes
  <2>4. CASE HbaCompletes
    BY <2>1, <2>4, Zenon DEF HbaCompletes, Shapes
  <2>5. CASE \E clears \in BOOLEAN : HbaFails(clears)
    BY <2>1, <2>5, Zenon DEF HbaFails, Shapes
  <2> QED
    BY <2>2, <2>3, <2>4, <2>5, Zenon DEF Driver, Hba
<1>3. FatShapes' /\ FsInv'
  BY <1>1, <1>2, Zenon DEF MountInv, FatShapes, FsInv, fatVars, hw, Sector, Parameters
<1>4. ASSUME NEW L, NEW n, Asks(L, n), Transferring(L, n)
      PROVE  Asks(L, n)' /\ Transferring(L, n)'
  <2>1. n \in Nat
    <3>1. n = 1 \/ n = fat32_fs.bpb.fat_size
      BY <1>4, Zenon DEF Asks
    <3>2. fat32_fs.bpb.fat_size \in Nat
      BY Zenon DEF MountInv, FsInv
    <3> QED
      BY <3>1, <3>2
  <2>2. Transferring(L, n)'
    BY <1>4, <2>1, TransferStep, Zenon DEF Driver, Hba, MountInv, FatShapes
  <2>3. Asks(L, n)'
    BY <1>1, <1>4, Zenon DEF Asks, fatVars
  <2> QED
    BY <2>2, <2>3, Zenon
<1> QED
  BY <1>1, <1>3, <1>4, Zenon DEF MountInv, fatVars

\* The calls after mounting leave the file system as it is.
CallGoesOn ==
  /\ Shapes' /\ "at" \in DOMAIN call'
  /\ call'.at \in {"idle", "walk", "read", "fault"}

LEMMA CallStep ==
  ASSUME MountInv, UNCHANGED <<machine, fat32_fs, fat_table>>, CallGoesOn,
         call.at \in {"idle", "walk", "read"}
  PROVE  MountInv'
<1>1. FatShapes'
  BY Zenon DEF MountInv, FatShapes, CallGoesOn
<1>2. fat32_fs.whole => fat32_fs.spc # 0
  BY Zenon DEF MountInv, FsInv
<1>3. FsInv'
  BY <1>2, Zenon DEF MountInv, FsInv, CallGoesOn, Looking, hw, Sector, Parameters
<1> QED
  BY <1>1, <1>3, Zenon DEF MountInv, CallGoesOn

LEMMA CallReturns ==
  ASSUME MountInv, UNCHANGED <<machine, port>>, NEW r, Return(r), ReadDone \/ UNCHANGED transfer
  PROVE  CallGoesOn
BY Zenon DEF MountInv, FatShapes, Shapes, CallGoesOn, Return, IDLE, ReadDone

LEMMA ReadsCluster ==
  ASSUME MountInv, UNCHANGED <<machine, port>>, NEW next, ReadCluster(next),
         "at" \in DOMAIN next, next.at \in {"walk", "read"}
  PROVE  CallGoesOn
BY DEF MountInv, FatShapes, Shapes, CallGoesOn, ReadCluster, ReadDone, ReadSectors

LEMMA OpenStep ==
  ASSUME MountInv, NEW name, Open(name)
  PROVE  MountInv'
<1>1. /\ call.at = "idle" /\ UNCHANGED <<machine, port>>
      /\ UNCHANGED <<machine, fat32_fs, fat_table>>
  BY Zenon DEF Open, IDLE, disk
<1>2. CASE UNCHANGED transfer /\ \E r : Return(r)
  BY <1>1, <1>2, CallReturns, CallStep, Zenon
<1>3. CASE \E next : ReadCluster(next) /\ "at" \in DOMAIN next /\ next.at = "walk"
  BY <1>1, <1>3, ReadsCluster, CallStep, Zenon
<1>4. \A n, fd : LET next == [at |-> "walk", cluster |-> fat32_fs.root, of |-> "open",
                               name |-> n, fd |-> fd]
                  IN  "at" \in DOMAIN next /\ next.at = "walk"
  BY Zenon
<1> QED
  BY <1>2, <1>3, <1>4, Zenon DEF Open

LEMMA EnumerateRootStep ==
  ASSUME MountInv, EnumerateRoot
  PROVE  MountInv'
<1>1. /\ call.at = "idle" /\ UNCHANGED <<machine, port>>
      /\ UNCHANGED <<machine, fat32_fs, fat_table>>
  BY Zenon DEF EnumerateRoot, IDLE, disk
<1>2. CASE UNCHANGED transfer /\ \E r : Return(r)
  BY <1>1, <1>2, CallReturns, CallStep, Zenon
<1>3. CASE ReadCluster([at |-> "walk", cluster |-> fat32_fs.root, of |-> "list", names |-> << >>])
  BY <1>1, <1>3, ReadsCluster, CallStep, Zenon
<1> QED
  BY <1>2, <1>3, Zenon DEF EnumerateRoot

LEMMA WalkStep ==
  ASSUME MountInv, NEW rest_, Walk(rest_)
  PROVE  MountInv'
<1>1. /\ call.at = "walk" /\ UNCHANGED <<machine, port>>
      /\ UNCHANGED <<machine, fat32_fs, fat_table>>
  BY Zenon DEF Walk, Ready, disk
<1>2. PICK entries : Find(entries) \/ List(entries)
  BY Zenon DEF Walk
<1>3. ASSUME NEW next, NEW end, WalkOn(entries, next, end),
             "at" \in DOMAIN next, next.at = "walk"
      PROVE  MountInv'
  <2>1. PICK cluster : \/ ReadCluster([next EXCEPT !.cluster = cluster])
                       \/ Return(end) /\ ReadDone
    BY <1>3, Zenon DEF WalkOn
  <2> DEFINE on == [next EXCEPT !.cluster = cluster]
  <2>2. "at" \in DOMAIN on /\ on.at = "walk"
    BY <1>3, Zenon
  <2> HIDE DEF on
  <2>3. CASE ReadCluster(on)
    BY <1>1, <2>2, <2>3, ReadsCluster, CallStep, Zenon
  <2>4. CASE Return(end) /\ ReadDone
    BY <1>1, <2>4, CallReturns, CallStep, Zenon
  <2> QED
    BY <2>1, <2>3, <2>4, Zenon DEF on
<1>4. "at" \in DOMAIN call
  BY Zenon DEF MountInv, FatShapes
<1>5. CASE Find(entries)
  <2>1. CASE \E end : WalkOn(entries, call, end)
    BY <1>1, <1>3, <1>4, <2>1, Zenon
  <2>2. CASE ReadDone /\ \E r : Return(r)
    BY <1>1, <2>2, CallReturns, CallStep, Zenon
  <2> QED
    BY <1>5, <2>1, <2>2, Zenon DEF Find
<1>6. CASE List(entries)
  <2>1. PICK names, end : WalkOn(entries, [call EXCEPT !.names = names], end)
    BY <1>6, Zenon DEF List
  <2> DEFINE next == [call EXCEPT !.names = names]
  <2>2. "at" \in DOMAIN next /\ next.at = "walk"
    BY <1>1, <1>4, Zenon
  <2> HIDE DEF next
  <2> QED
    BY <1>3, <2>1, <2>2, Zenon DEF next
<1> QED
  BY <1>2, <1>5, <1>6, Zenon

LEMMA ReadOnStep ==
  ASSUME MountInv, UNCHANGED <<machine, port>>, NEW c, ReadOn(c),
         "at" \in DOMAIN c, c.at = "read"
  PROVE  CallGoesOn
<1>1. CASE ReadCluster(c)
  BY <1>1, ReadsCluster, Zenon
<1>2. CASE ReadDone /\ \E r : Return(r)
  BY <1>2, CallReturns, Zenon
<1> QED
  BY <1>1, <1>2, Zenon DEF ReadOn, ReadReturns

LEMMA ReadBeginStep ==
  ASSUME MountInv, NEW fd, NEW size, ReadBegin(fd, size)
  PROVE  MountInv'
<1>1. /\ call.at = "idle" /\ UNCHANGED <<machine, port>>
      /\ UNCHANGED <<machine, fat32_fs, fat_table>>
  BY Zenon DEF ReadBegin, IDLE, disk
<1>2. CASE UNCHANGED transfer /\ \E r : Return(r)
  BY <1>1, <1>2, CallReturns, CallStep, Zenon
<1>3. CASE call' = [at |-> "fault"] /\ UNCHANGED transfer
  <2>1. CallGoesOn
    BY <1>1, <1>3, Zenon DEF CallGoesOn, MountInv, FatShapes, Shapes
  <2> QED
    BY <1>1, <2>1, CallStep, Zenon
<1>4. CASE \E c : ReadOn(c) /\ "at" \in DOMAIN c /\ c.at = "read"
  BY <1>1, <1>4, ReadOnStep, CallStep, Zenon
<1>5. \A from, count, cluster :
        LET c == [at |-> "read", fd |-> fd, from |-> from, asked |-> size, count |-> count,
                  cluster |-> cluster, offset |-> from, bytes |-> << >>]
        IN  "at" \in DOMAIN c /\ c.at = "read"
  BY Zenon
<1> QED
  BY <1>2, <1>3, <1>4, <1>5, Zenon DEF ReadBegin, ReadReturns

LEMMA ReadCopiesStep ==
  ASSUME MountInv, ReadCopies
  PROVE  MountInv'
<1>1. /\ call.at = "read" /\ UNCHANGED <<machine, port>>
      /\ UNCHANGED <<machine, fat32_fs, fat_table>> /\ "at" \in DOMAIN call
  BY Zenon DEF ReadCopies, Ready, disk, MountInv, FatShapes
<1>2. PICK count, offset, cluster, bytes :
        ReadOn([call EXCEPT !.count = count, !.offset = offset, !.cluster = cluster, !.bytes = bytes])
  BY Zenon DEF ReadCopies
<1> DEFINE c == [call EXCEPT !.count = count, !.offset = offset, !.cluster = cluster, !.bytes = bytes]
<1>3. "at" \in DOMAIN c /\ c.at = "read"
  BY <1>1, Zenon
<1>4. ReadOn(c)
  BY <1>2, Zenon
<1> HIDE DEF c
<1> QED
  BY <1>1, <1>3, <1>4, ReadOnStep, CallStep, Zenon

LEMMA ReturnSteps ==
  ASSUME MountInv,
         \/ WalkFails \/ ReadFails
         \/ \E fd \in Handles : Close(fd) \/ Write(fd)
  PROVE  MountInv'
<1>1. CASE WalkFails \/ ReadFails
  <2>1. /\ call.at \in {"walk", "read"} /\ UNCHANGED <<machine, port, fat32_fs, fat_table>>
        /\ ReadDone /\ \E r : Return(r)
    BY <1>1, Zenon DEF WalkFails, ReadFails, Ready, disk, ReadReturns
  <2> QED
    BY <2>1, CallReturns, CallStep, Zenon
<1>2. ASSUME NEW fd \in Handles, Close(fd) \/ Write(fd)
      PROVE  MountInv'
  <2>1. /\ call.at = "idle" /\ UNCHANGED <<machine, port, fat32_fs, fat_table>>
        /\ UNCHANGED transfer /\ \E r : Return(r)
    <3>1. /\ call = IDLE /\ UNCHANGED <<ahciVars, fat32_fs, fat_table>> /\ \E r : Return(r)
      BY <1>2, Zenon DEF Close, Write
    <3> QED
      BY <3>1, Zenon DEF IDLE, ahciVars
  <2> QED
    BY <2>1, CallReturns, CallStep, Zenon
<1> QED
  BY <1>1, <1>2, Zenon

LEMMA MountAlways == Spec => []MountInv
<1>1. Init => MountInv
  <2> SUFFICES ASSUME Init
               PROVE  MountInv
    BY Zenon
  <2>1. FatShapes
    BY Zenon DEF Init, AhciInit, FatShapes, Shapes
  <2>2. FsInv
    BY Zenon DEF Init, FsInv, Valid, NO_BPB, Looking
  <2> QED
    BY <2>1, <2>2, Zenon DEF Init, MountInv
<1>2. MountInv /\ [Next]_vars => MountInv'
  <2> SUFFICES ASSUME MountInv, [Next]_vars
               PROVE  MountInv'
    BY Zenon
  <2>1. CASE UNCHANGED vars
    <3>1. FatShapes' /\ FsInv'
      BY <2>1, Zenon DEF vars, ahciVars, fatVars, MountInv, FatShapes, Shapes, FsInv, Parameters, hw, Sector
    <3>2. \A L, n : Asks(L, n) => Asks(L, n)'
      BY <2>1, Zenon DEF vars, fatVars, Asks
    <3>3. \A L, n : Transferring(L, n) => Transferring(L, n)'
      BY <2>1, TransferSame, Zenon DEF vars, ahciVars
    <3> QED
      BY <2>1, <3>1, <3>2, <3>3, Zenon DEF vars, fatVars, MountInv
  <2>2. CASE Step
    <3>1. CASE \E rest_ \in Rests : Walk(rest_)
      BY <3>1, WalkStep, Zenon
    <3> QED
      BY <2>2, <3>1, BootStep, MountLba0Step, MountMbrStep, MountPartitionStep, MountFatStep,
         ReadCopiesStep, ReturnSteps, Zenon DEF Step
  <2>3. CASE Callers
    <3>1. CASE \E name \in Names : Open(name)
      BY <3>1, OpenStep
    <3>2. CASE \E fd \in Handles, size \in Sizes : ReadBegin(fd, size)
      BY <3>2, ReadBeginStep, Zenon
    <3> QED
      BY <2>3, <3>1, <3>2, EnumerateRootStep, ReturnSteps, Zenon DEF Callers
  <2>4. CASE Driver \/ Hba
    BY <2>4, DiskStep, Zenon
  <2>5. CASE Stopped
    BY <2>1, <2>5, Zenon DEF Stopped
  <2> QED
    BY <2>1, <2>2, <2>3, <2>4, <2>5, Zenon DEF Next
<1> QED
  BY <1>1, <1>2, PTL DEF Spec

\* On every disk and whatever the controller does, a file system that
\* fat32_initialize has mounted has the parameters and the table of a valid boot
\* sector, the one at the place it says.
THEOREM MountCorrect == Spec => []MountsRight
<1>1. MountInv => MountsRight
  <2> SUFFICES ASSUME MountInv, fat32_fs.whole, call.at # "fault"
               PROVE  LET bpb == Sector(fat32_fs.partition_lba).bpb
                          from == fat32_fs.partition_lba + bpb.reserved
                      IN  /\ Valid(bpb)
                          /\ fat32_fs.spc = bpb.spc /\ fat32_fs.root = bpb.root
                          /\ fat32_fs.data_offset = from + bpb.num_fats * bpb.fat_size
                          /\ fat_table = FlattenSeq([k \in 1 .. bpb.fat_size |-> Sector(from + k - 1).fat])
    BY Zenon DEF MountsRight
  <2> DEFINE bpb == Sector(fat32_fs.partition_lba).bpb
  <2>1. Valid(bpb) /\ Parameters(bpb, fat32_fs.partition_lba)
    BY Zenon DEF MountInv, FsInv
  <2>2. fat_table = FlattenSeq([k \in 1 .. fat32_fs.bpb.fat_size |->
                                  Sector(fat32_fs.fat_offset + k - 1).fat])
    BY Zenon DEF MountInv, FsInv
  <2> QED
    BY <2>1, <2>2, Zenon DEF Parameters
<1> QED
  BY <1>1, MountAlways, PTL

-------------------------------------------------------------------------------
(***************************************************************************)
(* Reading a mounted file system whose clusters are as large as the        *)
(* buffer.  What the driver knows is what is on the disk (Volumes).        *)
(***************************************************************************)
Place == fat32_fs.partition_lba
Directory == hw.volumes[Place].directory
ReadsFrom(c) == Transferring(Sectors(FirstSector(hw, Place, c), BUFFER_SECTORS), BUFFER_SECTORS)

\* Until it is mounted there are no calls.  The place of a volume is where one may be.
Starting == Looking \cup {"fat"}

PlaceInv ==
  /\ call.at # "idle" => result = NO_RESULT
  /\ call.at \in Starting => fat32_files = [h \in Handles |-> CLOSED]
  /\ call.at = "partition" =>
       call.partitions = Sector(0).partitions /\ call.i \in DOMAIN Sector(0).partitions
  /\ (call.at = "fat" \/ fat32_fs.whole) /\ fat32_fs.spc # 0 => fat32_fs.partition_lba \in Places(hw)

\* What is reported of a file.
Report(file) == [name |-> ExtractName(file.name), size |-> Len(file.bytes)]
Reports(m) == [f \in 1 .. m |-> Report(Files[f])]

\* fat32_open has not passed the file it looks for.
OpenWalk(i) ==
  /\ call.of = "open"
  /\ call = [at |-> "walk", cluster |-> call.cluster, of |-> "open", name |-> call.name, fd |-> call.fd]
  /\ call.fd \in Handles
  /\ \A f \in DOMAIN Files : Files[f].part < i => Files[f].name # call.name

\* The first n files are those of the clusters before the i-th.
Passed(n, i) ==
  /\ n \in 0 .. Len(Files)
  /\ \A f \in DOMAIN Files : f <= n <=> Files[f].part < i

ListWalk(i) ==
  /\ call.of = "list"
  /\ call = [at |-> "walk", cluster |-> call.cluster, of |-> "list", names |-> call.names]
  /\ \E n : Passed(n, i) /\ call.names = Reports(n)

WalkInv ==
  call.at = "walk" =>
    \E i \in DOMAIN Directory :
      /\ call.cluster = Directory[i] /\ ReadsFrom(call.cluster)
      /\ OpenWalk(i) \/ ListWalk(i)

\* The handle is one on that file.
OnFile(file, k) ==
  /\ k \in DOMAIN Files
  /\ file.name = Files[k].name /\ file.first = First(Files[k]) /\ file.size = Len(Files[k].bytes)
  /\ file.position \in 0 .. file.size

IsHandle(file) ==
  file = [open |-> file.open, name |-> file.name, first |-> file.first, size |-> file.size,
          position |-> file.position]

FileInv ==
  /\ fat32_files = [h \in Handles |-> fat32_files[h]]
  /\ \A h \in Handles : /\ IsHandle(fat32_files[h])
                        /\ fat32_files[h].open => \E k : OnFile(fat32_files[h], k)

\* How much fat32_read is to read in all.
Wanted(from, asked, size) == IF asked > size - from THEN size - from ELSE asked

Reading(file, k) ==
  LET content == Files[k].bytes
  IN  /\ OnFile(file, k)
      /\ call.offset = file.position
      /\ call.from \in 0 .. call.offset
      /\ call.count \in Nat \ {0}
      /\ call.offset + call.count = call.from + Wanted(call.from, call.asked, file.size)
      /\ call.bytes = SubSeq(content, call.from + 1, call.offset)
      /\ call.cluster = Files[k].clusters[call.offset \div ClusterSize + 1]
      /\ ReadsFrom(call.cluster)

ReadInv ==
  call.at = "read" =>
    /\ call = [at |-> "read", fd |-> call.fd, from |-> call.from, asked |-> call.asked,
               count |-> call.count, cluster |-> call.cluster, offset |-> call.offset,
               bytes |-> call.bytes]
    /\ call.fd \in Handles /\ call.asked \in Nat
    /\ \E k : Reading(fat32_files[call.fd], k)

LEMMA PlaceZero == 0 \in Places(hw)
BY Zenon DEF Places

LEMMA PlaceOfPartition ==
  ASSUME NEW k \in DOMAIN Sector(0).partitions
  PROVE  Sector(0).partitions[k].start \in Places(hw)
BY Zenon DEF Places, Sector

LEMMA MountPlaces ==
  ASSUME MountInv, PlaceInv, call.at \in Looking, NEW bpb, NEW lba \in Places(hw), Mount(bpb, lba),
         UNCHANGED <<machine, fat32_files>>
  PROVE  PlaceInv'
<1>1. ~fat32_fs.whole /\ result = NO_RESULT /\ fat32_files = [h \in Handles |-> CLOSED]
  BY Zenon DEF MountInv, FsInv, PlaceInv, Starting, Looking
<1>2. hw' = hw
  BY Zenon DEF hw
<1>3. CASE /\ fat32_fs' = [fat32_fs EXCEPT !.bpb = bpb, !.partition_lba = lba]
           /\ Return([of |-> "mount"])
  <2>1. ~fat32_fs'.whole /\ call' = [at |-> "idle"]
    BY <1>1, <1>3, Zenon DEF MountInv, FatShapes, Return, IDLE
  <2> QED
    BY <2>1, Zenon DEF PlaceInv, Starting, Looking
<1>4. CASE fat32_fs'.partition_lba = lba /\ ~fat32_fs'.whole /\ Return([of |-> "mount"])
  BY <1>4, Zenon DEF PlaceInv, Starting, Looking, Return, IDLE
<1>5. CASE fat32_fs'.partition_lba = lba /\ ~fat32_fs'.whole /\ call' = [at |-> "fat"] /\ UNCHANGED result
  BY <1>1, <1>2, <1>5, Zenon DEF PlaceInv, Starting, Looking
<1> QED
  BY <1>3, <1>4, <1>5 DEF Mount

LEMMA LooksPlaces ==
  ASSUME MountInv, PlaceInv, call.at \in Looking, NEW bpb, NEW i \in Nat \ {0},
         TryPartitions(bpb, Sector(0).partitions, i), UNCHANGED <<machine, fat32_files>>
  PROVE  PlaceInv'
<1> DEFINE partitions == Sector(0).partitions
<1>1. ~fat32_fs.whole /\ result = NO_RESULT /\ fat32_files = [h \in Handles |-> CLOSED]
  BY Zenon DEF MountInv, FsInv, PlaceInv, Starting, Looking
<1>2. partitions \in Seq(PartitionType)
  BY SectorOfTyped, Zenon DEF Sector, hw, MountInv, FatShapes
<1>3. Sector(0)' = Sector(0)
  BY Zenon DEF Sector, hw
<1>4. CASE Mount(bpb, 0)
  BY <1>4, PlaceZero, MountPlaces, Zenon
<1>5. ASSUME NEW k \in i .. Len(partitions),
             fat32_fs' = [fat32_fs EXCEPT !.bpb = bpb],
             call' = [at |-> "partition", partitions |-> partitions, i |-> k], UNCHANGED result
      PROVE  PlaceInv'
  <2>1. k \in DOMAIN partitions
    BY <1>2
  <2>2. ~fat32_fs'.whole
    BY <1>1, <1>5, Zenon DEF MountInv, FatShapes
  <2>3. call'.at = "partition" /\ call'.partitions = partitions /\ call'.i = k
    BY <1>5, Zenon
  <2> HIDE DEF partitions
  <2>4. partitions = Sector(0)'.partitions
    BY <1>3, Zenon DEF partitions
  <2> QED
    BY <1>1, <1>5, <2>1, <2>2, <2>3, <2>4, Zenon DEF PlaceInv, Starting
<1> QED
  BY <1>4, <1>5, Zenon DEF TryPartitions

\* The steps after mounting.
LEMMA LaterPlaces ==
  ASSUME PlaceInv, UNCHANGED <<machine, fat32_fs>>,
         call'.at \in {"idle", "walk", "read", "fault"},
         call'.at # "idle" => result' = NO_RESULT
  PROVE  PlaceInv'
BY Zenon DEF PlaceInv, Starting, Looking, hw

LEMMA MountStepPlaces ==
  ASSUME MountInv, PlaceInv, Boot \/ MountLba0 \/ MountMbr \/ MountPartition \/ MountFat
  PROVE  PlaceInv'
<1>1. CASE Boot
  <2>1. /\ call' \in {[at |-> "lba0"], [at |-> "rebase"]} /\ call.at = "boot"
        /\ UNCHANGED <<machine, fat32_fs, fat32_files, result>>
    BY <1>1, Zenon DEF Boot
  <2>2. result = NO_RESULT /\ fat32_files = [h \in Handles |-> CLOSED]
    BY <2>1, Zenon DEF PlaceInv, Starting, Looking
  <2>3. call'.at # "partition" /\ call'.at # "fat"
    BY <2>1
  <2> QED
    BY <2>1, <2>2, <2>3, Zenon DEF PlaceInv, hw
<1>2. CASE MountLba0
  <2>1. call.at = "lba0" /\ UNCHANGED <<machine, fat32_files>> /\ call.at \in Looking
    BY <1>2, Zenon DEF MountLba0, Ready, disk, Looking
  <2>2. CASE Mount(Copied, 0)
    <3> DEFINE bpb == Copied
    <3>1. Mount(bpb, 0)
      BY <2>2, Zenon
    <3> HIDE DEF bpb
    <3> QED
      BY <2>1, <3>1, PlaceZero, MountPlaces, Zenon
  <2>3. CASE /\ fat32_fs' = [fat32_fs EXCEPT !.bpb = Copied]
             /\ call' = [at |-> "mbr"] /\ UNCHANGED result
    <3>1. ~fat32_fs'.whole
      BY <2>1, <2>3, Zenon DEF MountInv, FatShapes, FsInv, Looking
    <3> QED
      BY <2>1, <2>3, <3>1, Zenon DEF PlaceInv, Starting, Looking
  <2> QED
    BY <1>2, <2>2, <2>3, Zenon DEF MountLba0
<1>3. CASE MountMbr
  <2>1. call.at = "mbr" /\ UNCHANGED <<machine, fat32_files>> /\ call.at \in Looking
    BY <1>3, Zenon DEF MountMbr, Ready, disk, Looking
  <2>2. CASE ~Read
    <3>1. call'.at = "idle" /\ UNCHANGED fat32_fs
      BY <1>3, <2>2 DEF MountMbr, Return, IDLE
    <3> QED
      BY <2>1, <3>1, LaterPlaces, Zenon
  <2>3. CASE Read
    <3>1. transfer.got[1] = 0
      <4>1. Transferring(<<0>>, 1)
        BY <2>1, Zenon DEF MountInv, Asks
      <4> QED
        BY <2>3, <4>1, GotOne DEF Addressed
    <3> DEFINE bpb == fat32_fs.bpb
    <3>2. TryPartitions(bpb, Sector(0).partitions, 1)
      BY <1>3, <2>3, <3>1, Zenon DEF MountMbr
    <3> HIDE DEF bpb
    <3> QED
      BY <2>1, <3>2, LooksPlaces
  <2> QED
    BY <2>2, <2>3, Zenon
<1>4. CASE MountPartition
  <2>1. /\ call.at = "partition" /\ UNCHANGED <<machine, fat32_files>> /\ call.at \in Looking
        /\ call.partitions = Sector(0).partitions /\ call.i \in DOMAIN Sector(0).partitions
    BY <1>4, Zenon DEF MountPartition, Ready, disk, Looking, PlaceInv
  <2>2. call.i + 1 \in Nat \ {0}
    <3>1. Sector(0).partitions \in Seq(PartitionType)
      BY SectorOfTyped, Zenon DEF Sector, hw, MountInv, FatShapes
    <3> QED
      BY <2>1, <3>1
  <2> DEFINE bpb == Copied
             lba == call.partitions[call.i].start
             i == call.i + 1
  <2>3. lba \in Places(hw)
    BY <2>1, PlaceOfPartition, Zenon
  <2>4. Mount(bpb, lba) \/ TryPartitions(bpb, Sector(0).partitions, i)
    BY <1>4, <2>1, Zenon DEF MountPartition
  <2> HIDE DEF bpb, lba, i
  <2>5. i \in Nat \ {0}
    BY <2>2, Zenon DEF i
  <2> QED
    BY <2>1, <2>3, <2>4, <2>5, MountPlaces, LooksPlaces, Zenon
<1>5. CASE MountFat
  <2>1. /\ call.at = "fat" /\ UNCHANGED <<machine, fat32_files>>
        /\ fat32_fs' = [fat32_fs EXCEPT !.whole = Read]
    BY <1>5, Zenon DEF MountFat, Ready, disk
  <2>2. fat32_fs'.spc = fat32_fs.spc /\ fat32_fs'.partition_lba = fat32_fs.partition_lba
    BY <2>1, Zenon DEF MountInv, FatShapes
  <2>3. \/ call' = [at |-> "fault"] /\ UNCHANGED result
        \/ call' = [at |-> "idle"]
    BY <1>5, Zenon DEF MountFat, Return, IDLE
  <2>4. call'.at \in {"fault", "idle"} /\ (call'.at # "idle" => result' = NO_RESULT)
    BY <2>1, <2>3 DEF PlaceInv
  <2> QED
    BY <2>1, <2>2, <2>4, Zenon DEF PlaceInv, Starting, Looking, hw
<1> QED
  BY <1>1, <1>2, <1>3, <1>4, <1>5, Zenon

LEMMA StepPlaces ==
  ASSUME MountInv, PlaceInv, [Next]_vars
  PROVE  PlaceInv'
<1>1. CASE UNCHANGED <<machine, fatVars>>
  BY <1>1, Zenon DEF fatVars, PlaceInv, hw, Sector
<1>2. CASE Boot \/ MountLba0 \/ MountMbr \/ MountPartition \/ MountFat
  BY <1>2, MountStepPlaces, Zenon
<1>3. CASE WalkFails \/ ReadFails \/ \E fd \in Handles : Close(fd) \/ Write(fd)
  <2>1. UNCHANGED <<machine, fat32_fs>> /\ \E r : Return(r)
    <3>1. CASE WalkFails \/ ReadFails
      BY <3>1, Zenon DEF WalkFails, ReadFails, ReadReturns, disk
    <3>2. CASE \E fd \in Handles : Close(fd) \/ Write(fd)
      BY <3>2, Zenon DEF Close, Write, ahciVars
    <3> QED
      BY <1>3, <3>1, <3>2, Zenon
  <2> QED
    BY <2>1, LaterPlaces DEF Return, IDLE
<1>4. CASE \E name \in Names : Open(name)
  <2>1. PICK name \in Names : Open(name)
    BY <1>4, Zenon
  <2>2. CASE \E r : Return(r) /\ UNCHANGED <<machine, fat32_fs>>
    BY <2>2, LaterPlaces DEF Return, IDLE
  <2>3. CASE \E next : /\ ReadCluster(next) /\ next.at = "walk" /\ result' = NO_RESULT
                       /\ UNCHANGED <<machine, fat32_fs>>
    BY <2>3, LaterPlaces DEF ReadCluster
  <2>4. \A n, fd : [at |-> "walk", cluster |-> fat32_fs.root, of |-> "open", name |-> n, fd |-> fd].at = "walk"
    BY Zenon
  <2>5. UNCHANGED <<machine, fat32_fs>>
    BY <2>1, Zenon DEF Open, disk
  <2> QED
    BY <2>1, <2>2, <2>3, <2>4, <2>5, Zenon DEF Open
<1>5. CASE EnumerateRoot
  <2>1. UNCHANGED <<machine, fat32_fs>>
    BY <1>5, Zenon DEF EnumerateRoot, disk
  <2>2. CASE \E r : Return(r)
    BY <2>1, <2>2, LaterPlaces DEF Return, IDLE
  <2>3. CASE /\ ReadCluster([at |-> "walk", cluster |-> fat32_fs.root, of |-> "list", names |-> << >>])
             /\ result' = NO_RESULT
    BY <2>1, <2>3, LaterPlaces DEF ReadCluster
  <2> QED
    BY <1>5, <2>2, <2>3, Zenon DEF EnumerateRoot
<1>6. CASE \E rest_ \in Rests : Walk(rest_)
  <2>1. call.at = "walk" /\ UNCHANGED <<machine, fat32_fs>>
    BY <1>6, Zenon DEF Walk, Ready, disk
  <2>2. result = NO_RESULT
    BY <2>1, Zenon DEF PlaceInv
  <2>3. CASE \E r : Return(r)
    BY <2>1, <2>3, LaterPlaces DEF Return, IDLE
  <2>4. CASE \E next : ReadCluster(next) /\ next.at = "walk" /\ UNCHANGED result
    BY <2>1, <2>2, <2>4, LaterPlaces DEF ReadCluster
  <2>5. ASSUME NEW entries, NEW next, NEW end, WalkOn(entries, next, end), next.at = "walk",
               "at" \in DOMAIN next
        PROVE  PlaceInv'
    <3>1. \A c : [next EXCEPT !.cluster = c].at = "walk"
      BY <2>5, Zenon
    <3> QED
      BY <2>3, <2>4, <2>5, <3>1, Zenon DEF WalkOn
  <2>6. PICK entries : Find(entries) \/ List(entries)
    BY <1>6, Zenon DEF Walk
  <2>7. "at" \in DOMAIN call
    BY Zenon DEF MountInv, FatShapes
  <2>8. CASE Find(entries)
    BY <2>1, <2>3, <2>5, <2>7, <2>8, Zenon DEF Find
  <2>9. CASE List(entries)
    <3>1. \A names : [call EXCEPT !.names = names].at = "walk" /\ "at" \in DOMAIN [call EXCEPT !.names = names]
      BY <2>1, <2>7, Zenon
    <3> QED
      BY <2>5, <2>9, <3>1, Zenon DEF List
  <2> QED
    BY <2>6, <2>8, <2>9, Zenon
<1>7. ASSUME NEW c, ReadOn(c), c.at = "read", UNCHANGED <<machine, fat32_fs>>
      PROVE  PlaceInv'
  BY <1>7, LaterPlaces DEF ReadOn, ReadReturns, Return, IDLE, ReadCluster
<1>8. CASE \E fd \in Handles, size \in Sizes : ReadBegin(fd, size)
  <2>1. PICK fd \in Handles, size \in Sizes : ReadBegin(fd, size)
    BY <1>8, Zenon
  <2>2. UNCHANGED <<machine, fat32_fs>>
    BY <2>1, Zenon DEF ReadBegin, disk
  <2>3. CASE \E from, n, bytes : ReadReturns(fd, from, size, n, bytes)
    BY <2>2, <2>3, LaterPlaces DEF ReadReturns, Return, IDLE
  <2>4. CASE call' = [at |-> "fault"] /\ result' = NO_RESULT
    BY <2>2, <2>4, LaterPlaces, Zenon
  <2>5. \A from, count, cluster, offset :
          [at |-> "read", fd |-> fd, from |-> from, asked |-> size, count |-> count,
           cluster |-> cluster, offset |-> offset, bytes |-> << >>].at = "read"
    BY Zenon
  <2> QED
    BY <1>7, <2>1, <2>2, <2>3, <2>4, <2>5, Zenon DEF ReadBegin
<1>9. CASE ReadCopies
  <2>1. call.at = "read" /\ UNCHANGED <<machine, fat32_fs>> /\ "at" \in DOMAIN call
    BY <1>9, Zenon DEF ReadCopies, Ready, disk, MountInv, FatShapes
  <2>2. PICK count, offset, cluster, bytes :
          ReadOn([call EXCEPT !.count = count, !.offset = offset, !.cluster = cluster, !.bytes = bytes])
    BY <1>9, Zenon DEF ReadCopies
  <2> DEFINE c == [call EXCEPT !.count = count, !.offset = offset, !.cluster = cluster, !.bytes = bytes]
  <2>3. c.at = "read" /\ ReadOn(c)
    BY <2>1, <2>2, Zenon
  <2> HIDE DEF c
  <2> QED
    BY <1>7, <2>1, <2>3, Zenon
<1>10. CASE Driver \/ Hba \/ Stopped \/ UNCHANGED vars
  BY <1>1, <1>10, Zenon DEF Driver, Hba, Stopped, vars, ahciVars,
                     DoTransfer, WaitCompletion, HbaCompletes, HbaFails
<1> QED
  BY <1>2, <1>3, <1>4, <1>5, <1>6, <1>8, <1>9, <1>10, Zenon DEF Next, Step, Callers

\* The mounted volume is one that is laid out as Volumes has it.
IsVolume ==
  /\ machine \in DOMAIN Machines
  /\ ~hw.lba_bit
  /\ fat32_fs.spc = BUFFER_SECTORS /\ BootSector(hw, Place).spc = BUFFER_SECTORS
  /\ fat32_fs.root = BootSector(hw, Place).root
  /\ fat_table = TableOf(hw, Place)
  /\ \A c : ClusterLba(c) = FirstSector(hw, Place, c)
  /\ DirectoryStored(hw, Place) /\ EntriesStored(hw, Place)
  /\ \A f \in DOMAIN Files : ContentStored(hw, Place, Files[f])
  /\ Len(Files) <= MaxNames

LEMMA SoundIs ==
  ASSUME MountInv, PlaceInv, Sound
  PROVE  IsVolume
<1>1. BUFFER_SECTORS # 0 /\ machine \in DOMAIN Machines
  BY DiskAssumption, Zenon DEF MountInv, FatShapes
<1>2. fat32_fs.whole /\ fat32_fs.spc = BUFFER_SECTORS /\ fat32_fs.spc # 0
  BY <1>1, Zenon DEF Sound
<1>3. ~hw.lba_bit /\ Place \in Places(hw)
  BY <1>2, Zenon DEF MountInv, FsInv, PlaceInv, Place
<1>4. Valid(BootSector(hw, Place)) /\ Parameters(BootSector(hw, Place), Place)
  BY <1>2, Zenon DEF MountInv, FsInv, Place, BootSector, Sector
<1>5. fat_table = TableOf(hw, Place)
  BY <1>2, <1>4, Zenon DEF MountInv, FsInv, TableOf, Parameters, Sector
<1>6. /\ BootSector(hw, Place).spc = BUFFER_SECTORS /\ BootSector(hw, Place).bytes_ok
      /\ BootSector(hw, Place).fat_size # 0 /\ fat32_fs.root = BootSector(hw, Place).root
  BY <1>2, <1>4, Zenon DEF Parameters, Valid
<1>7. \A c : ClusterLba(c) = FirstSector(hw, Place, c)
  BY <1>4, Zenon DEF ClusterLba, FirstSector, Parameters
<1>8. /\ DirectoryStored(hw, Place) /\ EntriesStored(hw, Place)
      /\ \A f \in DOMAIN Files : ContentStored(hw, Place, Files[f])
      /\ Len(Files) <= MaxNames
  BY <1>1, <1>3, <1>6, VolumeAssumption, Zenon DEF hw, Files, Place
<1> QED
  BY <1>1, <1>2, <1>3, <1>5, <1>6, <1>7, <1>8, Zenon DEF IsVolume

\* The sectors of a cluster.
LEMMA ClusterIs ==
  ASSUME IsVolume, NEW c, ReadsFrom(c), Read
  PROVE  /\ DOMAIN transfer.got = 1 .. BUFFER_SECTORS
         /\ \A k \in 1 .. BUFFER_SECTORS : transfer.got[k] = FirstSector(hw, Place, c) + k - 1
<1> DEFINE L == Sectors(FirstSector(hw, Place, c), BUFFER_SECTORS)
<1>1. BUFFER_SECTORS \in Nat /\ Transferring(L, BUFFER_SECTORS)
  BY DiskAssumption, Zenon DEF ReadsFrom
<1>2. \A k \in 1 .. BUFFER_SECTORS : L[k] = FirstSector(hw, Place, c) + k - 1
  BY Zenon DEF Sectors
<1> HIDE DEF L
<1>3. transfer.got = [k \in 1 .. BUFFER_SECTORS |-> Addressed(L[k])]
  BY <1>1, TransferDone, Zenon
<1>4. \A k \in 1 .. BUFFER_SECTORS : Addressed(L[k]) = L[k]
  BY Zenon DEF Addressed, IsVolume
<1> QED
  BY <1>2, <1>3, <1>4, Zenon

LEMMA BufferIs ==
  ASSUME IsVolume, NEW c, ReadsFrom(c), Read, NEW rest_
  PROVE  ClusterBuffer(rest_) = EntriesOf(hw, Place, c)
<1> DEFINE E == EntriesOf(hw, Place, c)
<1>1. [k \in DOMAIN transfer.got |-> Sector(transfer.got[k]).entries]
        = [k \in 1 .. BootSector(hw, Place).spc |-> SectorOf(hw, FirstSector(hw, Place, c) + k - 1).entries]
  BY ClusterIs, Zenon DEF Sector, IsVolume
<1>2. FlattenSeq([k \in DOMAIN transfer.got |-> Sector(transfer.got[k]).entries]) = E
  BY <1>1, Zenon DEF EntriesOf
<1>3. E \in Seq(EntryType)
  BY EntriesTyped, Zenon DEF hw, IsVolume
<1>4. ~(fat32_fs.spc < BUFFER_SECTORS)
  BY DiskAssumption DEF IsVolume
<1> HIDE DEF E
<1>5. E \o << >> = E
  BY <1>3
<1> QED
  BY <1>2, <1>4, <1>5, Zenon DEF ClusterBuffer, E

LEMMA BytesIs ==
  ASSUME IsVolume, NEW c, ReadsFrom(c), Read
  PROVE  FlattenSeq([k \in DOMAIN transfer.got |-> Sector(transfer.got[k]).bytes]) = BytesOf(hw, Place, c)
<1>1. [k \in DOMAIN transfer.got |-> Sector(transfer.got[k]).bytes]
        = [k \in 1 .. BootSector(hw, Place).spc |-> SectorOf(hw, FirstSector(hw, Place, c) + k - 1).bytes]
  BY ClusterIs, Zenon DEF Sector, IsVolume
<1> QED
  BY <1>1, Zenon DEF BytesOf

\* The links of a chain, and the end of the directory.
LEMMA FollowTable ==
  ASSUME IsVolume, NEW c \in Nat, c >= 2, c < Len(TableOf(hw, Place))
  PROVE  LET next == TableOf(hw, Place)[c + 1]
         IN  next \in Nat /\ Follow(c) = {IF next >= FAT32_EOC THEN 0 ELSE next}
<1> DEFINE t == TableOf(hw, Place)
<1>1. t \in Seq(Nat)
  BY TableTyped, Zenon DEF IsVolume, hw
<1>2. fat_table = t /\ c < Len(t)
  BY Zenon DEF IsVolume
<1> HIDE DEF t
<1>3. t # NULL
  <2>1. Len(NULL) = 1
    BY Zenon DEF NULL
  <2>2. Len(t) \in Nat /\ Len(t) > 2
    BY <1>1, <1>2
  <2> SUFFICES ASSUME t = NULL PROVE FALSE
    BY Zenon
  <2>3. Len(t) = Len(NULL)
    BY Zenon
  <2> QED
    BY <2>1, <2>2, <2>3
<1>4. t[c + 1] \in Nat
  BY <1>1, <1>2
<1>5. FatEntries(c) = {t[c + 1]}
  BY <1>2, <1>3, Zenon DEF FatEntries
<1>6. Follow(c) = {IF t[c + 1] >= FAT32_EOC THEN 0 ELSE t[c + 1]}
  BY <1>5, Zenon DEF Follow
<1> QED
  BY <1>4, <1>6, Zenon DEF t

LEMMA ChainIs ==
  ASSUME IsVolume, NEW chain, IsChain(hw, Place, chain), NEW i \in DOMAIN chain
  PROVE  /\ Len(chain) \in Nat /\ i \in 1 .. Len(chain)
         /\ chain[i] \in Nat /\ IsCluster(chain[i])
         /\ i < Len(chain) => /\ i + 1 \in DOMAIN chain /\ IsCluster(chain[i + 1])
                              /\ Follow(chain[i]) = {chain[i + 1]}
<1>1. /\ chain \in Seq(Nat)
      /\ \A k \in DOMAIN chain : chain[k] >= 2 /\ chain[k] < FAT32_EOC /\ chain[k] < Len(TableOf(hw, Place))
      /\ \A k \in 1 .. Len(chain) - 1 : TableOf(hw, Place)[chain[k] + 1] = chain[k + 1]
  BY Zenon DEF IsChain
<1>2. Len(chain) \in Nat /\ DOMAIN chain = 1 .. Len(chain) /\ \A k \in DOMAIN chain : chain[k] \in Nat
  BY <1>1
<1>3. chain[i] \in Nat /\ IsCluster(chain[i])
  BY <1>1, <1>2, Zenon DEF IsCluster
<1>4. ASSUME i < Len(chain)
      PROVE  /\ i + 1 \in DOMAIN chain /\ IsCluster(chain[i + 1])
             /\ Follow(chain[i]) = {chain[i + 1]}
  <2>1. i + 1 \in DOMAIN chain /\ i \in 1 .. Len(chain) - 1
    BY <1>2, <1>4
  <2>2. chain[i + 1] \in Nat /\ IsCluster(chain[i + 1]) /\ chain[i + 1] < FAT32_EOC
    BY <1>1, <1>2, <2>1, Zenon DEF IsCluster
  <2>3. TableOf(hw, Place)[chain[i] + 1] = chain[i + 1]
    BY <1>1, <2>1, Zenon
  <2>4. Follow(chain[i]) = {IF chain[i + 1] >= FAT32_EOC THEN 0 ELSE chain[i + 1]}
    BY <1>1, <1>3, <2>3, FollowTable, Zenon
  <2>5. ~(chain[i + 1] >= FAT32_EOC)
    BY <2>2, DiskAssumption
  <2> QED
    BY <2>1, <2>2, <2>4, <2>5, Zenon
<1> QED
  BY <1>2, <1>3, <1>4, Zenon

LEMMA DirectoryIs ==
  ASSUME IsVolume
  PROVE  /\ IsChain(hw, Place, Directory) /\ Len(Directory) \in Nat \ {0}
         /\ DOMAIN Directory = 1 .. Len(Directory)
         /\ Directory[1] = fat32_fs.root /\ IsCluster(fat32_fs.root)
         /\ \A i \in DOMAIN Directory : i < Len(Directory) => ~HasEnd(EntriesOf(hw, Place, Directory[i]))
         /\ \/ HasEnd(EntriesOf(hw, Place, Directory[Len(Directory)]))
            \/ \A c \in Follow(Directory[Len(Directory)]) : ~IsCluster(c)
<1> DEFINE dir == Directory
           n == Len(dir)
           next == TableOf(hw, Place)[dir[n] + 1]
<1>1. /\ IsChain(hw, Place, dir) /\ dir # << >> /\ dir[1] = fat32_fs.root
      /\ \A i \in 1 .. n - 1 : ~HasEnd(EntriesOf(hw, Place, dir[i]))
      /\ HasEnd(EntriesOf(hw, Place, dir[n])) \/ next < 2 \/ next >= FAT32_EOC
  BY Zenon DEF IsVolume, DirectoryStored, Directory
<1>2. n \in Nat \ {0} /\ DOMAIN dir = 1 .. n
  BY <1>1 DEF IsChain
<1>3. 1 \in DOMAIN dir /\ n \in DOMAIN dir
  BY <1>2
<1>4. IsCluster(fat32_fs.root)
  BY <1>1, <1>3, ChainIs, Zenon
<1>5. \A i \in DOMAIN dir : i < n => ~HasEnd(EntriesOf(hw, Place, dir[i]))
  BY <1>1, <1>2
<1>6. ASSUME next < 2 \/ next >= FAT32_EOC
      PROVE  \A c \in Follow(dir[n]) : ~IsCluster(c)
  <2>1. dir[n] \in Nat /\ dir[n] >= 2 /\ dir[n] < Len(TableOf(hw, Place))
    BY <1>1, <1>3 DEF IsChain
  <2>2. next \in Nat /\ Follow(dir[n]) = {IF next >= FAT32_EOC THEN 0 ELSE next}
    BY <2>1, FollowTable, Zenon
  <2> HIDE DEF next
  <2> QED
    BY <1>6, <2>2, DiskAssumption DEF IsCluster
<1> QED
  BY <1>1, <1>2, <1>4, <1>5, <1>6, Zenon

\* Asking for a cluster.
LEMMA ClusterAsked ==
  ASSUME IsVolume, IsVolume', UNCHANGED <<machine, fat32_fs>>, NEW next, ReadCluster(next)
  PROVE  call' = next /\ ReadsFrom(next.cluster)'
<1> DEFINE c == next.cluster
           n == BUFFER_SECTORS
           L == Sectors(FirstSector(hw, Place, c), n)
<1>1. n \in Nat \ {0} /\ fat32_fs.spc = n
  BY DiskAssumption, Zenon DEF IsVolume
<1>2. call' = next /\ ReadSectors(L)
  BY <1>1, DiskAssumption DEF IsVolume, ReadCluster
<1>3. L = [k \in 1 .. n |-> L[k]]
  BY Zenon DEF Sectors
<1>4. hw' = hw /\ Place' = Place
  BY Zenon DEF hw, Place
<1>5. PICK M : M = L
  BY Zenon
<1>6. Transferring(M, n)'
  <2>1. ReadSectors(M) /\ M = [k \in 1 .. n |-> M[k]]
    BY <1>2, <1>3, <1>5, Zenon
  <2> QED
    BY <1>1, <2>1, TransferBegins, Zenon
<1>7. M = Sectors(FirstSector(hw', Place', c), n)
  BY <1>4, <1>5, Zenon
<1> QED
  BY <1>2, <1>6, <1>7, Zenon DEF ReadsFrom

-------------------------------------------------------------------------------
(***************************************************************************)
(* The directory: what is found in its clusters one after the other.       *)
(***************************************************************************)
EntriesIn(i) == EntriesOf(hw, Place, Directory[i])

LEMMA ShownIs ==
  ASSUME NEW entries, NEW k
  PROVE  k \in Shown(entries) <=> k \in DOMAIN entries /\ IsFile(entries, k)
BY Zenon DEF Shown, Visible, IsFile

LEMMA EndedIs == ASSUME NEW entries PROVE Ended(entries) <=> HasEnd(entries)
BY Zenon DEF Ended, HasEnd

\* The files and their entries.
LEMMA FilesAre ==
  ASSUME IsVolume
  PROVE  /\ Len(Files) \in Nat /\ DOMAIN Files = 1 .. Len(Files) /\ Len(Files) <= MaxNames
         /\ \A f \in DOMAIN Files :
              /\ Files[f].part \in Nat /\ Files[f].entry \in Nat
              /\ Files[f].name \in Seq(STRING) /\ Files[f].clusters \in Seq(Nat)
              /\ Files[f].bytes \in Seq(0 .. 255)
<1> DEFINE T == [name : Seq(STRING), part : Nat, entry : Nat, clusters : Seq(Nat), bytes : Seq(0 .. 255)]
<1>1. Files \in Seq(T) /\ Len(Files) <= MaxNames
  BY Zenon DEF IsVolume, EntriesStored, Files, Place
<1>2. \A t \in T : /\ t.part \in Nat /\ t.entry \in Nat /\ t.name \in Seq(STRING)
                   /\ t.clusters \in Seq(Nat) /\ t.bytes \in Seq(0 .. 255)
  BY Zenon
<1> HIDE DEF T
<1>3. Len(Files) \in Nat /\ DOMAIN Files = 1 .. Len(Files) /\ \A f \in DOMAIN Files : Files[f] \in T
  BY <1>1
<1> QED
  BY <1>1, <1>2, <1>3

LEMMA FileEntry ==
  ASSUME IsVolume, NEW f \in DOMAIN Files
  PROVE  LET i == Files[f].part
             k == Files[f].entry
         IN  /\ i \in DOMAIN Directory /\ k \in DOMAIN EntriesIn(i)
             /\ IsFile(EntriesIn(i), k)
             /\ EntriesIn(i)[k].name = Files[f].name
             /\ EntriesIn(i)[k].first = First(Files[f])
             /\ EntriesIn(i)[k].size = Len(Files[f].bytes)
BY Zenon DEF IsVolume, EntriesStored, Files, Place, Directory, EntriesIn

LEMMA EntryFile ==
  ASSUME IsVolume, NEW i \in DOMAIN Directory, NEW k \in Shown(EntriesIn(i))
  PROVE  \E f \in DOMAIN Files : Files[f].part = i /\ Files[f].entry = k
<1>1. k \in DOMAIN EntriesIn(i) /\ IsFile(EntriesIn(i), k)
  BY ShownIs, Zenon
<1> QED
  BY <1>1, Zenon DEF IsVolume, EntriesStored, Files, Place, Directory, EntriesIn

LEMMA FilesOrdered ==
  ASSUME IsVolume, NEW f \in DOMAIN Files, NEW g \in DOMAIN Files, f < g
  PROVE  \/ Files[f].part < Files[g].part
         \/ Files[f].part = Files[g].part /\ Files[f].entry < Files[g].entry
BY Zenon DEF IsVolume, EntriesStored, Files, Place

\* The walk goes to the next cluster of the directory or ends with the last.
LEMMA WalkGoes ==
  ASSUME IsVolume, NEW i \in DOMAIN Directory, NEW c \in Follow(Directory[i])
  PROVE  IF ~Ended(EntriesIn(i)) /\ IsCluster(c)
         THEN i < Len(Directory) /\ i + 1 \in DOMAIN Directory /\ c = Directory[i + 1]
         ELSE i = Len(Directory)
<1>1. Len(Directory) \in Nat \ {0} /\ DOMAIN Directory = 1 .. Len(Directory)
  BY DirectoryIs, Zenon
<1>2. CASE i < Len(Directory)
  <2>1. /\ i + 1 \in DOMAIN Directory /\ IsCluster(Directory[i + 1])
        /\ Follow(Directory[i]) = {Directory[i + 1]}
    BY <1>2, DirectoryIs, ChainIs, Zenon
  <2>2. ~HasEnd(EntriesIn(i))
    BY <1>2, DirectoryIs, Zenon DEF EntriesIn
  <2> QED
    BY <1>2, <2>1, <2>2, EndedIs, Zenon
<1>3. CASE i = Len(Directory)
  <2>1. HasEnd(EntriesIn(i)) \/ ~IsCluster(c)
    BY <1>3, DirectoryIs, Zenon DEF EntriesIn
  <2> QED
    BY <1>3, <2>1, EndedIs, Zenon
<1> QED
  BY <1>1, <1>2, <1>3

\* The first m files are those up to the j-th entry of the i-th cluster.
Seen(m, i, j) ==
  /\ m \in 0 .. Len(Files)
  /\ \A f \in DOMAIN Files :
       f <= m <=> Files[f].part < i \/ (Files[f].part = i /\ Files[f].entry <= j)

LEMMA SeenNone ==
  ASSUME IsVolume, NEW i, NEW j \in Nat, NEW m, Seen(m, i, j),
         \A f \in DOMAIN Files : ~(Files[f].part = i /\ Files[f].entry = j + 1)
  PROVE  Seen(m, i, j + 1)
<1>1. ASSUME NEW f \in DOMAIN Files, Files[f].part = i
      PROVE  Files[f].entry <= j + 1 <=> Files[f].entry <= j
  <2>1. Files[f].entry \in Nat /\ Files[f].entry # j + 1
    BY <1>1, FilesAre, Zenon
  <2> QED
    BY <2>1
<1> QED
  BY <1>1, Zenon DEF Seen

LEMMA SeenOne ==
  ASSUME IsVolume, NEW i \in Nat, NEW j \in Nat, NEW m, Seen(m, i, j),
         NEW g \in DOMAIN Files, Files[g].part = i, Files[g].entry = j + 1
  PROVE  g = m + 1 /\ Seen(m + 1, i, j + 1)
<1>1. /\ Len(Files) \in Nat /\ DOMAIN Files = 1 .. Len(Files) /\ m \in 0 .. Len(Files) /\ m \in Nat
      /\ \A f \in DOMAIN Files : Files[f].part \in Nat /\ Files[f].entry \in Nat
  BY FilesAre DEF Seen
<1>2. \A f \in DOMAIN Files :
        f <= m <=> Files[f].part < i \/ (Files[f].part = i /\ Files[f].entry <= j)
  BY Zenon DEF Seen
<1>3. ~(g <= m)
  BY <1>2
<1>4. ASSUME NEW f \in DOMAIN Files, f < g PROVE f <= m
  <2>1. Files[f].part < i \/ (Files[f].part = i /\ Files[f].entry < j + 1)
    BY <1>4, FilesOrdered
  <2>2. Files[f].entry < j + 1 => Files[f].entry <= j
    BY <1>1
  <2> QED
    BY <1>2, <2>1, <2>2, Zenon
<1>5. g = m + 1
  <2>1. g = 1 \/ g - 1 \in DOMAIN Files
    BY <1>1
  <2>2. g \in Nat /\ g > m
    BY <1>1, <1>3
  <2>3. CASE g = 1
    BY <1>1, <2>2, <2>3
  <2>4. CASE g - 1 \in DOMAIN Files
    <3>1. g - 1 <= m
      BY <1>1, <1>4, <2>4
    <3> QED
      BY <1>1, <2>2, <3>1
  <2> QED
    BY <2>1, <2>3, <2>4, Zenon
<1>6. ASSUME NEW f \in DOMAIN Files
      PROVE  f <= m + 1 <=> Files[f].part < i \/ (Files[f].part = i /\ Files[f].entry <= j + 1)
  <2>1. CASE f < g
    <3>1. f <= m /\ f <= m + 1
      BY <1>1, <1>4, <2>1
    <3>2. Files[f].entry <= j => Files[f].entry <= j + 1
      BY <1>1
    <3> QED
      BY <1>2, <3>1, <3>2, Zenon
  <2>2. CASE f = g
    BY <1>1, <1>5, <2>2
  <2>3. CASE g < f
    <3>1. i < Files[f].part \/ (i = Files[f].part /\ j + 1 < Files[f].entry)
      BY <2>3, FilesOrdered
    <3>2. ~(f <= m + 1)
      BY <1>1, <1>5, <2>3
    <3>3. ~(Files[f].part < i \/ (Files[f].part = i /\ Files[f].entry <= j + 1))
      BY <1>1, <3>1
    <3> QED
      BY <3>2, <3>3, Zenon
  <2> QED
    BY <1>1, <2>1, <2>2, <2>3
<1>7. m + 1 \in 0 .. Len(Files)
  BY <1>1, <1>5
<1> QED
  BY <1>5, <1>6, <1>7, Zenon DEF Seen

LEMMA SeenBefore ==
  ASSUME IsVolume, NEW i \in DOMAIN Directory, NEW n, Passed(n, i)
  PROVE  Seen(n, i, 0)
<1>1. ASSUME NEW f \in DOMAIN Files, Files[f].part = i PROVE ~(Files[f].entry <= 0)
  <2>1. Files[f].entry \in DOMAIN EntriesIn(i)
    BY <1>1, FileEntry, Zenon
  <2>2. EntriesIn(i) \in Seq(EntryType)
    BY EntriesTyped, Zenon DEF IsVolume, hw, EntriesIn
  <2> QED
    BY <2>1, <2>2
<1> QED
  BY <1>1, Zenon DEF Passed, Seen

LEMMA SeenAfter ==
  ASSUME IsVolume, NEW i \in DOMAIN Directory, NEW m, Seen(m, i, Len(EntriesIn(i)))
  PROVE  Passed(m, i + 1)
<1>1. i \in Nat
  BY DirectoryIs
<1>2. ASSUME NEW f \in DOMAIN Files
      PROVE  Files[f].part < i + 1 <=>
               Files[f].part < i \/ (Files[f].part = i /\ Files[f].entry <= Len(EntriesIn(i)))
  <2>1. Files[f].part \in Nat
    BY FilesAre, Zenon
  <2>2. ASSUME Files[f].part = i PROVE Files[f].entry <= Len(EntriesIn(i))
    <3>1. Files[f].entry \in DOMAIN EntriesIn(i)
      BY <2>2, FileEntry, Zenon
    <3>2. EntriesIn(i) \in Seq(EntryType)
      BY EntriesTyped, Zenon DEF IsVolume, hw, EntriesIn
    <3> QED
      BY <3>1, <3>2
  <2> QED
    BY <1>1, <2>1, <2>2
<1> QED
  BY <1>2, Zenon DEF Passed, Seen

\* What is reported of the first m files.

LEMMA ReportsTyped ==
  ASSUME IsVolume, NEW m \in 0 .. Len(Files)
  PROVE  /\ Reports(m) \in Seq({Report(Files[f]) : f \in DOMAIN Files})
         /\ Len(Reports(m)) = m
<1> DEFINE S == {Report(Files[f]) : f \in DOMAIN Files}
           s == Reports(m)
<1>1. \A f \in 1 .. m : f \in DOMAIN Files
  BY FilesAre
<1>2. s = [f \in 1 .. m |-> s[f]] /\ \A f \in 1 .. m : s[f] \in S
  BY <1>1, Zenon DEF Reports
<1> HIDE DEF S, s
<1>3. m \in Nat
  BY FilesAre
<1>4. s \in Seq(S) /\ Len(s) = m
  BY <1>2, <1>3, FunctionSeq, Zenon
<1> QED
  BY <1>4, Zenon DEF S, s

LEMMA ReportsMore ==
  ASSUME IsVolume, NEW m \in Nat, m + 1 <= Len(Files)
  PROVE  Reports(m) \o << Report(Files[m + 1]) >> = Reports(m + 1)
<1> DEFINE S == {Report(Files[f]) : f \in DOMAIN Files}
           x == Report(Files[m + 1])
           t == Append(Reports(m), x)
<1>1. m \in 0 .. Len(Files) /\ m + 1 \in 0 .. Len(Files) /\ m + 1 \in DOMAIN Files
  BY FilesAre
<1>2. Reports(m) \in Seq(S) /\ Len(Reports(m)) = m /\ Reports(m + 1) \in Seq(S) /\ Len(Reports(m + 1)) = m + 1
  BY <1>1, ReportsTyped, Zenon
<1>3. x \in S
  BY <1>1, Zenon
<1>4. \A f \in 1 .. m : Reports(m)[f] = Report(Files[f])
  BY Zenon DEF Reports
<1>5. \A f \in 1 .. m + 1 : Reports(m + 1)[f] = Report(Files[f])
  BY Zenon DEF Reports
<1> HIDE DEF S
<1>6. /\ t \in Seq(S) /\ Len(t) = m + 1 /\ t[m + 1] = x
      /\ \A f \in 1 .. m : t[f] = Reports(m)[f]
  BY <1>2, <1>3, AppendProperties
<1>7. t = Reports(m) \o <<x>>
  BY <1>2, <1>3, AppendIsConcat, Zenon
<1> HIDE DEF t
<1>8. ASSUME NEW f \in 1 .. m + 1 PROVE t[f] = Reports(m + 1)[f]
  <2>1. CASE f = m + 1
    BY <1>5, <1>6, <2>1, Zenon
  <2>2. CASE f \in 1 .. m
    BY <1>4, <1>5, <1>6, <2>2, Zenon
  <2> QED
    BY <2>1, <2>2
<1>9. t = Reports(m + 1)
  BY <1>2, <1>6, <1>8, SeqEqual, Zenon
<1> QED
  BY <1>7, <1>9, Zenon

\* What fat32_enumerate_root reports of a cluster follows what it has reported.
LEMMA ListedIs ==
  ASSUME IsVolume, NEW i \in DOMAIN Directory, NEW n, Passed(n, i)
  PROVE  \E m : Passed(m, i + 1) /\ Reports(n) \o Listed(EntriesIn(i)) = Reports(m)
<1> DEFINE S == {Report(Files[f]) : f \in DOMAIN Files}
           E == EntriesIn(i)
           s == [k \in DOMAIN E |->
                   IF k \in Shown(E) THEN << [name |-> ExtractName(E[k].name), size |-> E[k].size] >>
                   ELSE << >>]
           l == Len(E)
<1>1. E \in Seq(EntryType)
  BY EntriesTyped, Zenon DEF IsVolume, hw, EntriesIn
<1>2. l \in Nat /\ DOMAIN E = 1 .. l
  BY <1>1
<1>3. i \in Nat /\ n \in 0 .. Len(Files) /\ Reports(n) \in Seq(S)
  BY DirectoryIs, ReportsTyped DEF Passed
<1>4. ASSUME NEW k \in DOMAIN E, k \in Shown(E)
      PROVE  \E f \in DOMAIN Files :
               Files[f].part = i /\ Files[f].entry = k /\ s[k] = << Report(Files[f]) >>
  <2>1. PICK f \in DOMAIN Files : Files[f].part = i /\ Files[f].entry = k
    BY <1>4, EntryFile, Zenon
  <2>2. E[k].name = Files[f].name /\ E[k].size = Len(Files[f].bytes)
    BY <2>1, FileEntry, Zenon
  <2> QED
    BY <1>4, <2>1, <2>2, Zenon DEF Report
<1>5. \A k \in DOMAIN E : k \notin Shown(E) => s[k] = << >>
  BY Zenon
<1>6. Listed(E) = FlattenSeq(s) /\ DOMAIN s = DOMAIN E /\ s = [k \in DOMAIN E |-> s[k]]
  BY Zenon DEF Listed
<1> HIDE DEF E, s, l
<1>7. s \in Seq(Seq(S)) /\ Len(s) = l
  <2>1. ASSUME NEW k \in 1 .. l PROVE s[k] \in Seq(S)
    <3>1. CASE k \in Shown(E)
      <4>1. PICK f \in DOMAIN Files : s[k] = << Report(Files[f]) >>
        BY <1>2, <1>4, <3>1, Zenon
      <4>2. Report(Files[f]) \in S
        BY Zenon
      <4> HIDE DEF S
      <4> QED
        BY <4>1, <4>2
    <3>2. CASE k \notin Shown(E)
      BY <1>2, <1>5, <3>2, EmptySeq, Zenon
    <3> QED
      BY <3>1, <3>2, Zenon
  <2> HIDE DEF S
  <2>2. s = [k \in 1 .. l |-> s[k]]
    BY <1>2, <1>6, Zenon
  <2> QED
    BY <1>2, <2>1, <2>2, FunctionSeq, Zenon
<1> HIDE DEF S
<1>8. PICK g : Joins(g, s)
  BY <1>7, FlattenIs, Zenon
<1>9. \A j \in 0 .. l : g[j] \in Seq(S)
  BY <1>7, <1>8, JoinsTyped, Zenon
<1>10. /\ g[0] = << >> /\ FlattenSeq(s) = g[l]
       /\ \A j \in 0 .. l - 1 : g[j + 1] = g[j] \o s[j + 1]
  BY <1>7, <1>8, Zenon DEF Joins
<1> DEFINE T == {j \in 0 .. l : \E m : Seen(m, i, j) /\ Reports(n) \o g[j] = Reports(m)}
<1>11. 0 \in T
  <2>1. Seen(n, i, 0)
    BY SeenBefore, Zenon
  <2>2. Reports(n) \o << >> = Reports(n)
    BY <1>3, ConcatEmptySeq, Zenon
  <2> QED
    <3>1. Reports(n) \o g[0] = Reports(n)
      BY <1>10, <2>2, Zenon
    <3>2. 0 \in 0 .. l
      BY <1>2
    <3> QED
      BY <2>1, <3>1, <3>2, Zenon
<1>12. ASSUME NEW j \in 0 .. l - 1, j \in T PROVE j + 1 \in T
  <2>1. PICK m : Seen(m, i, j) /\ Reports(n) \o g[j] = Reports(m)
    BY <1>12, Zenon
  <2>2. j \in Nat /\ j \in 0 .. l /\ j + 1 \in 0 .. l /\ j + 1 \in DOMAIN E /\ m \in Nat
    BY <1>2, <2>1, FilesAre DEF Seen
  <2>3. CASE j + 1 \in Shown(E)
    <3>1. PICK f \in DOMAIN Files :
            Files[f].part = i /\ Files[f].entry = j + 1 /\ s[j + 1] = << Report(Files[f]) >>
      BY <1>4, <2>2, <2>3, Zenon
    <3>2. f = m + 1 /\ Seen(m + 1, i, j + 1)
      <4>1. i \in Nat /\ j \in Nat /\ Seen(m, i, j) /\ Files[f].part = i /\ Files[f].entry = j + 1
        BY <1>3, <2>1, <2>2, <3>1, Zenon
      <4> HIDE DEF T, E, s, l
      <4> QED
        BY ONLY IsVolume, f \in DOMAIN Files, <4>1, SeenOne, Zenon
    <3>3. s[j + 1] \in Seq(S) /\ g[j] \in Seq(S)
      BY <1>2, <1>7, <1>9, <2>2, ElementOfSeq, Zenon
    <3>4. Reports(n) \o (g[j] \o s[j + 1]) = (Reports(n) \o g[j]) \o s[j + 1]
      <4>1. PICK a, b, c : a = Reports(n) /\ b = g[j] /\ c = s[j + 1]
        BY Zenon
      <4>2. a \in Seq(S) /\ b \in Seq(S) /\ c \in Seq(S)
        BY <1>3, <3>3, <4>1, Zenon
      <4>3. (a \o b) \o c = a \o (b \o c)
        BY <4>2, ConcatAssociative
      <4> QED
        BY <4>1, <4>3, Zenon
    <3>5. m + 1 <= Len(Files)
      BY <3>2, FilesAre
    <3>6. Reports(m) \o << Report(Files[m + 1]) >> = Reports(m + 1)
      BY <2>2, <3>5, ReportsMore, Zenon
    <3>7. Reports(n) \o g[j + 1] = Reports(m + 1)
      BY <1>10, <2>1, <3>1, <3>2, <3>4, <3>6, Zenon
    <3> QED
      BY <2>2, <3>2, <3>7, Zenon
  <2>4. CASE j + 1 \notin Shown(E)
    <3>1. ASSUME NEW f \in DOMAIN Files, Files[f].part = i, Files[f].entry = j + 1
          PROVE  FALSE
      <4>1. IsFile(EntriesIn(i), j + 1) /\ j + 1 \in DOMAIN EntriesIn(i)
        BY <3>1, FileEntry, Zenon
      <4> QED
        BY <2>4, <4>1, ShownIs, Zenon DEF E
    <3>2. Seen(m, i, j + 1)
      BY <2>1, <2>2, <3>1, SeenNone, Zenon
    <3>3. g[j + 1] = g[j]
      <4>1. g[j + 1] = g[j] \o << >>
        BY <1>5, <1>10, <2>2, <2>4, Zenon
      <4>2. g[j] \in Seq(S)
        BY <1>9, <2>2, Zenon
      <4> QED
        BY <4>1, <4>2, ConcatEmptySeq, Zenon
    <3> QED
      BY <2>1, <2>2, <3>2, <3>3, Zenon
  <2> QED
    BY <2>3, <2>4, Zenon
<1> HIDE DEF T
<1>13. l \in T
  <2>1. \A j \in 0 .. l : j \in T
    BY <1>2, <1>11, <1>12, Upward, Zenon
  <2> QED
    BY <1>2, <2>1
<1>14. PICK m : Seen(m, i, l) /\ Reports(n) \o g[l] = Reports(m)
  BY <1>13, Zenon DEF T
<1>15. Passed(m, i + 1)
  BY <1>14, SeenAfter, Zenon DEF l, E
<1> QED
  BY <1>6, <1>10, <1>14, <1>15, Zenon DEF E

-------------------------------------------------------------------------------
(***************************************************************************)
(* The steps of the calls.                                                 *)
(***************************************************************************)

\* The volume stays mounted.
Still == Sound /\ IsVolume /\ UNCHANGED <<machine, fat32_fs, fat_table>>

LEMMA StillIs ==
  ASSUME Still
  PROVE  /\ hw' = hw /\ Place' = Place /\ Files' = Files /\ Directory' = Directory
         /\ ClusterSize' = ClusterSize /\ Sound' /\ IsVolume'
<1>1. hw' = hw /\ Place' = Place /\ Files' = Files /\ Directory' = Directory
  BY Zenon DEF Still, hw, Place, Files, Directory
<1>2. ClusterSize' = ClusterSize /\ Sound'
  BY Zenon DEF Still, Sound, ClusterSize
<1>3. IsVolume'
  BY <1>1, Zenon DEF Still, IsVolume, ClusterLba
<1> QED
  BY <1>1, <1>2, <1>3, Zenon

\* Nothing but the disk moves.
LEMMA ReadsOn ==
  ASSUME Still, Shapes, UNCHANGED call, ReadsFrom(call.cluster),
         \/ DoTransfer \/ WaitCompletion \/ HbaCompletes
         \/ \E clears \in BOOLEAN : HbaFails(clears)
         \/ UNCHANGED <<machine, port, transfer>>
  PROVE  ReadsFrom(call.cluster)'
<1> DEFINE n == BUFFER_SECTORS
<1>1. n \in Nat
  BY DiskAssumption, Zenon
<1>2. PICK L : L = Sectors(FirstSector(hw, Place, call.cluster), n)
  BY Zenon
<1>3. Transferring(L, n)
  BY <1>2, Zenon DEF ReadsFrom
<1>4. Transferring(L, n)'
  BY <1>1, <1>3, TransferStep, TransferSame, Zenon
<1>5. L = Sectors(FirstSector(hw', Place', call'.cluster), n)
  BY <1>2, StillIs, Zenon
<1> QED
  BY <1>4, <1>5, Zenon DEF ReadsFrom

\* A handle that is open is one on a file, and the calls give what they should.
CallInv == FileInv /\ WalkInv /\ ReadInv /\ OpensNamed /\ ListsRoot /\ ReadsContent
DiskInv == Sound => CallInv

LEMMA NoAnswer ==
  ASSUME result'.of \notin {"open", "list", "read"}
  PROVE  OpensNamed' /\ ListsRoot' /\ ReadsContent'
BY Zenon DEF OpensNamed, ListsRoot, ReadsContent

LEMMA NoCall ==
  ASSUME call'.at \notin {"walk", "read"}
  PROVE  WalkInv' /\ ReadInv'
BY Zenon DEF WalkInv, ReadInv

LEMMA FilesKept ==
  ASSUME Still, FileInv, UNCHANGED fat32_files
  PROVE  FileInv'
<1>1. Files' = Files
  BY StillIs, Zenon
<1>2. \A h, k : OnFile(fat32_files[h], k) => OnFile(fat32_files[h], k)'
  BY <1>1, Zenon DEF OnFile
<1> QED
  BY <1>2, Zenon DEF FileInv

\* One handle changes.
LEMMA FileChanges ==
  ASSUME Still, FileInv, NEW fd \in Handles, NEW file, fat32_files' = [fat32_files EXCEPT ![fd] = file],
         IsHandle(file), file.open => \E k : OnFile(file, k)
  PROVE  FileInv' /\ fat32_files'[fd] = file
<1>1. Files' = Files
  BY StillIs, Zenon
<1>2. DOMAIN fat32_files = Handles
  BY Zenon DEF FileInv
<1>3. fat32_files' = [h \in Handles |-> fat32_files'[h]]
  BY <1>2, Zenon
<1>4. \A h \in Handles : fat32_files'[h] = IF h = fd THEN file ELSE fat32_files[h]
  BY <1>2, Zenon
<1>5. ASSUME NEW h \in Handles
      PROVE  IsHandle(fat32_files[h])' /\ (fat32_files'[h].open => \E k : OnFile(fat32_files[h], k)')
  <2>1. PICK x : x = fat32_files'[h]
    BY Zenon
  <2>2. IsHandle(x) /\ (x.open => \E k : OnFile(x, k))
    BY <1>4, <2>1, Zenon DEF FileInv
  <2>3. \A k : OnFile(x, k) => OnFile(x, k)'
    BY <1>1, Zenon DEF OnFile
  <2>4. IsHandle(x)' /\ (x.open => \E k : OnFile(x, k)')
    BY <2>2, <2>3, Zenon DEF IsHandle
  <2> QED
    BY <2>1, <2>4, Zenon
<1> QED
  BY <1>3, <1>4, <1>5, Zenon DEF FileInv

LEMMA AnswersKept ==
  ASSUME Still, OpensNamed, ListsRoot, ReadsContent, UNCHANGED <<fat32_files, result>>
  PROVE  OpensNamed' /\ ListsRoot' /\ ReadsContent'
<1>1. Files' = Files /\ Sound /\ Sound'
  BY StillIs, Zenon DEF Still
<1>2. OpensNamed'
  BY <1>1, Zenon DEF OpensNamed
<1>3. ListsRoot'
  BY <1>1, Zenon DEF ListsRoot
<1>4. ReadsContent'
  BY <1>1, Zenon DEF ReadsContent
<1> QED
  BY <1>2, <1>3, <1>4, Zenon

LEMMA WalkKept ==
  ASSUME Still, WalkInv, UNCHANGED call, ReadsFrom(call.cluster) => ReadsFrom(call.cluster)'
  PROVE  WalkInv'
<1>1. Files' = Files /\ Directory' = Directory
  BY StillIs, Zenon
<1> SUFFICES ASSUME call'.at = "walk"
             PROVE  \E i \in DOMAIN Directory' :
                      /\ call'.cluster = Directory'[i] /\ ReadsFrom(call.cluster)'
                      /\ OpenWalk(i)' \/ ListWalk(i)'
  BY Zenon DEF WalkInv
<1>2. PICK i \in DOMAIN Directory :
        /\ call.cluster = Directory[i] /\ ReadsFrom(call.cluster)
        /\ OpenWalk(i) \/ ListWalk(i)
  BY Zenon DEF WalkInv
<1>3. OpenWalk(i) => OpenWalk(i)'
  BY <1>1, Zenon DEF OpenWalk
<1>4. \A n : Passed(n, i) => Passed(n, i)'
  BY <1>1, Zenon DEF Passed
<1>5. ListWalk(i) => ListWalk(i)'
  BY <1>1, <1>4, Zenon DEF ListWalk, Reports
<1> QED
  BY <1>1, <1>2, <1>3, <1>5, Zenon

LEMMA ReadKept ==
  ASSUME Still, ReadInv, UNCHANGED <<call, fat32_files>>,
         ReadsFrom(call.cluster) => ReadsFrom(call.cluster)'
  PROVE  ReadInv'
<1>1. Files' = Files /\ ClusterSize' = ClusterSize
  BY StillIs, Zenon
<1> SUFFICES ASSUME call'.at = "read" PROVE ReadInv'
  BY Zenon DEF ReadInv
<1>2. PICK k : Reading(fat32_files[call.fd], k)
  BY Zenon DEF ReadInv
<1>3. Reading(fat32_files[call.fd], k)'
  BY <1>1, <1>2, Zenon DEF Reading, OnFile
<1>4. call' = [at |-> "read", fd |-> call'.fd, from |-> call'.from, asked |-> call'.asked,
               count |-> call'.count, cluster |-> call'.cluster, offset |-> call'.offset,
               bytes |-> call'.bytes]
  BY Zenon DEF ReadInv
<1> QED
  BY <1>3, <1>4, Zenon DEF ReadInv

\* Only the disk moves.
LEMMA DiskMoves ==
  ASSUME MountInv, PlaceInv, DiskInv, Driver \/ Hba \/ UNCHANGED vars
  PROVE  DiskInv'
<1>1. UNCHANGED <<machine, fatVars>>
  BY Zenon DEF Driver, Hba, vars, ahciVars, DoTransfer, WaitCompletion, HbaCompletes, HbaFails
<1>2. UNCHANGED <<fat32_fs, fat_table, fat32_files, call, result, machine>>
  BY <1>1, Zenon DEF fatVars
<1> SUFFICES ASSUME Sound' PROVE DiskInv'
  BY Zenon DEF DiskInv, CallInv
<1>3. Sound
  BY <1>2, Zenon DEF Sound
<1>4. Still
  BY <1>2, <1>3, SoundIs, Zenon DEF Still
<1>5. ReadsFrom(call.cluster) => ReadsFrom(call.cluster)'
  <2>1. Shapes
    BY Zenon DEF MountInv, FatShapes
  <2>2. \/ DoTransfer \/ WaitCompletion \/ HbaCompletes
        \/ \E clears \in BOOLEAN : HbaFails(clears)
        \/ UNCHANGED <<machine, port, transfer>>
    BY Zenon DEF Driver, Hba, vars, ahciVars
  <2> QED
    BY <1>2, <1>4, <2>1, <2>2, ReadsOn, Zenon
<1>6. FileInv'
  BY <1>2, <1>3, <1>4, FilesKept, Zenon DEF DiskInv, CallInv
<1>7. WalkInv' /\ ReadInv'
  BY <1>2, <1>3, <1>4, <1>5, WalkKept, ReadKept, Zenon DEF DiskInv, CallInv
<1>8. OpensNamed' /\ ListsRoot' /\ ReadsContent'
  BY <1>2, <1>3, <1>4, AnswersKept, Zenon DEF DiskInv, CallInv
<1> QED
  BY <1>6, <1>7, <1>8, Zenon DEF DiskInv, CallInv

\* Mounting.
LEMMA NotMounted ==
  ASSUME MountInv, Boot \/ MountLba0 \/ MountMbr \/ MountPartition
  PROVE  ~fat32_fs'.whole
<1>1. call.at \in Looking \/ call.at = "boot"
  BY Zenon DEF Boot, MountLba0, MountMbr, MountPartition, Ready, Looking
<1>2. ~fat32_fs.whole
  BY <1>1, Zenon DEF MountInv, FsInv, Looking
<1>3. ASSUME NEW bpb, fat32_fs' = [fat32_fs EXCEPT !.bpb = bpb]
      PROVE  ~fat32_fs'.whole
  BY <1>2, <1>3, Zenon DEF MountInv, FatShapes
<1>4. ASSUME NEW bpb, NEW lba, Mount(bpb, lba)
      PROVE  ~fat32_fs'.whole
  <2>1. CASE fat32_fs' = [fat32_fs EXCEPT !.bpb = bpb, !.partition_lba = lba]
    BY <1>2, <2>1, Zenon DEF MountInv, FatShapes
  <2>2. CASE fat32_fs' = [bpb |-> bpb, partition_lba |-> lba, fat_offset |-> lba + bpb.reserved,
                          data_offset |-> lba + bpb.reserved + bpb.num_fats * bpb.fat_size,
                          spc |-> bpb.spc, root |-> bpb.root, whole |-> FALSE]
    BY <2>2, Zenon
  <2> QED
    BY <1>4, <2>1, <2>2, Zenon DEF Mount
<1>5. ASSUME NEW bpb, NEW partitions, NEW i, TryPartitions(bpb, partitions, i)
      PROVE  ~fat32_fs'.whole
  BY <1>3, <1>4, <1>5, Zenon DEF TryPartitions
<1>6. CASE Boot
  BY <1>2, <1>6, Zenon DEF Boot
<1>7. CASE MountLba0
  BY <1>3, <1>4, <1>7, Zenon DEF MountLba0
<1>8. CASE MountMbr
  BY <1>2, <1>5, <1>8, Zenon DEF MountMbr
<1>9. CASE MountPartition
  BY <1>4, <1>5, <1>9, Zenon DEF MountPartition
<1> QED
  BY <1>6, <1>7, <1>8, <1>9, Zenon

LEMMA Mounts ==
  ASSUME MountInv, PlaceInv, Boot \/ MountLba0 \/ MountMbr \/ MountPartition \/ MountFat
  PROVE  DiskInv'
<1>1. CASE Boot \/ MountLba0 \/ MountMbr \/ MountPartition
  BY <1>1, NotMounted, Zenon DEF DiskInv, Sound
<1>2. CASE MountFat
  <2>1. /\ call.at = "fat" /\ UNCHANGED fat32_files
        /\ \/ call' = [at |-> "fault"] /\ UNCHANGED result
           \/ call' = [at |-> "idle"] /\ result' = [of |-> "mount"]
    BY <1>2, Zenon DEF MountFat, Ready, Return, IDLE
  <2>2. fat32_files' = [h \in Handles |-> CLOSED] /\ result = NO_RESULT
    BY <2>1, Zenon DEF PlaceInv, Starting
  <2>3. FileInv'
    BY <2>2, Zenon DEF FileInv, IsHandle, CLOSED
  <2>4. WalkInv' /\ ReadInv'
    BY <2>1, NoCall
  <2>5. result'.of \in {"nothing", "mount"}
    BY <2>1, <2>2 DEF NO_RESULT
  <2>6. OpensNamed' /\ ListsRoot' /\ ReadsContent'
    BY <2>5, NoAnswer, Zenon
  <2> QED
    BY <2>3, <2>4, <2>6, Zenon DEF DiskInv, CallInv
<1> QED
  BY <1>1, <1>2, Zenon

\* A call returns.
LEMMA Answers ==
  ASSUME FileInv', NEW r, Return(r), OpensNamed', ListsRoot', ReadsContent'
  PROVE  CallInv'
<1>1. call'.at = "idle"
  BY Zenon DEF Return, IDLE
<1>2. WalkInv' /\ ReadInv'
  BY <1>1, NoCall, Zenon
<1> QED
  BY <1>2, Zenon DEF CallInv

LEMMA ClosesOrWrites ==
  ASSUME Still, CallInv, NEW fd \in Handles, Close(fd) \/ Write(fd)
  PROVE  CallInv'
<1>1. CASE Close(fd)
  <2>1. FileInv'
    <3>1. fat32_files' = [fat32_files EXCEPT ![fd] = CLOSED]
      BY <1>1, Zenon DEF Close
    <3>2. IsHandle(CLOSED) /\ ~CLOSED.open
      BY Zenon DEF IsHandle, CLOSED
    <3> QED
      BY <3>1, <3>2, FileChanges, Zenon DEF CallInv
  <2>2. Return([of |-> "close"])
    BY <1>1, Zenon DEF Close
  <2>3. OpensNamed' /\ ListsRoot' /\ ReadsContent'
    BY <2>2, NoAnswer, Zenon DEF Return
  <2> QED
    BY <2>1, <2>2, <2>3, Answers, Zenon
<1>2. CASE Write(fd)
  <2>1. FileInv'
    BY <1>2, FilesKept, Zenon DEF Write, CallInv
  <2>2. Return([of |-> "write", ok |-> fat32_files[fd].open])
    BY <1>2, Zenon DEF Write
  <2>3. OpensNamed' /\ ListsRoot' /\ ReadsContent'
    BY <2>2, NoAnswer, Zenon DEF Return
  <2> QED
    BY <2>1, <2>2, <2>3, Answers, Zenon
<1> QED
  BY <1>1, <1>2, Zenon

\* A cluster of the directory was asked for.
LEMMA Walks ==
  ASSUME Still, FileInv, UNCHANGED fat32_files, NEW i \in DOMAIN Directory,
         NEW next, next.at = "walk", next.cluster = Directory[i], ReadCluster(next),
         call' = next => OpenWalk(i)' \/ ListWalk(i)', result' = NO_RESULT
  PROVE  CallInv'
<1>1. call' = next /\ ReadsFrom(next.cluster)'
  BY ClusterAsked, StillIs, Zenon DEF Still
<1>2. PICK c : c = next.cluster
  BY Zenon
<1>3. ReadsFrom(c)' /\ c = call'.cluster
  BY <1>1, <1>2, Zenon
<1>4. ReadsFrom(call.cluster)'
  BY <1>3, Zenon
<1>5. WalkInv'
  BY <1>1, <1>4, StillIs, Zenon DEF WalkInv
<1>6. ReadInv'
  BY <1>1, Zenon DEF ReadInv
<1>7. OpensNamed' /\ ListsRoot' /\ ReadsContent'
  BY NoAnswer, Zenon DEF NO_RESULT
<1> QED
  BY <1>5, <1>6, <1>7, FilesKept, Zenon DEF CallInv

\* No file is before the first cluster.
LEMMA FilesFrom ==
  ASSUME IsVolume, NEW f \in DOMAIN Files
  PROVE  Files[f].part \in 1 .. Len(Directory)
BY FileEntry, DirectoryIs, Zenon

LEMMA Opens ==
  ASSUME Still, CallInv, NEW name, Open(name)
  PROVE  CallInv'
<1> DEFINE free == {h \in Handles : ~fat32_files[h].open}
           n == NormalizeName(name)
           fd == CHOOSE h \in free : \A g \in free : h <= g
<1>1. UNCHANGED fat32_files /\ FileInv' /\ FileInv
  BY FilesKept, Zenon DEF Open, CallInv
<1>2. IsCluster(fat32_fs.root) /\ 1 \in DOMAIN Directory /\ Directory[1] = fat32_fs.root
  BY DirectoryIs DEF Still
<1>3. CASE free = {}
  <2>1. Return([of |-> "open", name |-> n, fd |-> -1, sure |-> FALSE])
    BY <1>3, Zenon DEF Open
  <2>2. result'.of = "open" /\ result'.fd = -1 /\ ~result'.sure
    BY <2>1, Zenon DEF Return
  <2>3. OpensNamed' /\ ListsRoot' /\ ReadsContent'
    BY <2>2, Zenon DEF OpensNamed, ListsRoot, ReadsContent
  <2> QED
    BY <1>1, <2>1, <2>3, Answers, Zenon
<1>4. CASE free # {}
  <2>1. fd \in Handles
    <3>1. free \in SUBSET Nat
      BY DEF Handles
    <3>2. \E h \in free : \A g \in free : h <= g
      BY <1>4, <3>1, LeastNat, Zenon
    <3> QED
      BY <3>2, Zenon
  <2>2. PICK next : next = [at |-> "walk", cluster |-> fat32_fs.root, of |-> "open", name |-> n, fd |-> fd]
    BY Zenon
  <2>3. ReadCluster(next) /\ result' = NO_RESULT
    BY <1>2, <1>4, <2>2, Zenon DEF Open
  <2> HIDE DEF free, n, fd
  <2>4. next.at = "walk" /\ next.cluster = Directory[1]
    BY <1>2, <2>2, Zenon
  <2>5. ASSUME call' = next PROVE OpenWalk(1)'
    <3>1. \A f \in DOMAIN Files' : ~(Files'[f].part < 1)
      BY FilesFrom, StillIs DEF Still
    <3> QED
      BY <2>1, <2>2, <2>5, <3>1, Zenon DEF OpenWalk
  <2> QED
    BY <1>1, <1>2, <2>3, <2>4, <2>5, Walks, Zenon
<1> QED
  BY <1>3, <1>4, Zenon

LEMMA Enumerates ==
  ASSUME Still, CallInv, EnumerateRoot
  PROVE  CallInv'
<1>1. UNCHANGED fat32_files /\ FileInv
  BY Zenon DEF EnumerateRoot, CallInv
<1>2. IsCluster(fat32_fs.root) /\ 1 \in DOMAIN Directory /\ Directory[1] = fat32_fs.root
  BY DirectoryIs DEF Still
<1>3. PICK next : next = [at |-> "walk", cluster |-> fat32_fs.root, of |-> "list", names |-> << >>]
  BY Zenon
<1>4. ReadCluster(next) /\ result' = NO_RESULT
  BY <1>2, <1>3, Zenon DEF EnumerateRoot
<1>5. next.at = "walk" /\ next.cluster = Directory[1]
  BY <1>2, <1>3, Zenon
<1>6. ASSUME call' = next PROVE ListWalk(1)'
  <2>1. \A f \in DOMAIN Files' : f \in Nat \ {0} /\ ~(Files'[f].part < 1)
    BY FilesFrom, FilesAre, StillIs DEF Still
  <2>2. Len(Files') \in Nat
    BY FilesAre, StillIs, Zenon DEF Still
  <2>3. Passed(0, 1)'
    BY <2>1, <2>2 DEF Passed
  <2>4. << >> = Reports(0)'
    BY DEF Reports
  <2> QED
    BY <1>3, <1>6, <2>3, <2>4, Zenon DEF ListWalk
<1> QED
  BY <1>1, <1>2, <1>4, <1>5, <1>6, Walks, Zenon

LEMMA WalkStops ==
  ASSUME Still, CallInv, WalkFails
  PROVE  CallInv'
<1>1. FileInv'
  BY FilesKept, Zenon DEF WalkFails, CallInv
<1>2. PICK r : /\ Return(r)
               /\ r = IF call.of = "open" THEN [of |-> "open", name |-> call.name, fd |-> -1, sure |-> FALSE]
                      ELSE [of |-> "list", ok |-> FALSE, names |-> call.names]
  BY Zenon DEF WalkFails
<1>3. \/ result'.of = "open" /\ result'.fd = -1 /\ ~result'.sure
      \/ result'.of = "list" /\ ~result'.ok
  BY <1>2, Zenon DEF Return
<1>4. OpensNamed' /\ ListsRoot' /\ ReadsContent'
  BY <1>3, Zenon DEF OpensNamed, ListsRoot, ReadsContent
<1> QED
  BY <1>1, <1>2, <1>4, Answers, Zenon
===============================================================================
