----------------------------- MODULE ListLemmas -----------------------------
(***************************************************************************)
(* Lemmas about lists that the proofs of several parts cite: what joining  *)
(* and filtering lists keeps, that both keep lists without repeats so, and *)
(* the least and the largest of some positions.                            *)
(***************************************************************************)
EXTENDS Lists, TLAPS, WellFoundedInduction, SequenceTheorems, FiniteSetTheorems

(* A least element exists in every set of naturals that is not empty. *)
LEMMA LeastExists ==
    ASSUME NEW T, T \subseteq Nat, T # {}
    PROVE  \E x \in T : \A y \in T : x <= y
<1>1. \E x \in T : \A y \in T : ~ (<<y, x>> \in OpToRel(<, Nat))
    BY NatLessThanWellFounded, WFMin
<1>2. PICK x \in T : \A y \in T : ~ (<<y, x>> \in OpToRel(<, Nat))
    BY <1>1
<1>3. \A y \in T : ~ (y < x)
    BY <1>2 DEF OpToRel
<1> QED BY <1>3

(* f joins the first n of some sequences, one after another *)
Joins(f, seqs, n) == f = [i \in 1 .. n |-> IF i = 1 THEN seqs[i] ELSE f[i - 1] \o seqs[i]]

(* Any number of sequences can be joined one after another. *)
LEMMA JoinsExist ==
    ASSUME NEW seqs, NEW n \in Nat \ {0}
    PROVE  \E f : Joins(f, seqs, n)
<1> DEFINE B == {k \in Nat \ {0} : ~ \E f : Joins(f, seqs, k)}
<1> SUFFICES ASSUME B # {} PROVE FALSE
  OBVIOUS
<1>1. PICK k \in B : \A j \in B : k <= j
  <2>1. B \subseteq Nat OBVIOUS
  <2> HIDE DEF B
  <2> QED BY <2>1, LeastExists
<1>0. k \in Nat \ {0} /\ ~ \E f : Joins(f, seqs, k) OBVIOUS
<1>2. CASE k = 1
  <2>1. Joins([i \in 1 .. 1 |-> seqs[i]], seqs, 1)
    <3> DEFINE f == [i \in 1 .. 1 |-> seqs[i]]
    <3>1. \A i \in 1 .. 1 : i = 1 OBVIOUS
    <3>2. f = [i \in 1 .. 1 |-> IF i = 1 THEN seqs[i] ELSE f[i - 1] \o seqs[i]]
      BY <3>1
    <3> QED BY <3>2 DEF Joins
  <2> QED BY <2>1, <1>2, <1>0
<1>3. CASE k # 1
  <2>1. k - 1 \in Nat \ {0} /\ ~(k <= k - 1) BY <1>3, <1>0
  <2>2. PICK f : Joins(f, seqs, k - 1) BY <2>1, <1>1
  <2> DEFINE g == [i \in 1 .. k |-> IF i = k THEN f[k - 1] \o seqs[k] ELSE f[i]]
  <2>7. ASSUME NEW i \in 1 .. k
        PROVE  g[i] = IF i = 1 THEN seqs[i] ELSE g[i - 1] \o seqs[i]
    <3>1. CASE i = k
      <4>1. k \in 1 .. k /\ k - 1 \in 1 .. k /\ k - 1 # k BY <1>3, <1>0
      <4>2. g[k] = f[k - 1] \o seqs[k] /\ g[k - 1] = f[k - 1] BY <4>1
      <4> QED BY <4>2, <3>1, <1>3
    <3>2. CASE i # k
      <4>1. i \in 1 .. k - 1 /\ (i # 1 => i - 1 \in 1 .. k /\ i - 1 # k) BY <3>2, <1>0
      <4>2. f[i] = IF i = 1 THEN seqs[i] ELSE f[i - 1] \o seqs[i] BY <4>1, <2>2 DEF Joins
      <4> QED BY <4>1, <4>2, <3>2
    <3> QED BY <3>1, <3>2
  <2>8. g = [i \in 1 .. k |-> IF i = 1 THEN seqs[i] ELSE g[i - 1] \o seqs[i]]
    <3>1. g = [i \in 1 .. k |-> g[i]] OBVIOUS
    <3> HIDE DEF g
    <3> QED BY <3>1, <2>7
  <2> QED BY <2>8, <1>0 DEF Joins
<1> QED BY <1>2, <1>3

(* Joined sequences hold what the parts hold. *)
LEMMA JoinsHold ==
    ASSUME NEW seqs, NEW T, seqs \in Seq(Seq(T)), NEW f, Joins(f, seqs, Len(seqs)),
           NEW n \in 1 .. Len(seqs)
    PROVE  f[n] \in Seq(T) /\ ToSet(f[n]) = UNION {ToSet(seqs[i]) : i \in 1 .. n}
<1> DEFINE Good(k) == f[k] \in Seq(T) /\ ToSet(f[k]) = UNION {ToSet(seqs[i]) : i \in 1 .. k}
           B == {k \in 1 .. Len(seqs) : ~Good(k)}
<1> SUFFICES ASSUME B # {} PROVE FALSE
  OBVIOUS
<1>1. PICK k \in B : \A j \in B : k <= j
  <2>1. B \subseteq Nat OBVIOUS
  <2> HIDE DEF B
  <2> QED BY <2>1, LeastExists
<1>0. k \in 1 .. Len(seqs) /\ ~Good(k) /\ seqs[k] \in Seq(T) OBVIOUS
<1> HIDE DEF Good
<1>4. f[k] = IF k = 1 THEN seqs[k] ELSE f[k - 1] \o seqs[k]
  BY <1>0 DEF Joins
<1>2. CASE k = 1
  <2>1. {ToSet(seqs[i]) : i \in 1 .. 1} = {ToSet(seqs[1])} OBVIOUS
  <2> QED BY <2>1, <1>2, <1>4, <1>0 DEF Good
<1>3. CASE k # 1
  <2>1. k - 1 \in 1 .. Len(seqs) /\ ~(k <= k - 1) BY <1>3, <1>0
  <2>2. Good(k - 1) BY <2>1, <1>1
  <2>3. f[k] = f[k - 1] \o seqs[k] BY <1>4, <1>3
  <2>4. f[k] \in Seq(T) /\ ToSet(f[k]) = ToSet(f[k - 1]) \cup ToSet(seqs[k])
    <3>1. f[k - 1] \in Seq(T) BY <2>2 DEF Good
    <3>2. Range(f[k - 1] \o seqs[k]) = Range(f[k - 1]) \cup Range(seqs[k])
      BY <3>1, <1>0, RangeConcatenation
    <3> QED BY ZenonT(60), <3>1, <3>2, <1>0, <2>3, ConcatProperties DEF ToSet, Range
  <2>5. 1 .. k = 1 .. (k - 1) \cup {k} BY <1>0
  <2>6. UNION {ToSet(seqs[i]) : i \in 1 .. k}
          = (UNION {ToSet(seqs[i]) : i \in 1 .. (k - 1)}) \cup ToSet(seqs[k])
    BY <2>5
  <2>7. Good(k) BY <2>2, <2>4, <2>6 DEF Good
  <2> QED BY <2>7, <1>0
<1> QED BY <1>2, <1>3

(* FlattenSeq joins its parts. *)
LEMMA FlattenJoins ==
    ASSUME NEW seqs, NEW T, seqs \in Seq(Seq(T)), Len(seqs) # 0
    PROVE  \E f : Joins(f, seqs, Len(seqs)) /\ FlattenSeq(seqs) = f[Len(seqs)]
<1> DEFINE N == Len(seqs)
           Is(f) == f = [i \in 1 .. N |-> IF i = 1 THEN seqs[i] ELSE f[i - 1] \o seqs[i]]
<1>1. N \in Nat \ {0} OBVIOUS
<1>2. \E f : Is(f) BY <1>1, JoinsExist DEF Joins
<1>3. Is(CHOOSE g : Is(g)) BY <1>2
<1>4. FlattenSeq(seqs) = (CHOOSE g : Is(g))[N] BY <1>1 DEF FlattenSeq
<1>5. Joins(CHOOSE g : Is(g), seqs, N) BY <1>3 DEF Joins
<1> QED BY <1>4, <1>5

(* Joining sequences of sequences keeps their elements, and no others. *)
LEMMA FlattenKeeps ==
    ASSUME NEW seqs, NEW T, seqs \in Seq(Seq(T))
    PROVE  /\ FlattenSeq(seqs) \in Seq(T)
           /\ ToSet(FlattenSeq(seqs)) = UNION {ToSet(seqs[i]) : i \in DOMAIN seqs}
<1>1. CASE Len(seqs) = 0
  <2>1. seqs = << >> BY <1>1
  <2>2. FlattenSeq(seqs) = << >> BY <1>1, <2>1 DEF FlattenSeq
  <2>3. DOMAIN seqs = {} BY <2>1
  <2>4. ToSet(<< >>) = {} BY DEF ToSet
  <2>5. UNION {ToSet(seqs[i]) : i \in DOMAIN seqs} = {} BY <2>3
  <2> QED BY <2>2, <2>4, <2>5
<1>2. CASE Len(seqs) # 0
  <2>1. PICK f : Joins(f, seqs, Len(seqs)) /\ FlattenSeq(seqs) = f[Len(seqs)]
    BY <1>2, FlattenJoins
  <2>2. Len(seqs) \in 1 .. Len(seqs) /\ DOMAIN seqs = 1 .. Len(seqs) BY <1>2
  <2>3. /\ f[Len(seqs)] \in Seq(T)
        /\ ToSet(f[Len(seqs)]) = UNION {ToSet(seqs[i]) : i \in 1 .. Len(seqs)}
    BY <2>1, <2>2, JoinsHold
  <2> QED BY <2>1, <2>2, <2>3
<1> QED BY <1>1, <1>2

(* A filtered list holds the elements it is filtered for, and no others. *)
LEMMA FilteredProperties ==
    ASSUME NEW T, NEW seq \in Seq(T), NEW S
    PROVE  /\ Filtered(seq, S) \in Seq(T)
           /\ Filtered(seq, S) \in Seq(S)
           /\ ToSet(Filtered(seq, S)) = ToSet(seq) \cap S
<1> DEFINE one(i) == IF seq[i] \in S THEN <<seq[i]>> ELSE << >>
           seqs == [i \in DOMAIN seq |-> one(i)]
<1>0. seqs \in Seq(Seq(T)) /\ seqs \in Seq(Seq(S)) /\ DOMAIN seqs = DOMAIN seq
  <2>1. DOMAIN seq = 1 .. Len(seq) /\ Len(seq) \in Nat OBVIOUS
  <2>2. \A i \in 1 .. Len(seq) : one(i) \in Seq(T) /\ one(i) \in Seq(S)
    OBVIOUS
  <2> HIDE DEF one
  <2> QED BY <2>1, <2>2, IsASeq
<1>1. \A i \in DOMAIN seq : ToSet(seqs[i]) = {seq[i]} \cap S
  <2> SUFFICES ASSUME NEW i \in DOMAIN seq PROVE ToSet(one(i)) = {seq[i]} \cap S
    OBVIOUS
  <2>1. ToSet(<<seq[i]>>) = {seq[i]} BY DEF ToSet
  <2>2. ToSet(<< >>) = {} BY DEF ToSet
  <2> QED BY <2>1, <2>2
<1>2. Filtered(seq, S) = FlattenSeq(seqs) BY DEF Filtered
<1> HIDE DEF seqs
<1>3. UNION {ToSet(seqs[i]) : i \in DOMAIN seqs} = ToSet(seq) \cap S
  BY <1>0, <1>1 DEF ToSet
<1> QED BY <1>0, <1>2, <1>3, FlattenKeeps

(* Sequences without repetitions, no two with a common element *)
Apart(seqs, T) ==
    /\ seqs \in Seq(Seq(T))
    /\ \A i \in 1 .. Len(seqs) : IsInjective(seqs[i])
    /\ \A i, j \in 1 .. Len(seqs) : i # j => ToSet(seqs[i]) \cap ToSet(seqs[j]) = {}

(* Two lists without repeats and nothing in common have none together. *)
LEMMA ConcatDistinct ==
    ASSUME NEW T, NEW s \in Seq(T), NEW t \in Seq(T), IsInjective(s), IsInjective(t),
           ToSet(s) \cap ToSet(t) = {}
    PROVE  IsInjective(s \o t)
<1>1. PICK u : u = s \o t OBVIOUS
<1>2. Len(s) \in Nat /\ DOMAIN s = 1 .. Len(s) /\ Len(t) \in Nat /\ DOMAIN t = 1 .. Len(t)
  OBVIOUS
<1>3. u \in Seq(T) /\ Len(u) = Len(s) + Len(t) /\ DOMAIN u = 1 .. Len(s) + Len(t)
  BY <1>1, <1>2, ConcatProperties
<1>4. ASSUME NEW i \in DOMAIN s PROVE u[i] = s[i] /\ s[i] \in ToSet(s)
  <2>1. i \in 1 .. Len(s) + Len(t) /\ i <= Len(s) BY <1>2
  <2> QED BY <1>1, <2>1, ConcatProperties DEF ToSet
<1>5. ASSUME NEW i \in DOMAIN u, i \notin DOMAIN s
      PROVE  \E k \in DOMAIN t : k = i - Len(s) /\ u[i] = t[k] /\ t[k] \in ToSet(t)
  <2>1. PICK k : k = i - Len(s) OBVIOUS
  <2>2. i \in 1 .. Len(s) + Len(t) /\ ~(i <= Len(s)) /\ k \in DOMAIN t BY <1>2, <1>3, <1>5, <2>1
  <2>3. u[i] = t[i - Len(s)] BY <1>1, <2>2, ConcatProperties
  <2> QED BY <2>1, <2>2, <2>3 DEF ToSet
<1>6. ASSUME NEW a \in DOMAIN u, NEW b \in DOMAIN u, u[a] = u[b] PROVE a = b
  <2>1. CASE a \in DOMAIN s /\ b \in DOMAIN s
    <3>1. s[a] = s[b] BY <1>4, <1>6, <2>1
    <3> QED BY <2>1, <3>1 DEF IsInjective
  <2>2. CASE a \in DOMAIN s /\ b \notin DOMAIN s
    <3>1. u[a] \in ToSet(s) BY <1>4, <2>2
    <3>2. u[b] \in ToSet(t) BY <1>5, <2>2
    <3> QED BY <1>6, <3>1, <3>2
  <2>3. CASE a \notin DOMAIN s /\ b \in DOMAIN s
    <3>1. u[b] \in ToSet(s) BY <1>4, <2>3
    <3>2. u[a] \in ToSet(t) BY <1>5, <2>3
    <3> QED BY <1>6, <3>1, <3>2
  <2>4. CASE a \notin DOMAIN s /\ b \notin DOMAIN s
    <3>1. PICK k \in DOMAIN t : k = a - Len(s) /\ u[a] = t[k] BY <1>5, <2>4
    <3>2. PICK l \in DOMAIN t : l = b - Len(s) /\ u[b] = t[l] BY <1>5, <2>4
    <3>3. k = l BY <1>6, <3>1, <3>2 DEF IsInjective
    <3> QED BY <1>2, <1>3, <3>1, <3>2, <3>3
  <2> QED BY <2>1, <2>2, <2>3, <2>4
<1>7. IsInjective(u) BY <1>6 DEF IsInjective
<1> QED BY <1>1, <1>7

(* Nor have any number of them, *)
LEMMA JoinsDistinct ==
    ASSUME NEW seqs, NEW T, Apart(seqs, T), NEW f, Joins(f, seqs, Len(seqs)),
           NEW n \in 1 .. Len(seqs)
    PROVE  IsInjective(f[n])
<1> DEFINE B == {k \in 1 .. Len(seqs) : ~IsInjective(f[k])}
<1> SUFFICES ASSUME B # {} PROVE FALSE
  OBVIOUS
<1>1. PICK k \in B : \A j \in B : k <= j
  <2>1. B \subseteq Nat OBVIOUS
  <2> HIDE DEF B
  <2> QED BY <2>1, LeastExists
<1>0. k \in 1 .. Len(seqs) /\ ~IsInjective(f[k]) /\ seqs[k] \in Seq(T) BY DEF Apart
<1>4. f[k] = IF k = 1 THEN seqs[k] ELSE f[k - 1] \o seqs[k] BY <1>0 DEF Joins
<1>5. IsInjective(seqs[k])
  <2> HIDE DEF B
  <2> QED BY <1>0 DEF Apart
<1>2. CASE k = 1
  <2>1. f[k] = seqs[k] BY <1>2, <1>4
  <2> QED BY <1>0, <1>5, <2>1
<1>3. CASE k # 1
  <2>1. k - 1 \in 1 .. Len(seqs) /\ ~(k <= k - 1) BY <1>3, <1>0
  <2>2. IsInjective(f[k - 1]) BY <2>1, <1>1
  <2>3. PICK s : s = f[k - 1] OBVIOUS
  <2> HIDE DEF B
  <2>4. s \in Seq(T) /\ ToSet(s) = UNION {ToSet(seqs[i]) : i \in 1 .. k - 1}
    <3>1. PICK j : j = k - 1 OBVIOUS
    <3>2. j \in 1 .. Len(seqs) /\ seqs \in Seq(Seq(T)) BY <2>1, <3>1 DEF Apart
    <3>3. f[j] \in Seq(T) /\ ToSet(f[j]) = UNION {ToSet(seqs[i]) : i \in 1 .. j} BY <3>2, JoinsHold
    <3> QED BY <2>3, <3>1, <3>3
  <2>5. ToSet(s) \cap ToSet(seqs[k]) = {}
    <3>1. \A i \in 1 .. k - 1 : i # k /\ i \in 1 .. Len(seqs) BY <1>0
    <3>2. \A i \in 1 .. k - 1 : ToSet(seqs[i]) \cap ToSet(seqs[k]) = {} BY <1>0, <3>1 DEF Apart
    <3> QED BY <2>4, <3>2
  <2>6. PICK t : t = seqs[k] OBVIOUS
  <2>7. IsInjective(s \o t) BY <1>0, <1>5, <2>2, <2>3, <2>4, <2>5, <2>6, ConcatDistinct
  <2>8. f[k] = s \o t BY <1>3, <1>4, <2>3, <2>6
  <2> QED BY <1>0, <2>7, <2>8
<1> QED BY <1>2, <1>3

(* nor has what FlattenSeq makes of them. *)
LEMMA FlattenDistinct ==
    ASSUME NEW seqs, NEW T, Apart(seqs, T)
    PROVE  IsInjective(FlattenSeq(seqs))
<1>1. CASE Len(seqs) = 0
  <2>1. seqs = << >> BY <1>1 DEF Apart
  <2>2. FlattenSeq(seqs) = << >> BY <1>1, <2>1 DEF FlattenSeq
  <2> QED BY <2>2 DEF IsInjective
<1>2. CASE Len(seqs) # 0
  <2>1. PICK f : Joins(f, seqs, Len(seqs)) /\ FlattenSeq(seqs) = f[Len(seqs)]
    BY <1>2, FlattenJoins DEF Apart
  <2>2. Len(seqs) \in 1 .. Len(seqs) BY <1>2 DEF Apart
  <2> QED BY <2>1, <2>2, JoinsDistinct
<1> QED BY <1>1, <1>2

(* Filtering repeats nothing. *)
LEMMA FilteredDistinct ==
    ASSUME NEW T, NEW seq \in Seq(T), NEW S, IsInjective(seq)
    PROVE  IsInjective(Filtered(seq, S))
<1> DEFINE one(i) == IF seq[i] \in S THEN <<seq[i]>> ELSE << >>
           seqs == [i \in DOMAIN seq |-> one(i)]
<1>0. seqs \in Seq(Seq(T)) /\ DOMAIN seqs = DOMAIN seq /\ DOMAIN seq = 1 .. Len(seqs)
  <2>1. DOMAIN seq = 1 .. Len(seq) /\ Len(seq) \in Nat OBVIOUS
  <2>2. \A i \in 1 .. Len(seq) : one(i) \in Seq(T)
    OBVIOUS
  <2> HIDE DEF one
  <2> QED BY <2>1, <2>2, IsASeq
<1>1. ASSUME NEW i \in DOMAIN seq
      PROVE  IsInjective(one(i)) /\ ToSet(one(i)) \subseteq {seq[i]}
  <2>1. ToSet(<<seq[i]>>) = {seq[i]} BY DEF ToSet
  <2>2. ToSet(<< >>) = {} BY DEF ToSet
  <2>3. IsInjective(<<seq[i]>>) /\ IsInjective(<< >>) BY DEF IsInjective
  <2> QED BY <2>1, <2>2, <2>3
<1>2. Filtered(seq, S) = FlattenSeq(seqs) BY DEF Filtered
<1> HIDE DEF one
<1>3. \A i \in 1 .. Len(seqs) : IsInjective(seqs[i]) BY <1>0, <1>1
<1>4. ASSUME NEW i \in 1 .. Len(seqs), NEW j \in 1 .. Len(seqs), i # j
      PROVE  ToSet(seqs[i]) \cap ToSet(seqs[j]) = {}
  <2>1. seq[i] # seq[j] BY <1>0, <1>4 DEF IsInjective
  <2>2. ToSet(one(i)) \subseteq {seq[i]} /\ ToSet(one(j)) \subseteq {seq[j]} BY <1>0, <1>1
  <2>3. seqs[i] = one(i) /\ seqs[j] = one(j) BY <1>0
  <2> QED BY <2>1, <2>2, <2>3
<1> HIDE DEF seqs
<1>5. Apart(seqs, T) BY <1>0, <1>3, <1>4 DEF Apart
<1> QED BY <1>2, <1>5, FlattenDistinct

(* Joining the elements of a list one by one gives the list, *)
LEMMA FlattenSingles ==
    ASSUME NEW T, NEW s \in Seq(T)
    PROVE  FlattenSeq([i \in DOMAIN s |-> <<s[i]>>]) = s
<1> DEFINE seqs == [i \in DOMAIN s |-> <<s[i]>>]
<1>0. /\ Len(s) \in Nat /\ DOMAIN s = 1 .. Len(s) /\ seqs \in Seq(Seq(T)) /\ Len(seqs) = Len(s)
      /\ \A i \in 1 .. Len(s) : seqs[i] = <<s[i]>>
  <2>1. Len(s) \in Nat /\ DOMAIN s = 1 .. Len(s) /\ \A i \in 1 .. Len(s) : <<s[i]>> \in Seq(T) OBVIOUS
  <2> QED BY <2>1, IsASeq
<1> HIDE DEF seqs
<1>1. CASE Len(s) = 0
  <2>1. seqs = << >> /\ s = << >> BY <1>0, <1>1
  <2> QED BY <2>1 DEF FlattenSeq, seqs
<1>2. CASE Len(s) # 0
  <2>1. PICK f : Joins(f, seqs, Len(s)) /\ FlattenSeq(seqs) = f[Len(s)] BY <1>0, <1>2, FlattenJoins
  <2> DEFINE Good(k) == f[k] \in Seq(T) /\ Len(f[k]) = k /\ \A i \in 1 .. k : f[k][i] = s[i]
             B == {k \in 1 .. Len(s) : ~Good(k)}
  <2>2. B = {}
    <3> SUFFICES ASSUME B # {} PROVE FALSE
      OBVIOUS
    <3>1. PICK k \in B : \A j \in B : k <= j
      <4>1. B \subseteq Nat BY <1>0
      <4> HIDE DEF B
      <4> QED BY <4>1, LeastExists
    <3>2. k \in 1 .. Len(s) /\ ~Good(k) OBVIOUS
    <3>3. f[k] = IF k = 1 THEN <<s[k]>> ELSE f[k - 1] \o <<s[k]>> BY <1>0, <2>1, <3>2 DEF Joins
    <3>4. s[k] \in T BY <1>0, <3>2
    <3>5. CASE k = 1 BY <3>2, <3>3, <3>4, <3>5
    <3>6. CASE k # 1
      <4>1. k - 1 \in 1 .. Len(s) /\ ~(k <= k - 1) BY <1>0, <3>2, <3>6
      <4>2. Good(k - 1) BY <3>1, <4>1
      <4>3. PICK g : g = f[k - 1] OBVIOUS
      <4>4. g \in Seq(T) /\ Len(g) = k - 1 /\ \A i \in 1 .. k - 1 : g[i] = s[i] BY <4>2, <4>3
      <4>5. f[k] = g \o <<s[k]>> BY <3>3, <3>6, <4>3
      <4>6. g \o <<s[k]>> \in Seq(T) /\ Len(g \o <<s[k]>>) = k BY <3>2, <3>4, <4>4, <1>0
      <4>7. \A i \in 1 .. k : (g \o <<s[k]>>)[i] = s[i] BY <3>2, <3>4, <4>4, <1>0
      <4> QED BY <3>2, <4>5, <4>6, <4>7
    <3> QED BY <3>5, <3>6
  <2>3. Good(Len(s))
    <3>1. Len(s) \in 1 .. Len(s) BY <1>0, <1>2
    <3> HIDE DEF Good
    <3> QED BY <2>2, <3>1
  <2>4. FlattenSeq(seqs) \in Seq(T) /\ Len(FlattenSeq(seqs)) = Len(s) /\ \A i \in 1 .. Len(s) : FlattenSeq(seqs)[i] = s[i]
    BY <2>1, <2>3
  <2>5. PICK r : r = FlattenSeq(seqs) OBVIOUS
  <2>6. r \in Seq(T) /\ Len(r) = Len(s) /\ \A i \in 1 .. Len(s) : r[i] = s[i] BY <2>4, <2>5
  <2>7. r = s BY <2>6
  <2> QED BY <2>5, <2>7 DEF seqs
<1> QED BY <1>1, <1>2 DEF seqs

(* so a list filtered for all it holds is what it was, *)
LEMMA FilteredAll ==
    ASSUME NEW T, NEW s \in Seq(T), NEW S, ToSet(s) \subseteq S
    PROVE  Filtered(s, S) = s
<1>1. \A i \in DOMAIN s : s[i] \in S BY DEF ToSet
<1>2. [i \in DOMAIN s |-> IF s[i] \in S THEN <<s[i]>> ELSE << >>] = [i \in DOMAIN s |-> <<s[i]>>] BY <1>1
<1> QED BY <1>2, FlattenSingles DEF Filtered

(* and what else it is filtered for does not matter. *)
LEMMA FilteredSame ==
    ASSUME NEW s, NEW R, NEW S, ToSet(s) \cap R = ToSet(s) \cap S
    PROVE  Filtered(s, R) = Filtered(s, S)
<1>1. \A i \in DOMAIN s : s[i] \in ToSet(s) BY DEF ToSet
<1>2. \A i \in DOMAIN s : s[i] \in R <=> s[i] \in S BY <1>1
<1>3. [i \in DOMAIN s |-> IF s[i] \in R THEN <<s[i]>> ELSE << >>] = [i \in DOMAIN s |-> IF s[i] \in S THEN <<s[i]>> ELSE << >>]
  BY <1>2
<1> QED BY <1>3 DEF Filtered

(* A sequence without repetitions is as long as it has elements *)
LEMMA DistinctLength ==
    ASSUME NEW T, NEW s \in Seq(T), IsInjective(s)
    PROVE  Cardinality(ToSet(s)) = Len(s)
<1>1. Len(s) \in Nat /\ DOMAIN s = 1 .. Len(s) OBVIOUS
<1>2. s \in Bijection(1 .. Len(s), ToSet(s))
  BY <1>1 DEF Bijection, Injection, Surjection, ToSet, IsInjective
<1>3. ExistsBijection(1 .. Len(s), ToSet(s)) BY <1>2 DEF ExistsBijection
<1> QED BY <1>1, <1>3, FS_CountingElements

IsList(x) == \E T : x \in Seq(T)

(* A set of positions has its largest. *)
LEMMA MaxIs ==
    ASSUME NEW S, NEW n \in Nat, S \subseteq 1 .. n, S # {}
    PROVE  Max(S) \in S /\ \A y \in S : Max(S) >= y
<1> DEFINE B == {k \in Nat : \A y \in S : k >= y}
<1>1. B # {} /\ B \subseteq Nat
  <2>1. n \in B OBVIOUS
  <2> QED BY <2>1
<1>2. PICK k \in B : \A j \in B : k <= j
  <2> HIDE DEF B
  <2> QED BY <1>1, LeastExists
<1>3. k \in S
  <2> SUFFICES ASSUME k \notin S PROVE FALSE
    OBVIOUS
  <2>1. \A y \in S : k >= y /\ y # k /\ y \in Nat /\ y >= 1 OBVIOUS
  <2>5. PICK x \in S : TRUE OBVIOUS
  <2>6. k \in Nat OBVIOUS
  <2> HIDE DEF B
  <2>7. k >= x /\ k # x /\ x >= 1 /\ x \in Nat BY <2>1, <2>5
  <2>2. k \in Nat /\ k # 0 BY <2>6, <2>7
  <2>8. \A y \in S : k - 1 >= y BY <2>1, <2>2
  <2>3. k - 1 \in B BY <2>2, <2>8 DEF B
  <2>4. k <= k - 1 BY <1>2, <2>3
  <2> QED BY <2>2, <2>4
<1>4. \E x \in S : \A y \in S : x >= y BY <1>3
<1> QED BY <1>4 DEF Max

(* and a set of naturals its least. *)
LEMMA MinIs ==
    ASSUME NEW S, S \subseteq Nat, S # {}
    PROVE  Min(S) \in S /\ \A y \in S : Min(S) <= y
<1>1. \E x \in S : \A y \in S : x <= y BY LeastExists
<1> QED BY <1>1 DEF Min
=============================================================================
