--------------------------- MODULE TextPath_proofs ---------------------------
(***************************************************************************)
(* Theorems about TextPath, for all titles, word lists, masks, formats and *)
(* values.  What recursive functions compute is proved without an          *)
(* induction rule: a set of positions where they went wrong would have a   *)
(* first or a last one.                                                    *)
(***************************************************************************)
EXTENDS TextPath, SequenceTheorems, FiniteSetTheorems, WellFoundedInduction, TLAPS

(***************************************************************************)
(* First and last positions                                                *)
(***************************************************************************)
(* A non-empty set of positions has a first one: the sets 1 .. i are       *)
(* ordered by inclusion as their positions are by <=, and inclusion is     *)
(* well-founded on finite sets.                                            *)
LEMMA FirstPosition ==
  ASSUME NEW N \in Nat, NEW T \in SUBSET (1 .. N), T # {}
  PROVE  \E x \in T : \A y \in T : x <= y
<1> DEFINE F == {1 .. i : i \in T}
           R == StrictSubsetOrdering(1 .. N)
<1>1. IsWellFoundedOn(R, FiniteSubsetsOf(1 .. N))
  BY FS_StrictSubsetOrderingWellFounded
<1>2. F \subseteq FiniteSubsetsOf(1 .. N)
  <2>1. IsFiniteSet(1 .. N)
    BY FS_Interval
  <2>2. FiniteSubsetsOf(1 .. N) = SUBSET (1 .. N)
    BY <2>1, FS_FiniteSubsetsOfFinite
  <2>3. QED
    BY <2>2
<1>3. F # {}
  OBVIOUS
<1>4. PICK m \in F : \A s \in F : ~ (<<s, m>> \in R)
  <2> HIDE DEF F, R
  <2>1. QED BY <1>1, <1>2, <1>3, WFMin
<1>5. PICK x \in T : m = 1 .. x
  OBVIOUS
<1>6. ASSUME NEW y \in T, y < x PROVE FALSE
  <2>1. 1 .. y \in F /\ 1 .. y \subseteq m /\ 1 .. y # m
    BY <1>5, <1>6
  <2>2. <<1 .. y, m>> \in R
    BY <2>1, <1>5 DEF StrictSubsetOrdering
  <2>3. QED
    BY <1>4, <2>1, <2>2
<1>7. QED
  BY <1>6

(* ... and a last one: counted from the other end it is the first.         *)
LEMMA LastPosition ==
  ASSUME NEW N \in Nat, NEW T \in SUBSET (1 .. N), T # {}
  PROVE  \E x \in T : \A y \in T : x >= y
<1> DEFINE U == {N + 1 - i : i \in T}
<1>1. U \in SUBSET (1 .. N) /\ U # {}
  <2>1. \A i \in T : N + 1 - i \in 1 .. N
    OBVIOUS
  <2>2. QED
    BY <2>1
<1>2. PICK u \in U : \A v \in U : u <= v
  <2> HIDE DEF U
  <2>1. QED BY <1>1, FirstPosition
<1>3. PICK x \in T : u = N + 1 - x
  OBVIOUS
<1>4. ASSUME NEW y \in T PROVE x >= y
  <2>1. N + 1 - x <= N + 1 - y
    BY <1>2, <1>3
  <2>2. QED
    BY <2>1
<1>5. QED
  BY <1>4

(* Min and Max of the positions of a text are among them.                  *)
LEMMA MinMaxPosition ==
  ASSUME NEW N \in Nat, NEW T \in SUBSET (1 .. N), T # {}
  PROVE  /\ Min(T) \in T
         /\ Max(T) \in T
<1>1. \E x \in T : \A y \in T : x =< y
  BY FirstPosition
<1>2. \E x \in T : \A y \in T : x >= y
  BY LastPosition
<1>3. Min(T) \in T
  BY <1>1 DEF Min
<1>4. Max(T) \in T
  BY <1>2 DEF Max
<1>5. QED
  BY <1>3, <1>4

(* Induction over the positions of a text, upwards and downwards, with the *)
(* positions for which a claim holds as a set.                             *)
LEMMA Climbs ==
  ASSUME NEW N \in Nat, NEW U, 0 \in U, \A n \in 1 .. N : n - 1 \in U => n \in U
  PROVE  \A n \in 0 .. N : n \in U
<1> DEFINE T == {n \in 1 .. N : n \notin U}
<1>1. SUFFICES ASSUME T # {} PROVE FALSE
  <2>1. ASSUME NEW n \in 0 .. N, n \notin U PROVE n \in T
    BY <2>1
  <2> HIDE DEF T
  <2>2. QED
    BY <2>1
<1>2. T \in SUBSET (1 .. N)
  OBVIOUS
<1>3. PICK n \in T : \A k \in T : n <= k
  <2> HIDE DEF T
  <2>1. QED BY <1>1, <1>2, FirstPosition
<1>4. n - 1 \in 0 .. N /\ n - 1 \notin T
  <2> HIDE DEF T
  <2>1. QED BY <1>2, <1>3
<1>5. n - 1 \in U
  <2>1. CASE n = 1
    BY <2>1
  <2>2. CASE n # 1
    BY <1>4, <2>2
  <2>3. QED
    BY <2>1, <2>2
<1>6. QED
  BY <1>5

(* ... and downwards.                                                      *)
LEMMA Descends ==
  ASSUME NEW M \in Nat, NEW U,
         \A i \in 1 .. M : (\A j \in i + 1 .. M : j \in U) => i \in U
  PROVE  \A i \in 1 .. M : i \in U
<1> DEFINE T == {i \in 1 .. M : i \notin U}
<1>1. SUFFICES ASSUME T # {} PROVE FALSE
  OBVIOUS
<1>2. T \in SUBSET (1 .. M)
  OBVIOUS
<1>3. PICK i \in T : \A k \in T : i >= k
  <2> HIDE DEF T
  <2>1. QED BY <1>1, <1>2, LastPosition
<1>4. \A j \in i + 1 .. M : j \in 1 .. M /\ j \notin T
  <2> HIDE DEF T
  <2>1. QED BY <1>2, <1>3
<1>5. QED
  BY <1>4

(***************************************************************************)
(* Sequences                                                               *)
(***************************************************************************)
IsText(t) == t \in Seq(Range(t))

(* A sequence over some set is a text.                                     *)
LEMMA TextOfSeq ==
  ASSUME NEW S, NEW t \in Seq(S)
  PROVE  IsText(t)
BY SeqOfRange DEF IsText

(* What a text is made of.                                                 *)
LEMMA TextIsSeq ==
  ASSUME NEW t, IsText(t)
  PROVE  /\ Len(t) \in Nat /\ DOMAIN t = 1 .. Len(t)
         /\ t = [i \in 1 .. Len(t) |-> t[i]]
         /\ \A i \in 1 .. Len(t) : t[i] \in Range(t)
         /\ \A c \in Range(t) : \E i \in 1 .. Len(t) : c = t[i]
<1>1. /\ Len(t) \in Nat /\ DOMAIN t = 1 .. Len(t) /\ t \in [1 .. Len(t) -> Range(t)]
  BY LenProperties DEF IsText
<1>2. \A c \in Range(t) : \E i \in 1 .. Len(t) : c = t[i]
  BY <1>1, RangeEquality DEF IsText
<1>3. QED
  BY <1>1, <1>2

(* A function over positions is a text.                                    *)
LEMMA TextOfFunction ==
  ASSUME NEW n \in Nat, NEW t, DOMAIN t = 1 .. n, t = [i \in 1 .. n |-> t[i]]
  PROVE  IsText(t) /\ Len(t) = n
<1> DEFINE S == {t[i] : i \in 1 .. n}
<1>1. t \in [1 .. n -> S]
  OBVIOUS
<1>2. t \in Seq(S)
  <2> HIDE DEF S
  <2>1. QED
    BY <1>1 DEF Seq
<1>3. IsText(t)
  <2> HIDE DEF S
  <2>1. QED
    BY <1>2, TextOfSeq
<1>4. Len(t) = n
  <2> HIDE DEF S
  <2>1. DOMAIN t = 1 .. Len(t) /\ Len(t) \in Nat
    BY <1>2, LenProperties
  <2>2. QED
    BY <2>1
<1>5. QED
  BY <1>3, <1>4

-----------------------------------------------------------------------------
(***************************************************************************)
(* Masking and the occurrences of words                                    *)
(***************************************************************************)
(* A run of masks in t, from position a up to b, over what was bounded on  *)
(* both sides in g.                                                        *)
MaskRun(g, t, m, a, b) ==
  /\ Boundary(g, a) /\ Boundary(g, b)
  /\ \A j \in a .. b - 1 : j \in 1 .. Len(t) /\ t[j] = m

(* t is g, but for such runs.                                              *)
MaskedFrom(g, t, m) ==
  /\ IsText(g) /\ IsText(t) /\ Len(t) = Len(g)
  /\ \A i \in 1 .. Len(t) :
       t[i] # g[i] => \E a, b \in Int : i \in a .. b - 1 /\ MaskRun(g, t, m, a, b)

(* Where a word occurs it lies inside the text, with an edge on both sides.*)
LEMMA OccurrencePlace ==
  ASSUME NEW t, NEW e, IsText(t), IsText(e), e # << >>, NEW o \in Occurrences(e, t)
  PROVE  /\ Len(e) \in Nat \ {0} /\ o \in 1 .. Len(t) /\ o + Len(e) - 1 \in 1 .. Len(t)
         /\ Boundary(t, o) /\ Boundary(t, o + Len(e))
         /\ \A k \in 1 .. Len(e) : Fold(t[o + k - 1]) = Fold(e[k])
         /\ \A i \in o .. o + Len(e) - 1 : Fold(t[i]) = Fold(e[i - o + 1])
<1>1. Len(t) \in Nat /\ Len(e) \in Nat
  BY TextIsSeq
<1>2. Len(e) # 0
  BY EmptySeq DEF IsText
<1>3. /\ o \in 1 .. Len(t) - Len(e) + 1
      /\ Boundary(t, o) /\ Boundary(t, o + Len(e))
      /\ \A k \in 1 .. Len(e) : Fold(t[o + k - 1]) = Fold(e[k])
  BY DEF Occurrences
<1>4. ASSUME NEW i \in o .. o + Len(e) - 1 PROVE Fold(t[i]) = Fold(e[i - o + 1])
  <2>1. i - o + 1 \in 1 .. Len(e) /\ o + (i - o + 1) - 1 = i
    BY <1>1, <1>3
  <2>2. QED
    BY <1>3, <2>1
<1>5. QED
  BY <1>1, <1>2, <1>3, <1>4

(* Masking makes no new occurrence of a word that holds no mask, not even  *)
(* at its edges, where the mask may be a letter and what it replaced none, *)
(* or the other way round.                                                 *)
LEMMA OccurrenceWasThere ==
  ASSUME NEW g, NEW t, NEW m, MaskedFrom(g, t, m),
         NEW e, IsText(e), e # << >>, \A c \in Range(e) : Fold(c) # Fold(m),
         NEW o \in Occurrences(e, t)
  PROVE  /\ o \in Occurrences(e, g)
         /\ \A i \in o .. o + Len(e) - 1 : t[i] = g[i] /\ t[i] # m
<1>1. /\ IsText(t) /\ Len(t) = Len(g) /\ Len(t) \in Nat
      /\ Len(e) \in Nat \ {0} /\ o \in 1 .. Len(t) /\ o + Len(e) - 1 \in 1 .. Len(t)
      /\ Boundary(t, o) /\ Boundary(t, o + Len(e))
      /\ \A k \in 1 .. Len(e) : Fold(t[o + k - 1]) = Fold(e[k])
      /\ \A i \in o .. o + Len(e) - 1 : Fold(t[i]) = Fold(e[i - o + 1])
  BY OccurrencePlace, TextIsSeq DEF MaskedFrom
<1>2. ASSUME NEW i \in o .. o + Len(e) - 1
      PROVE  i \in 1 .. Len(t) /\ t[i] = g[i] /\ t[i] # m
  <2>1. i \in 1 .. Len(t) /\ i - o + 1 \in 1 .. Len(e)
    BY <1>1
  <2>2. Fold(e[i - o + 1]) # Fold(m)
    BY <2>1, TextIsSeq
  <2>3. t[i] # m
    BY <1>1, <2>2
  <2>4. t[i] = g[i]
    BY <2>1, <2>3 DEF MaskedFrom, MaskRun
  <2>5. QED
    BY <2>1, <2>3, <2>4
<1>3. Boundary(g, o)
  <2>1. InWord(t, o) = InWord(g, o)
    BY <1>1, <1>2 DEF InWord
  <2>2. CASE o - 1 \notin 1 .. Len(t) \/ t[o - 1] = g[o - 1]
    <3>1. InWord(t, o - 1) = InWord(g, o - 1)
      BY <1>1, <2>2 DEF InWord
    <3>2. QED
      BY <1>1, <2>1, <3>1 DEF Boundary
  <2>3. CASE o - 1 \in 1 .. Len(t) /\ t[o - 1] # g[o - 1]
    <3>1. PICK a, b \in Int : o - 1 \in a .. b - 1 /\ MaskRun(g, t, m, a, b)
      BY <2>3 DEF MaskedFrom
    <3>2. o \notin a .. b - 1
      BY <1>1, <1>2, <3>1 DEF MaskRun
    <3>3. b = o
      BY <1>1, <3>1, <3>2
    <3>4. QED
      BY <3>1, <3>3 DEF MaskRun
  <2>4. QED
    BY <2>2, <2>3
<1>4. Boundary(g, o + Len(e))
  <2> DEFINE p == o + Len(e)
  <2>0. p \in Int /\ p - 1 \in o .. o + Len(e) - 1
    BY <1>1
  <2>1. InWord(t, p - 1) = InWord(g, p - 1)
    BY <1>1, <1>2, <2>0 DEF InWord
  <2>2. CASE p \notin 1 .. Len(t) \/ t[p] = g[p]
    <3>1. InWord(t, p) = InWord(g, p)
      BY <1>1, <2>2 DEF InWord
    <3>2. QED
      BY <1>1, <2>1, <3>1 DEF Boundary
  <2>3. CASE p \in 1 .. Len(t) /\ t[p] # g[p]
    <3>1. PICK a, b \in Int : p \in a .. b - 1 /\ MaskRun(g, t, m, a, b)
      BY <2>3 DEF MaskedFrom
    <3>2. p - 1 \notin a .. b - 1
      BY <1>2, <2>0, <3>1 DEF MaskRun
    <3>3. a = p
      BY <2>0, <3>1, <3>2
    <3>4. QED
      BY <3>1, <3>3 DEF MaskRun
  <2>4. QED
    BY <2>2, <2>3
<1>5. \A k \in 1 .. Len(e) : Fold(g[o + k - 1]) = Fold(e[k])
  BY <1>1, <1>2
<1>6. o \in 1 .. Len(g) - Len(e) + 1
  BY <1>1
<1>7. QED
  BY <1>2, <1>3, <1>4, <1>5, <1>6 DEF Occurrences

(* Masking one occurrence makes one run of masks.                          *)
LEMMA MaskingMakesRun ==
  ASSUME NEW t, NEW e, IsText(t), IsText(e), e # << >>, NEW o \in Occurrences(e, t)
  PROVE  /\ MaskedFrom(t, Masked(t, o, Len(e)), mask)
         /\ \A i \in 1 .. Len(t) :
              Masked(t, o, Len(e))[i] = IF i \in o .. o + Len(e) - 1 THEN mask ELSE t[i]
<1> DEFINE u == Masked(t, o, Len(e))
<1>1. /\ Len(t) \in Nat
      /\ Len(e) \in Nat \ {0} /\ o \in 1 .. Len(t) /\ o + Len(e) - 1 \in 1 .. Len(t)
      /\ Boundary(t, o) /\ Boundary(t, o + Len(e))
  BY OccurrencePlace, TextIsSeq
<1>2. /\ DOMAIN u = 1 .. Len(t) /\ u = [i \in 1 .. Len(t) |-> u[i]]
      /\ \A i \in 1 .. Len(t) : u[i] = IF i \in o .. o + Len(e) - 1 THEN mask ELSE t[i]
  BY DEF Masked
<1> HIDE DEF u
<1>3. IsText(u) /\ Len(u) = Len(t)
  BY <1>1, <1>2, TextOfFunction
<1>4. MaskRun(t, u, mask, o, o + Len(e))
  <2>1. o + Len(e) - 1 \in 1 .. Len(u) /\ o \in 1 .. Len(u) /\ (o + Len(e)) - 1 = o + Len(e) - 1
    BY <1>1, <1>3
  <2>2. \A j \in o .. o + Len(e) - 1 : j \in 1 .. Len(u)
    BY <2>1
  <2>3. QED
    BY <1>1, <1>2, <1>3, <2>1, <2>2 DEF MaskRun
<1>5. \A i \in 1 .. Len(u) : u[i] # t[i] => i \in o .. (o + Len(e)) - 1
  BY <1>1, <1>2, <1>3
<1>6. o \in Int /\ o + Len(e) \in Int
  BY <1>1
<1>7. MaskedFrom(t, u, mask)
  BY <1>3, <1>4, <1>5, <1>6 DEF MaskedFrom
<1>8. QED
  BY <1>2, <1>7 DEF u

-----------------------------------------------------------------------------
(***************************************************************************)
(* trim and filter_printable leave a text                                  *)
(***************************************************************************)
LEMMA TrimText ==
  ASSUME NEW t, IsText(t)
  PROVE  IsText(trim(t))
<1> DEFINE Solid == {i \in 1 .. Len(t) : t[i] # " "}
<1>1. Len(t) \in Nat /\ \A i \in 1 .. Len(t) : t[i] \in Range(t)
  BY TextIsSeq
<1>2. CASE Solid = {}
  <2>1. trim(t) = << >>
    BY <1>2 DEF trim
  <2>2. << >> \in Seq({})
    BY EmptySeq
  <2>3. QED
    BY <2>1, <2>2, TextOfSeq
<1>3. CASE Solid # {}
  <2>1. Solid \in SUBSET (1 .. Len(t))
    OBVIOUS
  <2>2. Min(Solid) \in 1 .. Len(t) /\ Max(Solid) \in 1 .. Len(t)
    <3> HIDE DEF Solid
    <3>1. QED BY <1>1, <1>3, <2>1, MinMaxPosition
  <2>3. trim(t) = SubSeq(t, Min(Solid), Max(Solid))
    BY <1>3 DEF trim
  <2>4. SubSeq(t, Min(Solid), Max(Solid)) \in Seq(Range(t))
    <3> HIDE DEF Solid
    <3>1. Min(Solid) \in Int /\ Max(Solid) \in Int
      BY <2>2
    <3>2. \A i \in Min(Solid) .. Max(Solid) : t[i] \in Range(t)
      BY <1>1, <2>2
    <3>3. QED
      BY <3>1, <3>2, SubSeqProperties
  <2>5. QED
    BY <2>3, <2>4, TextOfSeq
<1>4. QED
  BY <1>2, <1>3

(* What FlattenSeq joins, piece by piece from the left.                    *)
Joins(s, f) ==
  f = [i \in 1 .. Len(s) |-> IF i = 1 THEN s[i] ELSE f[i - 1] \o s[i]]

(* There is such a joining, so the recursive function of FlattenSeq is one.*)
LEMMA JoinsExists ==
  ASSUME NEW S, NEW s \in Seq(Seq(S))
  PROVE  \E f : Joins(s, f)
<1> DEFINE N == Len(s)
           Upto(n) == \E f \in [1 .. n -> Seq(S)] :
                        \A i \in 1 .. n : f[i] = IF i = 1 THEN s[i] ELSE f[i - 1] \o s[i]
           U == {n \in 0 .. N : Upto(n)}
<1>1. N \in Nat /\ \A i \in 1 .. N : s[i] \in Seq(S)
  BY LenProperties, ElementOfSeq
<1>2. Upto(0)
  <2>1. PICK f \in [1 .. 0 -> Seq(S)] : TRUE
    <3>1. [i \in 1 .. 0 |-> << >>] \in [1 .. 0 -> Seq(S)]
      OBVIOUS
    <3>2. QED
      BY <3>1
  <2>2. \A i \in 1 .. 0 : f[i] = IF i = 1 THEN s[i] ELSE f[i - 1] \o s[i]
    OBVIOUS
  <2>3. QED
    BY <2>1, <2>2
<1>3. ASSUME NEW n \in 1 .. N, Upto(n - 1) PROVE Upto(n)
  <2>1. PICK f \in [1 .. n - 1 -> Seq(S)] :
          \A i \in 1 .. n - 1 : f[i] = IF i = 1 THEN s[i] ELSE f[i - 1] \o s[i]
    BY <1>3
  <2> DEFINE last == IF n = 1 THEN s[n] ELSE f[n - 1] \o s[n]
             g == [i \in 1 .. n |-> IF i = n THEN last ELSE f[i]]
  <2>2. last \in Seq(S)
    <3>1. CASE n = 1
      BY <1>1, <3>1
    <3>2. CASE n # 1
      <4>1. n - 1 \in 1 .. n - 1 /\ s[n] \in Seq(S)
        BY <1>1, <3>2
      <4>2. f[n - 1] \in Seq(S)
        BY <4>1
      <4>3. f[n - 1] \o s[n] \in Seq(S)
        BY <4>1, <4>2, ConcatProperties
      <4>4. QED
        BY <3>2, <4>3
    <3>3. QED
      BY <3>1, <3>2
  <2> HIDE DEF last
  <2>3. g \in [1 .. n -> Seq(S)]
    BY <1>1, <2>2
  <2>4. ASSUME NEW i \in 1 .. n
        PROVE  g[i] = IF i = 1 THEN s[i] ELSE g[i - 1] \o s[i]
    <3>1. CASE i = n
      <4>1. n # 1 => g[n - 1] = f[n - 1]
        BY <1>1
      <4>2. QED
        BY <3>1, <4>1 DEF last
    <3>2. CASE i # n
      <4>1. i \in 1 .. n - 1 /\ g[i] = f[i] /\ (i # 1 => g[i - 1] = f[i - 1])
        BY <1>1, <3>2
      <4>2. QED
        BY <2>1, <4>1
    <3>3. QED
      BY <3>1, <3>2
  <2> HIDE DEF g
  <2>5. QED
    BY <2>3, <2>4
<1>4. 0 \in U /\ \A n \in 1 .. N : n - 1 \in U => n \in U
  <2>1. 0 \in 0 .. N
    BY <1>1
  <2>2. ASSUME NEW n \in 1 .. N, n - 1 \in U PROVE n \in U
    <3>1. Upto(n - 1)
      BY <2>2
    <3> HIDE DEF Upto
    <3>2. Upto(n) /\ n \in 0 .. N
      BY <1>1, <1>3, <3>1
    <3>3. QED
      BY <3>2
  <2> HIDE DEF Upto
  <2>3. QED
    BY <1>2, <2>1, <2>2
<1>5. Upto(N)
  <2>1. N \in U
    <3>1. N \in 0 .. N
      BY <1>1
    <3> HIDE DEF U, N
    <3>2. QED BY <1>1, <1>4, <3>1, Climbs
  <2>2. QED
    BY <2>1
<1>6. PICK f \in [1 .. N -> Seq(S)] :
        \A i \in 1 .. N : f[i] = IF i = 1 THEN s[i] ELSE f[i - 1] \o s[i]
  BY <1>5
<1>7. f = [i \in 1 .. N |-> IF i = 1 THEN s[i] ELSE f[i - 1] \o s[i]]
  BY <1>6
<1>8. QED
  BY <1>7 DEF Joins

(* What is joined stays over the same characters.                          *)
LEMMA JoinsType ==
  ASSUME NEW S, NEW s \in Seq(Seq(S)), NEW f, Joins(s, f), NEW n \in 1 .. Len(s)
  PROVE  f[n] \in Seq(S)
<1> DEFINE N == Len(s)
           U == {0} \cup {i \in 1 .. N : f[i] \in Seq(S)}
<1>1. N \in Nat /\ \A i \in 1 .. N : s[i] \in Seq(S)
  BY LenProperties, ElementOfSeq
<1>2. \A i \in 1 .. N : f[i] = IF i = 1 THEN s[i] ELSE f[i - 1] \o s[i]
  BY DEF Joins
<1>3. ASSUME NEW i \in 1 .. N, i - 1 \in U PROVE i \in U
  <2>1. i # 1 => f[i - 1] \in Seq(S)
    BY <1>3
  <2>2. f[i] \in Seq(S)
    BY <1>1, <1>2, <2>1, ConcatProperties
  <2>3. QED
    BY <2>2
<1>4. n \in U
  <2>1. 0 \in U /\ n \in 0 .. N
    BY <1>1
  <2> HIDE DEF U
  <2>2. QED
    BY <1>1, <1>3, <2>1, Climbs
<1>5. QED
  BY <1>4

(* FlattenSeq gives a text over the characters of its pieces.              *)
LEMMA FlattenType ==
  ASSUME NEW S, NEW s \in Seq(Seq(S))
  PROVE  FlattenSeq(s) \in Seq(S)
<1> DEFINE f == CHOOSE g : g = [i \in 1 .. Len(s) |-> IF i = 1 THEN s[i] ELSE g[i - 1] \o s[i]]
<1>1. FlattenSeq(s) = IF Len(s) = 0 THEN s ELSE f[Len(s)]
  BY DEF FlattenSeq
<1>2. Joins(s, f)
  BY JoinsExists DEF Joins
<1> HIDE DEF f
<1>3. Len(s) \in Nat
  BY LenProperties
<1>4. CASE Len(s) = 0
  <2>1. s = << >>
    BY <1>4, EmptySeq
  <2>2. QED
    BY <1>1, <1>4, <2>1, EmptySeq
<1>5. CASE Len(s) # 0
  <2>1. Len(s) \in 1 .. Len(s)
    BY <1>3, <1>5
  <2>2. QED
    BY <1>1, <1>2, <1>5, <2>1, JoinsType
<1>6. QED
  BY <1>4, <1>5

(* filter_printable leaves a text.                                         *)
LEMMA PrintableText ==
  ASSUME NEW t, IsText(t)
  PROVE  IsText(filter_printable(t))
<1> DEFINE S == Range(t) \cup {mask}
           piece(i) == IF t[i] \in DOMAIN Bytes THEN [b \in 1 .. Bytes[t[i]] |-> mask]
                       ELSE << t[i] >>
           s == [i \in 1 .. Len(t) |-> piece(i)]
<1>1. Len(t) \in Nat /\ \A i \in 1 .. Len(t) : t[i] \in S
  BY TextIsSeq
<1>2. ASSUME NEW i \in 1 .. Len(t) PROVE piece(i) \in Seq(S)
  <2>1. CASE t[i] \in DOMAIN Bytes
    <3>1. Bytes[t[i]] \in Nat
      BY <2>1, TextPathAssumption
    <3>2. [b \in 1 .. Bytes[t[i]] |-> mask] \in Seq(S)
      BY <3>1
    <3>3. QED
      BY <2>1, <3>2
  <2>2. CASE t[i] \notin DOMAIN Bytes
    <3>1. t[i] \in S
      BY <1>1
    <3>2. << t[i] >> \in Seq(S)
      BY <3>1
    <3>3. QED
      BY <2>2, <3>2
  <2>3. QED
    BY <2>1, <2>2
<1>3. s \in Seq(Seq(S))
  <2> HIDE DEF piece, S
  <2>1. QED
    BY <1>1, <1>2
<1>4. filter_printable(t) = FlattenSeq(s)
  BY DEF filter_printable
<1> HIDE DEF s, S
<1>5. QED
  BY <1>3, <1>4, FlattenType, TextOfSeq

-----------------------------------------------------------------------------
(***************************************************************************)
(* The profanity filter                                                    *)
(***************************************************************************)
(* Titles and word lists stay sequences on their way.                      *)
TypedInv ==
  /\ IsText(text)
  /\ IsText(list) /\ \A e \in Range(list) : IsText(e)
  /\ entry \in 1 .. Len(list) + 1
  /\ place \notin {"profanity", "exited"} => entry = 1

(* The inductive invariant of the loops over the words and their matches.  *)
(* What has changed lies in a match of the text as it came, and that match *)
(* is masked from end to end: so a later match that ends next to it still  *)
(* ends at the edge of a word, and is a match of the text as it came.  The *)
(* words behind entry have no match left.                                  *)
ChangedInMatch(i) ==
  \E e \in Range(list) : e # << >> /\ \E o \in Occurrences(e, given) :
     /\ i \in o .. o + Len(e) - 1
     /\ \A j \in o .. o + Len(e) - 1 : text[j] = mask

LoopInv ==
  /\ IsText(given) /\ Len(text) = Len(given)
  /\ \A i \in 1 .. Len(text) : text[i] # given[i] => ChangedInMatch(i)
  /\ \A k \in 1 .. entry - 1 : list[k] # << >> => Occurrences(list[k], text) = {}

CensorInv == TypedInv /\ (place = "profanity" /\ ~ MaskListed => LoopInv)

(* The entries of the word list are words.                                 *)
LEMMA ListEntry ==
  ASSUME TypedInv, NEW k \in 1 .. Len(list)
  PROVE  list[k] \in Range(list) /\ IsText(list[k])
BY TextIsSeq DEF TypedInv

(* A word of a list without the mask holds no mask, in either case.        *)
LEMMA WordHoldsNoMask ==
  ASSUME ~ MaskListed, NEW e \in Range(list)
  PROVE  \A c \in Range(e) : Fold(c) # Fold(mask)
BY DEF MaskListed

(* The text in the loop is the one that came, but for runs of masks.       *)
LEMMA LoopMasks ==
  ASSUME TypedInv, LoopInv
  PROVE  MaskedFrom(given, text, mask)
<1> SUFFICES ASSUME NEW i \in 1 .. Len(text), text[i] # given[i]
             PROVE  \E a, b \in Int : i \in a .. b - 1 /\ MaskRun(given, text, mask, a, b)
  BY DEF MaskedFrom, TypedInv, LoopInv
<1>1. PICK e \in Range(list) : e # << >> /\ \E o \in Occurrences(e, given) :
         /\ i \in o .. o + Len(e) - 1
         /\ \A j \in o .. o + Len(e) - 1 : text[j] = mask
  BY DEF LoopInv, ChangedInMatch
<1>2. PICK o \in Occurrences(e, given) :
         /\ i \in o .. o + Len(e) - 1
         /\ \A j \in o .. o + Len(e) - 1 : text[j] = mask
  BY <1>1
<1>3. /\ Len(e) \in Nat \ {0} /\ o \in 1 .. Len(given) /\ o + Len(e) - 1 \in 1 .. Len(given)
      /\ Boundary(given, o) /\ Boundary(given, o + Len(e))
  BY <1>1, OccurrencePlace DEF TypedInv, LoopInv
<1>4. Len(text) = Len(given) /\ Len(text) \in Nat
  BY TextIsSeq DEF TypedInv, LoopInv
<1>5. o \in Int /\ o + Len(e) \in Int /\ (o + Len(e)) - 1 = o + Len(e) - 1
  BY <1>3, <1>4
<1>6. \A j \in o .. o + Len(e) - 1 : j \in 1 .. Len(text)
  BY <1>3, <1>4
<1>7. MaskRun(given, text, mask, o, o + Len(e))
  BY <1>2, <1>3, <1>5, <1>6 DEF MaskRun
<1>8. QED
  BY <1>2, <1>5, <1>7

(* One match is masked.                                                    *)
LEMMA MasksWordLoop ==
  ASSUME TypedInv, LoopInv, ~ MaskListed, MasksWord
  PROVE  LoopInv'
<1> DEFINE o == Min(Occurrences(Word, text))
           n == Len(Word)
<1>1. /\ Word \in Range(list) /\ IsText(Word) /\ Word # << >>
      /\ IsText(text) /\ IsText(given) /\ Len(text) = Len(given) /\ Len(text) \in Nat
      /\ n \in Nat
  <2>1. entry \in 1 .. Len(list)
    BY TextIsSeq DEF TypedInv, MasksWord, AtWord
  <2>2. Word \in Range(list) /\ IsText(Word)
    BY <2>1, ListEntry DEF Word
  <2>3. QED
    BY <2>2, TextIsSeq DEF TypedInv, LoopInv, MasksWord
<1>2. o \in Occurrences(Word, text)
  <2>1. Occurrences(Word, text) # {}
    BY DEF MasksWord
  <2>2. \A i \in Occurrences(Word, text) : i \in 1 .. Len(text)
    BY <1>1, OccurrencePlace
  <2>3. Occurrences(Word, text) \in SUBSET (1 .. Len(text))
    BY <2>2
  <2>4. QED
    BY <1>1, <2>1, <2>3, MinMaxPosition
<1>3. /\ text' = Masked(text, o, n)
      /\ UNCHANGED << mask, list, entry, given >>
  BY DEF MasksWord
<1> HIDE DEF o, n
<1>4. /\ MaskedFrom(text, text', mask)
      /\ \A i \in 1 .. Len(text) : text'[i] = IF i \in o .. o + n - 1 THEN mask ELSE text[i]
  BY <1>1, <1>2, <1>3, MaskingMakesRun DEF n
<1>5. IsText(text') /\ Len(text') = Len(text)
  BY <1>4 DEF MaskedFrom
<1>6. /\ o \in Occurrences(Word, given)
      /\ \A i \in o .. o + n - 1 : i \in 1 .. Len(text)
  <2>1. o \in Occurrences(Word, given)
    BY <1>1, <1>2, LoopMasks, WordHoldsNoMask, OccurrenceWasThere
  <2>2. o \in 1 .. Len(text) /\ o + n - 1 \in 1 .. Len(text)
    BY <1>1, <1>2, OccurrencePlace DEF n
  <2>3. QED
    BY <2>1, <2>2, <1>1
<1>7. ASSUME NEW i \in 1 .. Len(text), text'[i] # given[i]
      PROVE  ChangedInMatch(i)'
  <2>1. CASE i \in o .. o + n - 1
    <3>1. \A j \in o .. o + n - 1 : text'[j] = mask
      BY <1>4, <1>6
    <3>2. QED
      BY <1>1, <1>3, <1>6, <2>1, <3>1 DEF ChangedInMatch, n
  <2>2. CASE i \notin o .. o + n - 1
    <3>1. text[i] # given[i]
      BY <1>4, <1>7, <2>2
    <3>2. PICK e \in Range(list) : e # << >> /\ \E p \in Occurrences(e, given) :
             /\ i \in p .. p + Len(e) - 1
             /\ \A j \in p .. p + Len(e) - 1 : text[j] = mask
      BY <3>1 DEF LoopInv, ChangedInMatch
    <3>3. PICK p \in Occurrences(e, given) :
             /\ i \in p .. p + Len(e) - 1
             /\ \A j \in p .. p + Len(e) - 1 : text[j] = mask
      BY <3>2
    <3>4. /\ Len(e) \in Nat \ {0} /\ p \in 1 .. Len(given) /\ p + Len(e) - 1 \in 1 .. Len(given)
      BY <1>1, <3>2, OccurrencePlace DEF TypedInv
    <3>5. \A j \in p .. p + Len(e) - 1 : j \in 1 .. Len(text)
      BY <1>1, <3>4
    <3>6. \A j \in p .. p + Len(e) - 1 : text'[j] = mask
      BY <1>4, <3>3, <3>5
    <3>7. QED
      BY <1>3, <3>2, <3>3, <3>6 DEF ChangedInMatch
  <2>3. QED
    BY <2>1, <2>2
<1>8. ASSUME NEW k \in 1 .. entry - 1, list[k] # << >>
      PROVE  Occurrences(list[k], text') = {}
  <2>1. k \in 1 .. Len(list)
    BY TextIsSeq DEF TypedInv
  <2>2. list[k] \in Range(list) /\ IsText(list[k])
    BY <2>1, ListEntry
  <2>3. Occurrences(list[k], text') \subseteq Occurrences(list[k], text)
    BY <1>4, <1>8, <2>2, WordHoldsNoMask, OccurrenceWasThere
  <2>4. Occurrences(list[k], text) = {}
    BY <1>8 DEF LoopInv
  <2>5. QED
    BY <2>3, <2>4
<1>9. QED
  BY <1>1, <1>3, <1>5, <1>7, <1>8 DEF LoopInv

(* Masking leaves a text.                                                  *)
LEMMA MasksWordTyped ==
  ASSUME TypedInv, MasksWord
  PROVE  IsText(text')
<1>1. Len(text) \in Nat
  BY TextIsSeq DEF TypedInv
<1>2. /\ DOMAIN text' = 1 .. Len(text)
      /\ text' = [i \in 1 .. Len(text) |-> text'[i]]
  BY DEF MasksWord, Masked
<1>3. QED
  BY <1>1, <1>2, TextOfFunction

(* Every step of the path leaves sequences.                                *)
LEMMA TypedStep == TypedInv /\ [Next]_vars => TypedInv'
<1> SUFFICES ASSUME TypedInv, [Next]_vars PROVE TypedInv'
  OBVIOUS
<1>1. CASE Trim
  <2>1. place = "trim" /\ place' = "printable" /\ UNCHANGED << list, entry >>
    BY <1>1 DEF Trim
  <2>2. IsText(text')
    BY <1>1, TrimText DEF Trim, TypedInv
  <2>3. QED
    BY <2>1, <2>2 DEF TypedInv
<1>2. CASE FilterPrintable
  <2>1. place = "printable" /\ place' = "printed" /\ UNCHANGED << list, entry >>
    BY <1>2 DEF FilterPrintable
  <2>2. IsText(text')
    BY <1>2, PrintableText DEF FilterPrintable, TypedInv
  <2>3. QED
    BY <2>1, <2>2 DEF TypedInv
<1>3. CASE filter_profanity
  <2>1. PICK l \in Lists : list' = l
    BY <1>3 DEF filter_profanity
  <2>2. IsText(l) /\ \A e \in Range(l) : IsText(e)
    BY TextPathAssumption DEF IsText
  <2>3. text' = text /\ entry' = entry /\ place = "printed" /\ place' = "profanity"
    BY <1>3 DEF filter_profanity
  <2>4. entry' = 1 /\ Len(l) \in Nat
    BY <2>2, <2>3, TextIsSeq DEF TypedInv
  <2>5. entry' \in 1 .. Len(l) + 1
    BY <2>4
  <2>6. QED
    BY <2>1, <2>2, <2>3, <2>5 DEF TypedInv
<1>4. CASE MasksWord
  <2>1. IsText(text')
    BY <1>4, MasksWordTyped
  <2>2. place = "profanity" /\ UNCHANGED << place, list, entry >>
    BY <1>4 DEF MasksWord, AtWord
  <2>3. QED
    BY <2>1, <2>2 DEF TypedInv
<1>5. CASE NextWord
  <2>1. entry \in 1 .. Len(list) /\ Len(list) \in Nat
    BY <1>5, TextIsSeq DEF TypedInv, NextWord, AtWord
  <2>2. place = "profanity" /\ entry' = entry + 1 /\ UNCHANGED << place, text, list >>
    BY <1>5 DEF NextWord, AtWord
  <2>3. entry' \in 1 .. Len(list) + 1
    BY <2>1, <2>2
  <2>4. QED
    BY <2>2, <2>3 DEF TypedInv
<1>6. CASE LastWord
  <2>1. list' = << >> /\ entry' = 1 /\ UNCHANGED text
    BY <1>6 DEF LastWord
  <2>2. IsText(<< >>) /\ Range(<< >>) = {} /\ Len(<< >>) = 0
    <3>1. << >> \in Seq({}) /\ Len(<< >>) = 0
      BY EmptySeq
    <3>2. IsText(<< >>) /\ Range(<< >>) \in SUBSET {}
      BY <3>1, TextOfSeq, RangeOfSeq
    <3>3. QED
      BY <3>1, <3>2
  <2>3. QED
    BY <2>1, <2>2 DEF TypedInv
<1>7. CASE FilterIsOff \/ ExitsOnPattern \/ generate_status \/ PutsField \/ UNCHANGED vars
  <2>1. UNCHANGED << text, list, entry >>
    BY <1>7 DEF FilterIsOff, ExitsOnPattern, generate_status, PutsField, vars
  <2>2. place' \notin {"profanity", "exited"} => place \notin {"profanity", "exited"}
    BY <1>7 DEF FilterIsOff, ExitsOnPattern, generate_status, PutsField, vars
  <2>3. QED
    BY <2>1, <2>2 DEF TypedInv
<1>8. QED
  BY <1>1, <1>2, <1>3, <1>4, <1>5, <1>6, <1>7 DEF Next

(* The path starts with sequences.                                         *)
LEMMA TypedInit == Init => TypedInv
<1> SUFFICES ASSUME Init PROVE TypedInv
  OBVIOUS
<1>1. IsText(<< >>) /\ Range(<< >>) = {} /\ Len(<< >>) = 0
  <2>1. << >> \in Seq({}) /\ Len(<< >>) = 0
    BY EmptySeq
  <2>2. IsText(<< >>) /\ Range(<< >>) \in SUBSET {}
    BY <2>1, TextOfSeq, RangeOfSeq
  <2>3. QED
    BY <2>1, <2>2
<1>2. IsText(text)
  BY TextPathAssumption DEF Init, IsText
<1>3. list = << >> /\ entry = 1
  BY DEF Init
<1>4. QED
  BY <1>1, <1>2, <1>3 DEF TypedInv

(* Every step keeps the invariant of the loops.                            *)
LEMMA CensorStep == CensorInv /\ [Next]_vars => CensorInv'
<1> SUFFICES ASSUME TypedInv, place = "profanity" /\ ~ MaskListed => LoopInv, [Next]_vars,
                    TypedInv', place' = "profanity", ~ MaskListed'
             PROVE  LoopInv'
  BY TypedStep DEF CensorInv
<1>1. CASE filter_profanity
  <2>1. given' = text /\ text' = text /\ entry' = 1
    BY <1>1 DEF filter_profanity, TypedInv
  <2>2. IsText(given') /\ Len(text') = Len(given')
    BY <2>1 DEF TypedInv
  <2>3. \A k \in 1 .. entry' - 1 : FALSE
    BY <2>1
  <2>4. \A i \in 1 .. Len(text') : ~ (text'[i] # given'[i])
    BY <2>1
  <2>5. QED
    BY <2>2, <2>3, <2>4 DEF LoopInv
<1>2. CASE MasksWord
  <2>1. place = "profanity" /\ UNCHANGED << list, mask >>
    BY <1>2 DEF MasksWord, AtWord
  <2>2. ~ MaskListed
    BY <2>1 DEF MaskListed
  <2>3. QED
    BY <1>2, <2>1, <2>2, MasksWordLoop
<1>3. CASE NextWord
  <2>1. place = "profanity" /\ UNCHANGED << text, mask, list, given >> /\ entry' = entry + 1
    BY <1>3 DEF NextWord, AtWord
  <2>2. LoopInv
    BY <2>1 DEF MaskListed
  <2>3. ASSUME NEW k \in 1 .. entry' - 1, list[k] # << >>
        PROVE  Occurrences(list[k], text) = {}
    <3>1. CASE k \in 1 .. entry - 1
      BY <2>2, <2>3, <3>1 DEF LoopInv
    <3>2. CASE k = entry
      BY <1>3, <2>3, <3>2 DEF NextWord, Word
    <3>3. entry \in Nat
      BY TextIsSeq DEF TypedInv
    <3>4. QED
      BY <2>1, <3>1, <3>2, <3>3
  <2>4. IsText(given') /\ Len(text') = Len(given')
    BY <2>1, <2>2 DEF LoopInv
  <2>5. ASSUME NEW i, ChangedInMatch(i)
        PROVE  ChangedInMatch(i)'
    BY <2>1, <2>5 DEF ChangedInMatch
  <2>6. \A i \in 1 .. Len(text') : text'[i] # given'[i] => ChangedInMatch(i)'
    BY <2>1, <2>2, <2>5 DEF LoopInv
  <2>7. \A k \in 1 .. entry' - 1 : list'[k] # << >> => Occurrences(list'[k], text') = {}
    BY <2>1, <2>3
  <2>8. QED
    BY <2>4, <2>6, <2>7 DEF LoopInv
<1>4. CASE UNCHANGED vars
  BY <1>4 DEF vars, MaskListed, LoopInv, ChangedInMatch
<1>5. ~ (Trim \/ FilterPrintable \/ FilterIsOff \/ ExitsOnPattern \/ LastWord
         \/ generate_status \/ PutsField)
  BY DEF Trim, FilterPrintable, FilterIsOff, ExitsOnPattern, LastWord, generate_status,
         PutsField
<1>6. QED
  BY <1>1, <1>2, <1>3, <1>4, <1>5 DEF Next

(* Whatever the words, the mask and the title, when the filter is through  *)
(* no listed word stands for itself any more, and nothing else has changed *)
(* (CensorsWholeWords).                                                    *)
THEOREM CensoredWholeWords == Spec => []CensorsWholeWords
<1>1. CensorInv => CensorsWholeWords
  <2> SUFFICES ASSUME TypedInv, LoopInv, entry > Len(list)
               PROVE  /\ \A e \in Range(list) \ {<< >>} : Occurrences(e, text) = {}
                      /\ Len(text) = Len(given)
                      /\ \A i \in 1 .. Len(text) : text[i] # given[i] =>
                           \E e \in Range(list) : \E o \in Occurrences(e, given) :
                              i \in o .. o + Len(e) - 1
    BY DEF CensorInv, CensorsWholeWords
  <2>1. ASSUME NEW e \in Range(list) \ {<< >>} PROVE Occurrences(e, text) = {}
    <3>1. PICK k \in 1 .. Len(list) : e = list[k]
      BY TextIsSeq DEF TypedInv
    <3>2. k \in 1 .. entry - 1
      BY TextIsSeq DEF TypedInv
    <3>3. QED
      BY <3>1, <3>2 DEF LoopInv
  <2>2. ASSUME NEW i \in 1 .. Len(text), text[i] # given[i]
        PROVE  \E e \in Range(list) : \E o \in Occurrences(e, given) : i \in o .. o + Len(e) - 1
    BY <2>2 DEF LoopInv, ChangedInMatch
  <2>3. QED
    BY <2>1, <2>2 DEF LoopInv
<1>2. Init => CensorInv
  BY TypedInit DEF CensorInv, Init
<1>3. QED
  BY <1>1, <1>2, CensorStep, PTL DEF Spec

-----------------------------------------------------------------------------
(***************************************************************************)
(* Putting fields into a format                                            *)
(***************************************************************************)
(* f[i] is the text b from position i on, when at each position of D the   *)
(* two characters there have given way to what is to be put in.            *)
Rewrites(b, D, ins, f) ==
  /\ f[Len(b) + 1] = << >>
  /\ \A i \in 1 .. Len(b) : f[i] = IF i \in D THEN ins[i] \o f[i + 2] ELSE << b[i] >> \o f[i + 1]

(* The positions of the fields with one of the identifiers of I.           *)
FieldsOf(b, I) == {i \in 1 .. Len(b) - 1 : b[i] = "%" /\ b[i + 1] \in I}

(* There is such a rewriting, so the recursive functions below are some.   *)
LEMMA RewriteExists ==
  ASSUME NEW S, NEW b \in Seq(S), NEW D \in SUBSET (1 .. Len(b) - 1), NEW ins \in [D -> Seq(S)]
  PROVE  \E f \in [1 .. Len(b) + 1 -> Seq(S)] : Rewrites(b, D, ins, f)
<1> DEFINE N == Len(b)
           At(f, i) == f[i] = IF i \in D THEN ins[i] \o f[i + 2] ELSE << b[i] >> \o f[i + 1]
           From(n) == \E f \in [1 .. N + 1 -> Seq(S)] :
                        /\ f[N + 1] = << >>
                        /\ \A i \in 1 .. N : i > N - n => At(f, i)
           U == {n \in 0 .. N : From(n)}
<1>1. N \in Nat /\ \A i \in 1 .. N : b[i] \in S
  BY LenProperties, ElementOfSeq
<1>2. From(0)
  <2> DEFINE f == [i \in 1 .. N + 1 |-> << >>]
  <2>1. f \in [1 .. N + 1 -> Seq(S)] /\ f[N + 1] = << >>
    BY <1>1, EmptySeq
  <2>2. \A i \in 1 .. N : ~ (i > N - 0)
    BY <1>1
  <2> HIDE DEF f, At
  <2>3. QED
    BY <2>1, <2>2
<1>3. ASSUME NEW n \in 1 .. N, From(n - 1) PROVE From(n)
  <2>1. PICK f \in [1 .. N + 1 -> Seq(S)] :
               /\ f[N + 1] = << >>
               /\ \A i \in 1 .. N : i > N - (n - 1) => At(f, i)
    BY <1>3
  <2> DEFINE p == N - n + 1
             new == IF p \in D THEN ins[p] \o f[p + 2] ELSE << b[p] >> \o f[p + 1]
             g == [f EXCEPT ![p] = new]
  <2>a. p \in 1 .. N /\ p + 1 \in 1 .. N + 1
    BY <1>1
  <2>b. p \in D => p + 2 \in 1 .. N + 1
    <3> HIDE DEF p
    <3>1. QED BY <1>1
  <2>c. \A i \in 1 .. N : i > N - n => i = p \/ i > N - (n - 1)
    BY <1>1
  <2>2. /\ p \in 1 .. N /\ p + 1 \in 1 .. N + 1
        /\ p \in D => p + 2 \in 1 .. N + 1
        /\ \A i \in 1 .. N : i > N - n => i = p \/ i > N - (n - 1)
    BY <2>a, <2>b, <2>c
  <2>3. new \in Seq(S)
    <3> HIDE DEF p
    <3>1. CASE p \in D
      BY <2>2, <3>1, ConcatProperties
    <3>2. CASE p \notin D
      <4>1. << b[p] >> \in Seq(S) /\ f[p + 1] \in Seq(S)
        BY <1>1, <2>2
      <4>2. << b[p] >> \o f[p + 1] \in Seq(S)
        BY <4>1, ConcatProperties
      <4>3. QED
        BY <3>2, <4>2
    <3>3. QED
      BY <3>1, <3>2
  <2> HIDE DEF new
  <2>4. g \in [1 .. N + 1 -> Seq(S)]
    BY <2>2, <2>3
  <2>5. \A i \in 1 .. N + 1 : g[i] = IF i = p THEN new ELSE f[i]
    BY <2>2
  <2>6. g[N + 1] = << >>
    BY <1>1, <2>1, <2>2, <2>5
  <2> HIDE DEF g
  <2>7. ASSUME NEW i \in 1 .. N, i > N - n PROVE At(g, i)
    <3>1. i + 1 \in 1 .. N + 1 /\ i + 1 # p /\ (i \in D => i + 2 \in 1 .. N + 1 /\ i + 2 # p)
      BY <1>1, <2>2, <2>7
    <3>2. g[i + 1] = f[i + 1] /\ (i \in D => g[i + 2] = f[i + 2])
      BY <2>5, <3>1
    <3>3. CASE i = p
      <4>1. g[i] = new
        BY <2>5, <2>2, <3>3
      <4>2. QED
        BY <3>2, <3>3, <4>1 DEF new
    <3>4. CASE i # p
      <4>1. At(f, i)
        BY <2>1, <2>2, <2>7, <3>4
      <4>2. g[i] = f[i]
        BY <1>1, <2>5, <3>4
      <4>3. QED
        BY <3>2, <4>1, <4>2
    <3>5. QED
      BY <3>3, <3>4
  <2> HIDE DEF At, p
  <2>8. QED
    BY <2>4, <2>6, <2>7
<1>4. 0 \in U /\ \A n \in 1 .. N : n - 1 \in U => n \in U
  <2>1. 0 \in 0 .. N
    BY <1>1
  <2>2. ASSUME NEW n \in 1 .. N, n - 1 \in U PROVE n \in U
    <3>1. From(n - 1)
      BY <2>2
    <3> HIDE DEF From
    <3>2. From(n) /\ n \in 0 .. N
      BY <1>1, <1>3, <3>1
    <3>3. QED
      BY <3>2
  <2> HIDE DEF From
  <2>3. QED
    BY <1>2, <2>1, <2>2
<1>5. From(N)
  <2>1. N \in U
    <3>1. N \in 0 .. N
      BY <1>1
    <3> HIDE DEF U, N
    <3>2. QED BY <1>1, <1>4, <3>1, Climbs
  <2>2. QED
    BY <2>1
<1>6. \A i \in 1 .. N : i > N - N
  BY <1>1
<1>7. PICK f \in [1 .. N + 1 -> Seq(S)] : f[N + 1] = << >> /\ \A i \in 1 .. N : At(f, i)
  <2> HIDE DEF At
  <2>1. QED
    BY <1>5, <1>6
<1>8. QED
  BY <1>7 DEF Rewrites

(* ... and what is put in determines it.                                   *)
LEMMA RewriteUnique ==
  ASSUME NEW S, NEW b \in Seq(S), NEW D \in SUBSET (1 .. Len(b) - 1), NEW ins, NEW ins2,
         \A i \in D : ins[i] = ins2[i],
         NEW f, Rewrites(b, D, ins, f), NEW g, Rewrites(b, D, ins2, g)
  PROVE  f[1] = g[1]
<1> DEFINE M == Len(b) + 1
           U == {i \in 1 .. M : f[i] = g[i]}
<1>1. Len(b) \in Nat
  BY LenProperties
<1>2. ASSUME NEW i \in 1 .. M, \A j \in i + 1 .. M : j \in U PROVE i \in U
  <2>1. CASE i = M
    BY <2>1 DEF Rewrites
  <2>2. CASE i # M
    <3>1. i \in 1 .. Len(b) /\ i + 1 \in i + 1 .. M /\ (i \in D => i + 2 \in i + 1 .. M)
      BY <1>1, <2>2
    <3>2. f[i + 1] = g[i + 1] /\ (i \in D => f[i + 2] = g[i + 2])
      BY <1>2, <3>1
    <3>3. f[i] = g[i]
      BY <3>1, <3>2 DEF Rewrites
    <3>4. QED
      BY <3>3
  <2>3. QED
    BY <2>1, <2>2
<1>3. 1 \in U
  <2>1. M \in Nat /\ 1 \in 1 .. M
    BY <1>1
  <2> HIDE DEF M, U
  <2>2. QED
    BY <1>2, <2>1, Descends
<1>4. QED
  BY <1>3

(* A rewriting stays over the same characters.                             *)
LEMMA RewriteType ==
  ASSUME NEW S, NEW b \in Seq(S), NEW D \in SUBSET (1 .. Len(b) - 1), NEW ins \in [D -> Seq(S)],
         NEW f, Rewrites(b, D, ins, f), NEW i \in 1 .. Len(b) + 1
  PROVE  f[i] \in Seq(S)
<1> DEFINE M == Len(b) + 1
           U == {j \in 1 .. M : f[j] \in Seq(S)}
<1>1. Len(b) \in Nat /\ \A j \in 1 .. Len(b) : b[j] \in S
  BY LenProperties, ElementOfSeq
<1>2. ASSUME NEW j \in 1 .. M, \A k \in j + 1 .. M : k \in U PROVE j \in U
  <2>1. CASE j = M
    BY <2>1, EmptySeq DEF Rewrites
  <2>2. CASE j # M
    <3>1. j \in 1 .. Len(b) /\ j + 1 \in j + 1 .. M /\ (j \in D => j + 2 \in j + 1 .. M)
      BY <1>1, <2>2
    <3>2. f[j + 1] \in Seq(S) /\ (j \in D => f[j + 2] \in Seq(S))
      BY <1>2, <3>1
    <3>3. << b[j] >> \in Seq(S)
      BY <1>1, <3>1
    <3>4. CASE j \in D
      <4>1. f[j] = ins[j] \o f[j + 2] /\ ins[j] \in Seq(S)
        BY <3>1, <3>4 DEF Rewrites
      <4>2. f[j] \in Seq(S)
        BY <3>2, <3>4, <4>1, ConcatProperties
      <4>3. QED
        BY <4>2
    <3>5. CASE j \notin D
      <4>1. f[j] = << b[j] >> \o f[j + 1]
        BY <3>1, <3>5 DEF Rewrites
      <4>2. f[j] \in Seq(S)
        BY <3>2, <3>3, <4>1, ConcatProperties
      <4>3. QED
        BY <4>2
    <3>6. QED
      BY <3>4, <3>5
  <2>3. QED
    BY <2>1, <2>2
<1>3. i \in U
  <2>1. M \in Nat
    BY <1>1
  <2>2. i \in 1 .. M
    OBVIOUS
  <2> HIDE DEF M, U
  <2>3. QED
    BY <1>2, <2>1, <2>2, Descends
<1>4. QED
  BY <1>3

(* One pass of put_field, as such a rewriting.                             *)
Puts(id, v, b, f) == Rewrites(b, FieldsOf(b, {id}), [i \in FieldsOf(b, {id}) |-> v], f)

IsPut(id, v, b, p) == \E f : Puts(id, v, b, f) /\ p = f[1]

(* A field has a character behind its per cent sign.                       *)
LEMMA FieldsPlace ==
  ASSUME NEW b, NEW I
  PROVE  FieldsOf(b, I) \in SUBSET (1 .. Len(b) - 1)
BY DEF FieldsOf

(* One pass, position by position.                                         *)
LEMMA PutsUnfold ==
  ASSUME NEW b, NEW id, NEW v, NEW f
  PROVE  Puts(id, v, b, f) <=>
           /\ f[Len(b) + 1] = << >>
           /\ \A i \in 1 .. Len(b) :
                f[i] = IF i \in FieldsOf(b, {id}) THEN v \o f[i + 2] ELSE << b[i] >> \o f[i + 1]
BY DEF Puts, Rewrites

(* The recursive function of put_field is such a pass.                     *)
LEMMA PutFieldPuts ==
  ASSUME NEW S, NEW b \in Seq(S), NEW v \in Seq(S), NEW id
  PROVE  IsPut(id, v, b, put_field(b, id, v))
<1> DEFINE Eq(g) == g = [i \in 1 .. Len(b) + 1 |->
                          IF i > Len(b) THEN << >>
                          ELSE IF i < Len(b) /\ b[i] = "%" /\ b[i + 1] = id
                               THEN v \o g[i + 2]
                               ELSE << b[i] >> \o g[i + 1]]
           rest == CHOOSE g : Eq(g)
           D == FieldsOf(b, {id})
<1>1. put_field(b, id, v) = rest[1]
  BY DEF put_field
<1>2. Len(b) \in Nat
  BY LenProperties
<1>3. PICK f \in [1 .. Len(b) + 1 -> Seq(S)] : Rewrites(b, D, [i \in D |-> v], f)
  <2>1. D \in SUBSET (1 .. Len(b) - 1)
    BY FieldsPlace
  <2> HIDE DEF D
  <2>2. [i \in D |-> v] \in [D -> Seq(S)]
    OBVIOUS
  <2>3. QED
    BY <2>1, <2>2, RewriteExists
<1>4. \A i \in 1 .. Len(b) : i \in D <=> i < Len(b) /\ b[i] = "%" /\ b[i + 1] = id
  BY <1>2 DEF FieldsOf
<1>5. \A i \in 1 .. Len(b) + 1 : i > Len(b) <=> i = Len(b) + 1
  BY <1>2
<1>6. \E g : Eq(g)
  <2>1. ASSUME NEW i \in 1 .. Len(b) + 1
        PROVE  f[i] = IF i > Len(b) THEN << >>
                      ELSE IF i < Len(b) /\ b[i] = "%" /\ b[i + 1] = id
                           THEN v \o f[i + 2]
                           ELSE << b[i] >> \o f[i + 1]
    <3>1. CASE i = Len(b) + 1
      BY <1>2, <1>3, <3>1 DEF Rewrites
    <3>2. CASE i # Len(b) + 1
      <4>1. i \in 1 .. Len(b) /\ ~ (i > Len(b))
        BY <1>2, <3>2
      <4>2. f[i] = IF i \in D THEN v \o f[i + 2] ELSE << b[i] >> \o f[i + 1]
        <5> HIDE DEF D
        <5>1. QED
          BY <1>3, <4>1 DEF Rewrites
      <4>3. QED
        BY <1>4, <4>1, <4>2
    <3>3. QED
      BY <3>1, <3>2
  <2>2. Eq(f)
    BY <1>3, <2>1
  <2>3. QED
    BY <2>2
<1>7. Eq(rest)
  BY <1>6
<1> HIDE DEF rest
<1>8. ASSUME NEW i \in 1 .. Len(b)
      PROVE  rest[i] = IF i \in D THEN v \o rest[i + 2] ELSE << b[i] >> \o rest[i + 1]
  <2>1. i \in 1 .. Len(b) + 1 /\ ~ (i > Len(b))
    BY <1>2
  <2>2. rest[i] = IF i < Len(b) /\ b[i] = "%" /\ b[i + 1] = id
                  THEN v \o rest[i + 2] ELSE << b[i] >> \o rest[i + 1]
    BY <1>7, <2>1
  <2>3. QED
    BY <1>4, <2>2
<1>9. rest[Len(b) + 1] = << >>
  <2>1. Len(b) + 1 \in 1 .. Len(b) + 1 /\ Len(b) + 1 > Len(b)
    BY <1>2
  <2>2. QED
    BY <1>7, <2>1
<1>10. Puts(id, v, b, rest)
  BY <1>8, <1>9, PutsUnfold
<1>11. QED
  BY <1>1, <1>10 DEF IsPut

(* A character before a text, and what that does to put_field.             *)
LEMMA ConsPlace ==
  ASSUME NEW S, NEW c \in S, NEW s \in Seq(S)
  PROVE  /\ << c >> \o s \in Seq(S)
         /\ Len(<< c >> \o s) = Len(s) + 1 /\ Len(s) \in Nat
         /\ (<< c >> \o s)[1] = c
         /\ \A j \in 1 .. Len(s) : (<< c >> \o s)[j + 1] = s[j]
<1>1. << c >> \in Seq(S) /\ Len(<< c >>) = 1 /\ << c >>[1] = c /\ Len(s) \in Nat
  BY LenProperties
<1>2. /\ << c >> \o s \in Seq(S)
      /\ Len(<< c >> \o s) = 1 + Len(s)
      /\ \A i \in 1 .. 1 + Len(s) :
           (<< c >> \o s)[i] = IF i <= 1 THEN << c >>[i] ELSE s[i - 1]
  BY <1>1, ConcatProperties
<1>3. ASSUME NEW j \in 1 .. Len(s) PROVE (<< c >> \o s)[j + 1] = s[j]
  <2>1. j + 1 \in 1 .. 1 + Len(s) /\ ~ (j + 1 <= 1) /\ (j + 1) - 1 = j
    BY <1>1
  <2>2. QED
    BY <1>2, <2>1
<1>4. QED
  BY <1>1, <1>2, <1>3

(* A pass over a text with one more character before it.                   *)
LEMMA ConsPuts ==
  ASSUME NEW S, NEW v \in Seq(S), NEW c \in S, NEW s \in Seq(S), NEW id, NEW f, Puts(id, v, s, f)
  PROVE  \E g : /\ Puts(id, v, << c >> \o s, g)
                /\ g[1] = IF c = "%" /\ s # << >> /\ s[1] = id THEN v \o f[2] ELSE << c >> \o f[1]
                /\ g[2] = f[1]
<1> DEFINE b == << c >> \o s
           first == IF c = "%" /\ s # << >> /\ s[1] = id THEN v \o f[2] ELSE << c >> \o f[1]
           g == [i \in 1 .. Len(s) + 2 |-> IF i = 1 THEN first ELSE f[i - 1]]
<1>1. /\ b \in Seq(S) /\ Len(b) = Len(s) + 1 /\ Len(s) \in Nat
      /\ b[1] = c /\ \A j \in 1 .. Len(s) : b[j + 1] = s[j]
  BY ConsPlace
<1>2. 1 \in FieldsOf(b, {id}) <=> c = "%" /\ s # << >> /\ s[1] = id
  <2>1. s # << >> <=> 1 \in 1 .. Len(s)
    BY <1>1, EmptySeq
  <2> HIDE DEF b
  <2>2. 1 \in FieldsOf(b, {id}) <=> 1 \in 1 .. Len(s) /\ b[1] = "%" /\ b[2] = id
    BY <1>1 DEF FieldsOf
  <2>3. 1 \in 1 .. Len(s) => b[2] = s[1]
    <3>1. SUFFICES ASSUME 1 \in 1 .. Len(s) PROVE b[1 + 1] = s[1]
      OBVIOUS
    <3>2. QED
      BY <1>1, <3>1
  <2>4. QED
    BY <1>1, <2>1, <2>2, <2>3
<1>3. ASSUME NEW j \in 1 .. Len(s) PROVE j + 1 \in FieldsOf(b, {id}) <=> j \in FieldsOf(s, {id})
  <2> HIDE DEF b
  <2>1. j + 1 \in 1 .. Len(b) - 1 <=> j \in 1 .. Len(s) - 1
    BY <1>1
  <2>2. b[j + 1] = s[j]
    BY <1>1
  <2>3. j \in 1 .. Len(s) - 1 => b[(j + 1) + 1] = s[j + 1]
    <3>1. j \in 1 .. Len(s) - 1 => j + 1 \in 1 .. Len(s)
      BY <1>1
    <3>2. QED
      BY <1>1, <3>1
  <2>4. QED
    BY <2>1, <2>2, <2>3 DEF FieldsOf
<1> HIDE DEF b, first
<1>4. g[1] = first /\ \A j \in 1 .. Len(s) + 1 : g[j + 1] = f[j]
  <2>1. ASSUME NEW j \in 1 .. Len(s) + 1 PROVE g[j + 1] = f[j]
    <3>1. j + 1 \in 1 .. Len(s) + 2 /\ j + 1 # 1 /\ (j + 1) - 1 = j
      BY <1>1
    <3>2. QED
      BY <3>1
  <2>2. 1 \in 1 .. Len(s) + 2
    BY <1>1
  <2>3. QED
    BY <2>1, <2>2
<1> HIDE DEF g
<1>5. /\ f[Len(s) + 1] = << >>
      /\ \A i \in 1 .. Len(s) :
           f[i] = IF i \in FieldsOf(s, {id}) THEN v \o f[i + 2] ELSE << s[i] >> \o f[i + 1]
  BY PutsUnfold
<1>6. g[Len(b) + 1] = << >>
  <2>1. Len(s) + 1 \in 1 .. Len(s) + 1
    BY <1>1
  <2>2. g[(Len(s) + 1) + 1] = f[Len(s) + 1]
    BY <1>4, <2>1
  <2>3. QED
    BY <1>1, <1>5, <2>2
<1>7. ASSUME NEW i \in 1 .. Len(b)
      PROVE  g[i] = IF i \in FieldsOf(b, {id}) THEN v \o g[i + 2] ELSE << b[i] >> \o g[i + 1]
  <2>1. CASE i = 1
    <3>1. g[1 + 1] = f[1]
      BY <1>1, <1>4
    <3>2. s # << >> => g[1 + 2] = f[2]
      <4>1. SUFFICES ASSUME s # << >> PROVE g[2 + 1] = f[2]
        OBVIOUS
      <4>2. 2 \in 1 .. Len(s) + 1
        BY <1>1, <4>1, EmptySeq
      <4>3. QED
        BY <1>4, <4>2
    <3>3. CASE 1 \in FieldsOf(b, {id})
      <4>1. g[1] = v \o f[2] /\ s # << >>
        BY <1>2, <1>4, <3>3 DEF first
      <4>2. QED
        BY <2>1, <3>2, <3>3, <4>1
    <3>4. CASE 1 \notin FieldsOf(b, {id})
      <4>1. g[1] = << c >> \o f[1]
        BY <1>2, <1>4, <3>4 DEF first
      <4>2. QED
        BY <1>1, <2>1, <3>1, <3>4, <4>1
    <3>5. QED
      BY <3>3, <3>4
  <2>2. CASE i # 1
    <3> DEFINE j == i - 1
    <3>1. j \in 1 .. Len(s) /\ i = j + 1
      BY <1>1, <2>2
    <3> HIDE DEF j
    <3>2. i \in FieldsOf(b, {id}) <=> j \in FieldsOf(s, {id})
      BY <1>3, <3>1
    <3>3. b[i] = s[j]
      BY <1>1, <3>1
    <3>4. g[i] = f[j]
      BY <1>1, <1>4, <3>1
    <3>5. g[i + 1] = f[j + 1]
      <4>1. j + 1 \in 1 .. Len(s) + 1
        BY <1>1, <3>1
      <4>2. QED
        BY <1>4, <3>1, <4>1
    <3>6. j \in FieldsOf(s, {id}) => g[i + 2] = f[j + 2]
      <4>1. j \in FieldsOf(s, {id}) => j + 2 \in 1 .. Len(s) + 1
        BY <1>1 DEF FieldsOf
      <4>2. i + 2 = (j + 2) + 1
        BY <1>1, <3>1
      <4>3. QED
        BY <1>4, <4>1, <4>2
    <3>7. f[j] = IF j \in FieldsOf(s, {id}) THEN v \o f[j + 2] ELSE << s[j] >> \o f[j + 1]
      BY <1>5, <3>1
    <3>8. QED
      BY <3>2, <3>3, <3>4, <3>5, <3>6, <3>7
  <2>3. QED
    BY <2>1, <2>2
<1>8. Puts(id, v, b, g)
  BY <1>6, <1>7, PutsUnfold
<1>9. g[2] = f[1]
  <2>1. 1 \in 1 .. Len(s) + 1 /\ 2 = 1 + 1
    BY <1>1
  <2>2. QED
    BY <1>4, <2>1
<1>10. QED
  BY <1>4, <1>8, <1>9 DEF b, first

(* What put_field makes of a text is in the alphabet, too.                 *)
LEMMA PutType ==
  ASSUME NEW S, NEW b \in Seq(S), NEW v \in Seq(S), NEW id, NEW p, IsPut(id, v, b, p)
  PROVE  p \in Seq(S)
<1> DEFINE D == FieldsOf(b, {id})
           ins == [i \in D |-> v]
<1>1. PICK f : Puts(id, v, b, f) /\ p = f[1]
  BY DEF IsPut
<1>2. D \in SUBSET (1 .. Len(b) - 1)
  BY FieldsPlace
<1>3. Rewrites(b, D, ins, f)
  BY <1>1 DEF Puts
<1> HIDE DEF D
<1>4. ins \in [D -> Seq(S)]
  OBVIOUS
<1>5. 1 \in 1 .. Len(b) + 1
  BY LenProperties
<1> HIDE DEF ins
<1>6. f[1] \in Seq(S)
  BY <1>2, <1>3, <1>4, <1>5, RewriteType
<1>7. QED
  BY <1>1, <1>6

(* A character that starts no field of this pass stays.                    *)
LEMMA CharacterStays ==
  ASSUME NEW S, NEW v \in Seq(S), NEW c \in S, NEW s \in Seq(S), NEW id,
         ~ (c = "%" /\ s # << >> /\ s[1] = id), NEW p, IsPut(id, v, s, p)
  PROVE  IsPut(id, v, << c >> \o s, << c >> \o p)
<1>1. PICK f : Puts(id, v, s, f) /\ p = f[1]
  BY DEF IsPut
<1>2. PICK g : /\ Puts(id, v, << c >> \o s, g)
               /\ g[1] = IF c = "%" /\ s # << >> /\ s[1] = id
                         THEN v \o f[2] ELSE << c >> \o f[1]
  BY <1>1, ConsPuts
<1>3. g[1] = << c >> \o p
  BY <1>1, <1>2
<1>4. QED
  BY <1>2, <1>3 DEF IsPut

(* A field of this pass gives way to its value.                            *)
LEMMA FieldGivesWay ==
  ASSUME NEW S, "%" \in S, NEW v \in Seq(S), NEW id \in S, id # "%", NEW s \in Seq(S),
         NEW p, IsPut(id, v, s, p)
  PROVE  IsPut(id, v, << "%" >> \o (<< id >> \o s), v \o p)
<1>1. PICK f : Puts(id, v, s, f) /\ p = f[1]
  BY DEF IsPut
<1>2. PICK g : Puts(id, v, << id >> \o s, g) /\ g[2] = f[1]
  BY <1>1, ConsPuts
<1>3. /\ << id >> \o s \in Seq(S) /\ (<< id >> \o s)[1] = id
      /\ Len(<< id >> \o s) = Len(s) + 1 /\ Len(s) \in Nat
  BY ConsPlace
<1>4. << id >> \o s # << >>
  BY <1>3, EmptySeq
<1> DEFINE t == << id >> \o s
<1>5. t \in Seq(S) /\ t[1] = id /\ t # << >> /\ Puts(id, v, t, g)
  BY <1>2, <1>3, <1>4
<1> HIDE DEF t
<1>6. PICK h : Puts(id, v, << "%" >> \o t, h) /\ h[1] = v \o g[2]
  <2> DEFINE c == "%"
  <2>1. c \in S
    OBVIOUS
  <2> HIDE DEF c
  <2>2. \E h : /\ Puts(id, v, << c >> \o t, h)
               /\ h[1] = IF c = "%" /\ t # << >> /\ t[1] = id THEN v \o g[2] ELSE << c >> \o g[1]
    BY <1>5, <2>1, ConsPuts
  <2>3. c = "%"
    BY DEF c
  <2>4. QED
    BY <1>5, <2>2, <2>3
<1>7. QED
  BY <1>1, <1>2, <1>6 DEF IsPut, t

(* A character goes before a text as it goes before its beginning.         *)
LEMMA ConsAssociates ==
  ASSUME NEW S, NEW c \in S, NEW r \in Seq(S), NEW x \in Seq(S)
  PROVE  << c >> \o (r \o x) = (<< c >> \o r) \o x
<1>1. << c >> \in Seq(S)
  OBVIOUS
<1>2. QED
  BY <1>1, ConcatAssociative

(* A text without a per cent sign stays.                                   *)
LEMMA TextStays ==
  ASSUME NEW S, NEW v \in Seq(S), NEW s \in Seq(S), NEW id, NEW p, IsPut(id, v, s, p),
         NEW w \in Seq(S), \A i \in 1 .. Len(w) : w[i] # "%"
  PROVE  IsPut(id, v, w \o s, w \o p)
<1> DEFINE N == Len(w)
           From(i) == SubSeq(w, i, N)
           U == {i \in 1 .. N + 1 : IsPut(id, v, From(i) \o s, From(i) \o p)}
<1>1. N \in Nat /\ \A i \in 1 .. N : w[i] \in S
  BY LenProperties, ElementOfSeq
<1>2. p \in Seq(S)
  BY PutType
<1>3. ASSUME NEW i \in 1 .. N + 1, \A j \in i + 1 .. N + 1 : j \in U PROVE i \in U
  <2>1. CASE i = N + 1
    <3>1. From(i) = << >>
      BY <1>1, <2>1, SubSeqEmpty
    <3>2. From(i) \o s = s /\ From(i) \o p = p
      BY <1>2, <3>1, ConcatEmptySeq
    <3>3. QED
      BY <3>2
  <2>2. CASE i # N + 1
    <3>1. i \in 1 .. N /\ i + 1 \in i + 1 .. N + 1 /\ N \in i .. N
      BY <1>1, <2>2
    <3>2. IsPut(id, v, From(i + 1) \o s, From(i + 1) \o p)
      BY <1>3, <3>1
    <3>3. From(i) = << w[i] >> \o From(i + 1)
      BY <3>1, SubSeqRecursiveFirst
    <3>4. From(i + 1) \in Seq(S)
      <4>1. \A j \in i + 1 .. N : w[j] \in S
        BY <1>1
      <4>2. i + 1 \in Int /\ N \in Int
        BY <1>1
      <4>3. QED
        BY <4>1, <4>2, SubSeqProperties
    <3> DEFINE r == From(i + 1)
    <3> HIDE DEF From
    <3>5. r \o s \in Seq(S) /\ << w[i] >> \in Seq(S) /\ w[i] \in S /\ w[i] # "%"
      BY <1>1, <3>1, <3>4, ConcatProperties
    <3> HIDE DEF N, U
    <3>6. r \in Seq(S) /\ From(i) = << w[i] >> \o r /\ IsPut(id, v, r \o s, r \o p)
      BY <3>2, <3>3, <3>4
    <3> HIDE DEF r
    <3>7. IsPut(id, v, << w[i] >> \o (r \o s), << w[i] >> \o (r \o p))
      BY <3>5, <3>6, CharacterStays
    <3>8. /\ << w[i] >> \o (r \o s) = From(i) \o s
          /\ << w[i] >> \o (r \o p) = From(i) \o p
      <4> DEFINE c == w[i]
      <4>1. c \in S /\ r \in Seq(S) /\ p \in Seq(S) /\ From(i) = << c >> \o r
        BY <1>2, <3>5, <3>6
      <4> HIDE DEF c
      <4>2. << c >> \o (r \o s) = (<< c >> \o r) \o s
        BY <4>1, ConsAssociates
      <4>3. << c >> \o (r \o p) = (<< c >> \o r) \o p
        BY <4>1, ConsAssociates
      <4>4. QED
        BY <4>1, <4>2, <4>3 DEF c
    <3>9. IsPut(id, v, From(i) \o s, From(i) \o p)
      BY <3>7, <3>8
    <3>10. QED
      BY <3>9 DEF U
  <2>3. QED
    BY <2>1, <2>2
<1>4. 1 \in U
  <2>1. N + 1 \in Nat /\ 1 \in 1 .. N + 1
    BY <1>1
  <2> DEFINE M == N + 1
  <2>2. \A i \in 1 .. M : (\A j \in i + 1 .. M : j \in U) => i \in U
    BY <1>3
  <2>3. M \in Nat /\ 1 \in 1 .. M
    BY <2>1
  <2> HIDE DEF M, U
  <2>4. QED
    BY <2>2, <2>3, Descends
<1>5. From(1) = w
  BY SubSeqFull
<1>6. QED
  BY <1>4, <1>5

(* The format F with the fields of I put in, from each position on.        *)
Fills(F, I, val, f) ==
  Rewrites(F, FieldsOf(F, I), [i \in FieldsOf(F, I) |-> val[F[i + 1]]], f)

(* The format F with the fields of I put in.                               *)
Filled(F, I, val, t) == \E f : Fills(F, I, val, f) /\ t = f[1]

(* Each per cent sign of a format starts a field.                          *)
Paired(F) == \A i \in 1 .. Len(F) : F[i] = "%" => i < Len(F) /\ F[i + 1] # "%"

(* The same, position by position.                                         *)
LEMMA FillsUnfold ==
  ASSUME NEW F, NEW I, NEW val, NEW f, Len(F) \in Nat
  PROVE  Fills(F, I, val, f) <=>
           /\ f[Len(F) + 1] = << >>
           /\ \A i \in 1 .. Len(F) :
                f[i] = IF F[i] = "%" /\ i < Len(F) /\ F[i + 1] \in I
                       THEN val[F[i + 1]] \o f[i + 2]
                       ELSE << F[i] >> \o f[i + 1]
<1> DEFINE D == FieldsOf(F, I)
           ins == [i \in D |-> val[F[i + 1]]]
<1>1. \A i \in 1 .. Len(F) : i \in D <=> F[i] = "%" /\ i < Len(F) /\ F[i + 1] \in I
  BY DEF FieldsOf
<1>2. \A i \in D : ins[i] = val[F[i + 1]]
  OBVIOUS
<1> HIDE DEF ins
<1>3. Fills(F, I, val, f) <=> Rewrites(F, D, ins, f)
  BY DEF Fills, ins
<1> HIDE DEF D
<1>4. Rewrites(F, D, ins, f) <=>
           /\ f[Len(F) + 1] = << >>
           /\ \A i \in 1 .. Len(F) :
                f[i] = IF i \in D THEN ins[i] \o f[i + 2] ELSE << F[i] >> \o f[i + 1]
  BY DEF Rewrites
<1>5. QED
  BY <1>1, <1>2, <1>3, <1>4

(* What is filled in stays over the same characters.                       *)
LEMMA FillsType ==
  ASSUME NEW S, NEW F \in Seq(S), NEW I, NEW val, \A x \in I : val[x] \in Seq(S),
         NEW f, Fills(F, I, val, f), NEW i \in 1 .. Len(F) + 1
  PROVE  f[i] \in Seq(S)
<1> DEFINE D == FieldsOf(F, I)
           ins == [j \in D |-> val[F[j + 1]]]
<1>1. D \in SUBSET (1 .. Len(F) - 1)
  BY FieldsPlace
<1>2. \A j \in D : F[j + 1] \in I
  BY DEF FieldsOf
<1>3. ins \in [D -> Seq(S)]
  <2> HIDE DEF D
  <2>1. QED
    BY <1>2
<1>4. Rewrites(F, D, ins, f)
  BY DEF Fills
<1> HIDE DEF D, ins
<1>5. QED
  BY <1>1, <1>3, <1>4, RewriteType

(* Nothing is put into no text.                                            *)
LEMMA PutNothing ==
  ASSUME NEW id, NEW v
  PROVE  IsPut(id, v, << >>, << >>)
<1> DEFINE f == << << >> >>
<1>1. Len(<< >>) = 0 /\ f[1] = << >>
  BY EmptySeq
<1>2. f[Len(<< >>) + 1] = << >> /\ 1 .. Len(<< >>) = {}
  BY <1>1
<1> HIDE DEF f
<1>3. Puts(id, v, << >>, f)
  BY <1>2, PutsUnfold
<1>4. QED
  BY <1>1, <1>3 DEF IsPut

(* The fields of I are in, id is next, and no value brings a per cent sign *)
(* along.                                                                  *)
MayPut(S, F, I, id, val) ==
  /\ "%" \in S /\ id \in S /\ id # "%" /\ id \notin I
  /\ F \in Seq(S) /\ Paired(F)
  /\ \A x \in I \cup {id} : val[x] \in Seq(S)
  /\ \A x \in I : \A i \in 1 .. Len(val[x]) : val[x][i] # "%"

(* One more pass puts one more field in.                                   *)
LEMMA OnePass ==
  ASSUME NEW S, NEW F, NEW I, NEW id, NEW val, MayPut(S, F, I, id, val),
         NEW f, Fills(F, I, val, f), NEW g, Fills(F, I \cup {id}, val, g)
  PROVE  IsPut(id, val[id], f[1], g[1])
<1>0. /\ "%" \in S /\ id \in S /\ id # "%" /\ id \notin I
      /\ F \in Seq(S) /\ Paired(F)
      /\ \A x \in I \cup {id} : val[x] \in Seq(S)
      /\ \A x \in I : \A i \in 1 .. Len(val[x]) : val[x][i] # "%"
  BY DEF MayPut
<1> USE <1>0
<1> DEFINE M == Len(F) + 1
           J == I \cup {id}
           U == {i \in 1 .. M : IsPut(id, val[id], f[i], g[i])}
<1>1. Len(F) \in Nat /\ \A i \in 1 .. Len(F) : F[i] \in S
  BY LenProperties, ElementOfSeq
<1>2. \A i \in 1 .. M : f[i] \in Seq(S)
  BY FillsType
<1>3. /\ f[M] = << >>
      /\ \A i \in 1 .. Len(F) :
           f[i] = IF F[i] = "%" /\ i < Len(F) /\ F[i + 1] \in I
                  THEN val[F[i + 1]] \o f[i + 2]
                  ELSE << F[i] >> \o f[i + 1]
  <2>1. Fills(F, I, val, f) /\ Len(F) \in Nat
    BY <1>1
  <2>2. QED
    BY ONLY <2>1, FillsUnfold
<1>4. /\ g[M] = << >>
      /\ \A i \in 1 .. Len(F) :
           g[i] = IF F[i] = "%" /\ i < Len(F) /\ F[i + 1] \in J
                  THEN val[F[i + 1]] \o g[i + 2]
                  ELSE << F[i] >> \o g[i + 1]
  BY <1>1, FillsUnfold
<1>5. val[id] \in Seq(S)
  OBVIOUS
<1>6. ASSUME NEW i \in 1 .. M, \A j \in i + 1 .. M : j \in U PROVE i \in U
  <2>1. CASE i = M
    BY <1>3, <1>4, <2>1, PutNothing
  <2>2. CASE i # M /\ F[i] # "%"
    <3>1. i \in 1 .. Len(F) /\ i + 1 \in i + 1 .. M /\ i + 1 \in 1 .. M
      BY <1>1, <2>2
    <3>2. IsPut(id, val[id], f[i + 1], g[i + 1])
      BY <1>6, <3>1
    <3>3. f[i] = << F[i] >> \o f[i + 1] /\ g[i] = << F[i] >> \o g[i + 1]
      BY <1>3, <1>4, <2>2, <3>1
    <3> DEFINE c == F[i]
               s == f[i + 1]
    <3>4. c \in S /\ c # "%" /\ s \in Seq(S) /\ IsPut(id, val[id], s, g[i + 1])
      BY <1>1, <1>2, <2>2, <3>1, <3>2
    <3> HIDE DEF c, s
    <3>5. IsPut(id, val[id], << c >> \o s, << c >> \o g[i + 1])
      BY <1>5, <3>4, CharacterStays
    <3>6. QED
      BY <3>3, <3>5 DEF c, s
  <2>3. CASE i # M /\ F[i] = "%"
    <3>1. i \in 1 .. Len(F) /\ i < Len(F) /\ F[i + 1] # "%"
      BY <1>1, <2>3 DEF Paired
    <3>2. /\ i + 1 \in 1 .. Len(F) /\ i + 1 \in 1 .. M
          /\ i + 2 \in i + 1 .. M /\ i + 2 \in 1 .. M
      BY <1>1, <3>1
    <3> DEFINE s == f[i + 2]
               p == g[i + 2]
               x == F[i + 1]
    <3>3. IsPut(id, val[id], s, p)
      BY <1>6, <3>2
    <3>4. s \in Seq(S) /\ x \in S /\ x # "%"
      BY <1>1, <1>2, <3>1, <3>2
    <3>5. /\ f[i] = IF x \in I THEN val[x] \o s ELSE << "%" >> \o f[i + 1]
          /\ g[i] = IF x \in J THEN val[x] \o p ELSE << "%" >> \o g[i + 1]
      BY <1>3, <1>4, <2>3, <3>1
    <3>6. f[i + 1] = << x >> \o s /\ g[i + 1] = << x >> \o p
      <4>1. (i + 1) + 1 = i + 2
        BY <1>1
      <4>2. QED
        BY <1>3, <1>4, <3>1, <3>2, <4>1
    <3> HIDE DEF s, p, x
    <3>7. CASE x \in I
      <4> DEFINE w == val[x]
      <4>1. w \in Seq(S) /\ \A k \in 1 .. Len(w) : w[k] # "%"
        BY <3>7
      <4>2. f[i] = w \o s /\ g[i] = w \o p
        BY <3>5, <3>7
      <4> HIDE DEF w
      <4>3. IsPut(id, val[id], w \o s, w \o p)
        BY <1>5, <3>3, <3>4, <4>1, TextStays
      <4>4. QED
        BY <4>2, <4>3
    <3>8. CASE x = id
      <4>1. f[i] = << "%" >> \o (<< id >> \o s) /\ g[i] = val[id] \o p
        BY <3>5, <3>6, <3>8
      <4>2. IsPut(id, val[id], << "%" >> \o (<< id >> \o s), val[id] \o p)
        BY <1>5, <3>3, <3>4, FieldGivesWay
      <4>3. QED
        BY <4>1, <4>2
    <3>9. CASE x \notin J
      <4> DEFINE t == << x >> \o s
                 q == << x >> \o p
      <4>1. IsPut(id, val[id], t, q)
        BY <1>5, <3>3, <3>4, CharacterStays
      <4>2. t \in Seq(S) /\ t[1] = x
        BY <3>4, ConsPlace
      <4>3. f[i] = << "%" >> \o t /\ g[i] = << "%" >> \o q
        BY <3>5, <3>6, <3>9
      <4> HIDE DEF t, q
      <4> DEFINE c == "%"
      <4>4. c \in S /\ ~ (c = "%" /\ t # << >> /\ t[1] = id)
        BY <3>9, <4>2
      <4> HIDE DEF c
      <4>5. IsPut(id, val[id], << c >> \o t, << c >> \o q)
        BY <1>5, <4>1, <4>2, <4>4, CharacterStays
      <4>6. QED
        BY <4>3, <4>5 DEF c
    <3>10. QED
      BY <3>7, <3>8, <3>9
  <2>4. QED
    BY <2>1, <2>2, <2>3
<1>7. 1 \in U
  <2>1. M \in Nat /\ 1 \in 1 .. M
    BY <1>1
  <2> HIDE DEF M, U
  <2>2. QED
    BY <1>6, <2>1, Descends
<1>8. QED
  BY <1>7

(* The mark of the bar: dividing finds the last tenth that has begun.      *)
LEMMA Quotient ==
  ASSUME NEW a \in Nat, NEW b \in Nat, b > 0
  PROVE  /\ a \div b \in Nat
         /\ (a \div b) * b <= a /\ a < (a \div b) * b + b
<1>1. a \div b \in Int /\ a % b \in 0 .. b - 1 /\ a = b * (a \div b) + (a % b)
  OBVIOUS
<1>2. QED
  BY <1>1

(* The bar put in has its mark where the reference has it.                 *)
LEMMA BarMark ==
  ASSUME NEW c, c[1] \in Nat, c[2] \in Int, c[2] >= 0 \/ c[1] = 0
  PROVE  Bar(c) = [i \in 1 .. 10 |-> IF i = TenthBegun(c) + 1 THEN "|" ELSE "-"]
<1> DEFINE at == IF Progress(c) >= 10 THEN 9 ELSE Progress(c)
<1>1. CASE c[2] <= 0
  <2>1. TenthBegun(c) = 0
    BY <1>1 DEF TenthBegun
  <2>2. Progress(c) = 0
    <3>1. CASE c[2] = 0
      BY <3>1 DEF Progress
    <3>2. CASE c[2] # 0
      <4>1. c[1] = 0 /\ - c[2] \in Nat /\ - c[2] > 0
        BY <1>1, <3>2
      <4>2. -10 * c[1] = 0
        <5> DEFINE n == c[1]
                   m == -10 * n
        <5>0. n \in Int
          BY <4>1
        <5>1. n = 0
          BY <4>1
        <5> HIDE DEF n
        <5>2. m = 0 - 10 * n
          BY <5>0
        <5> HIDE DEF m
        <5>3. m = 0
          BY <5>1, <5>2
        <5>4. QED
          BY <5>3 DEF m, n
      <4>3. 0 \div (- c[2]) = 0
        BY <4>1
      <4>4. QED
        BY <1>1, <3>2, <4>2, <4>3 DEF Progress
    <3>3. QED
      BY <3>1, <3>2
  <2>3. QED
    BY <2>1, <2>2 DEF Bar
<1>2. CASE c[2] > 0
  <2> DEFINE a == c[1]
             b == c[2]
             P == (10 * a) \div b
             Begun == {k \in 0 .. 9 : k * b <= 10 * a}
  <2>1. Progress(c) = P /\ TenthBegun(c) = Max(Begun)
    BY <1>2 DEF Progress, TenthBegun
  <2>2. a \in Nat /\ b \in Nat /\ b > 0 /\ 10 * a \in Nat
    BY <1>2
  <2>3. P \in Nat /\ P * b <= 10 * a /\ 10 * a < P * b + b
    <3> HIDE DEF a, b
    <3>1. QED
      BY <2>2, Quotient
  <2> HIDE DEF a, b, P
  <2>4. at \in 0 .. 9
    BY <2>1, <2>3
  <2>5. at * b <= 10 * a
    <3>1. CASE P >= 10
      <4>1. PICK d \in Nat : P = 10 + d
        <5>1. P - 10 \in Nat /\ P = 10 + (P - 10)
          BY <2>3, <3>1
        <5>2. QED
          BY <5>1
      <4>2. d * b >= 0 /\ P * b = 10 * b + d * b
        BY <2>2, <4>1
      <4>3. 9 * b <= 10 * a
        BY <2>2, <2>3, <4>2
      <4>4. QED
        BY <2>1, <3>1, <4>3
    <3>2. CASE P < 10
      BY <2>1, <2>3, <3>2
    <3>3. QED
      BY <2>3, <3>1, <3>2
  <2>6. \A k \in Begun : k <= at
    <3> SUFFICES ASSUME NEW k \in 0 .. 9, k * b <= 10 * a, k > at PROVE FALSE
      BY <2>4
    <3>1. at = P /\ k >= P + 1
      BY <2>1, <2>3, <2>4
    <3>2. PICK d \in Nat : k = (P + 1) + d
      <4>1. k - (P + 1) \in Nat /\ k = (P + 1) + (k - (P + 1))
        BY <2>3, <3>1
      <4>2. QED
        BY <4>1
    <3>3. d * b >= 0 /\ k * b = P * b + b + d * b
      BY <2>2, <2>3, <3>2
    <3>4. QED
      BY <2>2, <2>3, <3>3
  <2>7. Max(Begun) = at
    <3>1. at \in Begun /\ \A k \in Begun : at >= k
      BY <2>4, <2>5, <2>6
    <3>2. \A k \in Begun : k \in 0 .. 9
      OBVIOUS
    <3> HIDE DEF at, Begun
    <3>3. \A m \in Begun : (\A k \in Begun : m >= k) => m = at
      BY <2>4, <3>1, <3>2
    <3>4. QED
      BY <3>1, <3>3 DEF Max
  <2>8. QED
    BY <2>1, <2>7 DEF Bar
<1>3. QED
  BY <1>1, <1>2

(* A format can be filled in.                                              *)
LEMMA FillsExists ==
  ASSUME NEW S, NEW F \in Seq(S), NEW I, NEW val, \A x \in I : val[x] \in Seq(S)
  PROVE  \E f : Fills(F, I, val, f)
<1> DEFINE D == FieldsOf(F, I)
           ins == [j \in D |-> val[F[j + 1]]]
<1>1. D \in SUBSET (1 .. Len(F) - 1)
  BY FieldsPlace
<1>2. \A j \in D : F[j + 1] \in I
  BY DEF FieldsOf
<1>3. ins \in [D -> Seq(S)]
  <2> HIDE DEF D
  <2>1. QED
    BY <1>2
<1> HIDE DEF D, ins
<1>4. \E f : Rewrites(F, D, ins, f)
  BY <1>1, <1>3, RewriteExists
<1>5. QED
  BY <1>4 DEF Fills, D, ins

(* ... in one way only.                                                    *)
LEMMA FilledUnique ==
  ASSUME NEW S, NEW F \in Seq(S), NEW I, NEW val,
         NEW t, Filled(F, I, val, t), NEW u, Filled(F, I, val, u)
  PROVE  t = u
<1> DEFINE D == FieldsOf(F, I)
           ins == [j \in D |-> val[F[j + 1]]]
<1>1. PICK f : Fills(F, I, val, f) /\ t = f[1]
  BY DEF Filled
<1>2. PICK g : Fills(F, I, val, g) /\ u = g[1]
  BY DEF Filled
<1>3. D \in SUBSET (1 .. Len(F) - 1)
  BY FieldsPlace
<1>4. Rewrites(F, D, ins, f) /\ Rewrites(F, D, ins, g) /\ \A j \in D : ins[j] = ins[j]
  BY <1>1, <1>2 DEF Fills
<1> HIDE DEF D, ins
<1>5. f[1] = g[1]
  BY <1>3, <1>4, RewriteUnique
<1>6. QED
  BY <1>1, <1>2, <1>5

(* Before the first pass the format stands as it is.                       *)
LEMMA NothingFilled ==
  ASSUME NEW S, NEW F \in Seq(S), NEW val
  PROVE  Filled(F, {}, val, F)
<1> DEFINE N == Len(F)
           f == [i \in 1 .. N + 1 |-> SubSeq(F, i, N)]
<1>1. N \in Nat
  BY LenProperties
<1>2. f[N + 1] = << >>
  <2>1. N + 1 \in 1 .. N + 1 /\ N + 1 \in Int /\ N \in Int /\ N < N + 1
    BY <1>1
  <2>2. SubSeq(F, N + 1, N) = << >>
    BY <2>1, SubSeqEmpty
  <2>3. QED
    BY <2>1, <2>2
<1>3. ASSUME NEW i \in 1 .. N PROVE f[i] = << F[i] >> \o f[i + 1]
  <2>1. i \in 1 .. N + 1 /\ i + 1 \in 1 .. N + 1 /\ N \in i .. N
    BY <1>1
  <2>2. SubSeq(F, i, N) = << F[i] >> \o SubSeq(F, i + 1, N)
    BY <2>1, SubSeqRecursiveFirst
  <2>3. QED
    BY <2>1, <2>2
<1>4. f[1] = F
  <2>1. 1 \in 1 .. N + 1
    BY <1>1
  <2>2. QED
    BY <2>1, SubSeqFull
<1> HIDE DEF f
<1>5. Fills(F, {}, val, f)
  BY <1>1, <1>2, <1>3, FillsUnfold
<1>6. QED
  BY <1>4, <1>5 DEF Filled

(* What put_field makes of a text is determined.                           *)
LEMMA PutUnique ==
  ASSUME NEW S, NEW b \in Seq(S), NEW id, NEW v, NEW p, IsPut(id, v, b, p),
         NEW q, IsPut(id, v, b, q)
  PROVE  p = q
<1> DEFINE D == FieldsOf(b, {id})
           ins == [i \in D |-> v]
<1>1. PICK f : Puts(id, v, b, f) /\ p = f[1]
  BY DEF IsPut
<1>2. PICK g : Puts(id, v, b, g) /\ q = g[1]
  BY DEF IsPut
<1>3. D \in SUBSET (1 .. Len(b) - 1)
  BY FieldsPlace
<1>4. Rewrites(b, D, ins, f) /\ Rewrites(b, D, ins, g) /\ \A i \in D : ins[i] = ins[i]
  BY <1>1, <1>2 DEF Puts
<1> HIDE DEF D, ins
<1>5. f[1] = g[1]
  BY <1>3, <1>4, RewriteUnique
<1>6. QED
  BY <1>1, <1>2, <1>5

(* A pass of put_field over the fields put in so far puts the next one in. *)
LEMMA PassFills ==
  ASSUME NEW S, NEW F, NEW I, NEW id, NEW val, MayPut(S, F, I, id, val),
         NEW t, Filled(F, I, val, t)
  PROVE  Filled(F, I \cup {id}, val, put_field(t, id, val[id]))
<1> DEFINE J == I \cup {id}
<1>0. F \in Seq(S) /\ \A x \in J : val[x] \in Seq(S)
  BY DEF MayPut
<1>1. PICK f : Fills(F, I, val, f) /\ t = f[1]
  BY DEF Filled
<1>2. PICK g : Fills(F, J, val, g)
  <2> HIDE DEF J
  <2>1. QED
    BY <1>0, FillsExists
<1>3. t \in Seq(S)
  <2>1. 1 \in 1 .. Len(F) + 1
    BY <1>0, LenProperties
  <2>2. \A x \in I : val[x] \in Seq(S)
    BY <1>0
  <2>3. QED
    BY <1>0, <1>1, <2>1, <2>2, FillsType
<1> DEFINE v == val[id]
           q == g[1]
<1>4. v \in Seq(S)
  BY <1>0
<1>5. IsPut(id, v, t, q)
  BY <1>1, <1>2, OnePass
<1> HIDE DEF v, q
<1>6. IsPut(id, v, t, put_field(t, id, v))
  BY <1>3, <1>4, PutFieldPuts
<1>7. put_field(t, id, v) = q
  BY <1>3, <1>5, <1>6, PutUnique
<1>8. QED
  BY <1>2, <1>7 DEF v, q, Filled

(* The reference is the format with all fields put in.                     *)
LEMMA ReplacedFills ==
  ASSUME NEW S, NEW F \in Seq(S), NEW val,
         \A x \in Range(Identifiers) : val[x] \in Seq(S) /\ Meant(x) = val[x]
  PROVE  Filled(F, Range(Identifiers), val, Replaced(F))
<1> DEFINE I == Range(Identifiers)
           Eq(g) == g = [i \in 1 .. Len(F) + 1 |->
                          IF i > Len(F) THEN << >>
                          ELSE IF i < Len(F) /\ F[i] = "%" /\ F[i + 1] \in Range(Identifiers)
                               THEN Meant(F[i + 1]) \o g[i + 2]
                               ELSE << F[i] >> \o g[i + 1]]
           from == CHOOSE g : Eq(g)
<1>1. Replaced(F) = from[1]
  BY DEF Replaced
<1>2. Len(F) \in Nat
  BY LenProperties
<1>3. \E g : Eq(g)
  <2> DEFINE D == FieldsOf(F, I)
             ins == [j \in D |-> val[F[j + 1]]]
  <2>1. D \in SUBSET (1 .. Len(F) - 1)
    BY FieldsPlace
  <2>2. \A j \in D : F[j + 1] \in I
    BY DEF FieldsOf
  <2>3. ins \in [D -> Seq(S)]
    <3> HIDE DEF D
    <3>1. QED
      BY <2>2
  <2>4. PICK f \in [1 .. Len(F) + 1 -> Seq(S)] : Rewrites(F, D, ins, f)
    <3> HIDE DEF D, ins
    <3>1. QED
      BY <2>1, <2>3, RewriteExists
  <2>5. /\ f[Len(F) + 1] = << >>
        /\ \A i \in 1 .. Len(F) :
             f[i] = IF F[i] = "%" /\ i < Len(F) /\ F[i + 1] \in I
                    THEN val[F[i + 1]] \o f[i + 2]
                    ELSE << F[i] >> \o f[i + 1]
    <3>1. Fills(F, I, val, f)
      BY <2>4 DEF Fills
    <3> HIDE DEF I
    <3>2. QED
      BY <1>2, <3>1, FillsUnfold
  <2>6. ASSUME NEW i \in 1 .. Len(F) + 1
        PROVE  f[i] = IF i > Len(F) THEN << >>
                      ELSE IF i < Len(F) /\ F[i] = "%" /\ F[i + 1] \in Range(Identifiers)
                           THEN Meant(F[i + 1]) \o f[i + 2]
                           ELSE << F[i] >> \o f[i + 1]
    <3>1. CASE i = Len(F) + 1
      BY <1>2, <2>5, <3>1
    <3>2. CASE i # Len(F) + 1
      <4>1. i \in 1 .. Len(F) /\ ~ (i > Len(F))
        BY <1>2, <3>2
      <4>2. QED
        BY <2>5, <4>1
    <3>3. QED
      BY <3>1, <3>2
  <2>7. Eq(f)
    BY <2>4, <2>6
  <2>8. QED
    BY <2>7
<1>4. Eq(from)
  BY <1>3
<1> HIDE DEF from
<1>5. from[Len(F) + 1] = << >>
  <2>1. Len(F) + 1 \in 1 .. Len(F) + 1 /\ Len(F) + 1 > Len(F)
    BY <1>2
  <2>2. QED
    BY <1>4, <2>1
<1>6. ASSUME NEW i \in 1 .. Len(F)
      PROVE  from[i] = IF F[i] = "%" /\ i < Len(F) /\ F[i + 1] \in I
                       THEN val[F[i + 1]] \o from[i + 2]
                       ELSE << F[i] >> \o from[i + 1]
  <2>1. i \in 1 .. Len(F) + 1 /\ ~ (i > Len(F))
    BY <1>2
  <2>2. from[i] = IF i < Len(F) /\ F[i] = "%" /\ F[i + 1] \in Range(Identifiers)
                  THEN Meant(F[i + 1]) \o from[i + 2]
                  ELSE << F[i] >> \o from[i + 1]
    BY <1>4, <2>1
  <2>3. QED
    BY <2>2
<1> HIDE DEF I
<1>7. Fills(F, I, val, from)
  BY <1>2, <1>5, <1>6, FillsUnfold
<1>8. QED
  BY <1>1, <1>7 DEF I, Filled

-----------------------------------------------------------------------------
(* The inductive invariant of generate_status: the buffer is the format    *)
(* with the fields of the passes so far put in at once.                    *)
Values == [x \in Range(Identifiers) |-> Value(x)]
PutSoFar(n) == {Identifiers[j] : j \in 1 .. n}

FilledInv ==
  /\ field \in 1 .. 10
  /\ IsText(request.format) /\ IsText(request.artist) /\ IsText(request.saved)
  /\ request.clock[1] \in Nat /\ request.clock[2] \in Int
  /\ Unambiguous => Filled(request.format, PutSoFar(field - 1), Values, status)

FieldsInv == TypedInv /\ (place = "fields" => FilledInv)

Alphabet ==
  UNION {Range(request.format), Range(request.artist), Range(request.saved), Range(text),
         {"|", "-", "album", "player", "duration", "elapsed", "note", "%"}, Range(Identifiers)}

(* The nine identifiers, all different and none a per cent sign.           *)
LEMMA IdentifiersAre ==
  /\ Len(Identifiers) = 9
  /\ Range(Identifiers) = {"p", "a", "t", "r", "d", "c", "b", "m", "s"}
  /\ Range(Identifiers) = PutSoFar(9)
  /\ "%" \notin Range(Identifiers)
  /\ \A j \in 1 .. 9 : Identifiers[j] \in Range(Identifiers)
  /\ \A j, k \in 1 .. 9 : Identifiers[j] = Identifiers[k] => j = k
<1>1. Len(Identifiers) = 9
  BY DEF Identifiers
<1>2. Identifiers \in Seq({"p", "a", "t", "r", "d", "c", "b", "m", "s"})
  BY DEF Identifiers
<1>3. Range(Identifiers) = PutSoFar(9)
  BY <1>1, <1>2, RangeEquality DEF PutSoFar
<1>4. PutSoFar(9) = {"p", "a", "t", "r", "d", "c", "b", "m", "s"}
  <2>1. \A j \in 1 .. 9 : j = 1 \/ j = 2 \/ j = 3 \/ j = 4 \/ j = 5 \/ j = 6 \/ j = 7
                          \/ j = 8 \/ j = 9
    OBVIOUS
  <2>2. 1 \in 1 .. 9 /\ 2 \in 1 .. 9 /\ 3 \in 1 .. 9 /\ 4 \in 1 .. 9 /\ 5 \in 1 .. 9
        /\ 6 \in 1 .. 9 /\ 7 \in 1 .. 9 /\ 8 \in 1 .. 9 /\ 9 \in 1 .. 9
    OBVIOUS
  <2>3. /\ Identifiers[1] = "p" /\ Identifiers[2] = "a" /\ Identifiers[3] = "t"
        /\ Identifiers[4] = "r" /\ Identifiers[5] = "d" /\ Identifiers[6] = "c"
        /\ Identifiers[7] = "b" /\ Identifiers[8] = "m" /\ Identifiers[9] = "s"
    BY DEF Identifiers
  <2>4. QED
    BY <2>1, <2>2, <2>3 DEF PutSoFar
<1>5. \A j, k \in 1 .. 9 : Identifiers[j] = Identifiers[k] => j = k
  BY DEF Identifiers
<1>6. \A j \in 1 .. 9 : Identifiers[j] \in PutSoFar(9)
  BY DEF PutSoFar
<1>7. "%" \notin PutSoFar(9)
  BY <1>4
<1>8. QED
  BY <1>1, <1>3, <1>4, <1>5, <1>6, <1>7

(* A text is over every set that holds its characters.                     *)
LEMMA TextOver ==
  ASSUME NEW t, IsText(t), NEW S, Range(t) \subseteq S
  PROVE  t \in Seq(S)
BY DEF IsText

(* What is put in is in the alphabet, and brings no per cent sign along.   *)
LEMMA ValuesTyped ==
  ASSUME TypedInv, FilledInv
  PROVE  /\ request.format \in Seq(Alphabet)
         /\ \A x \in Range(Identifiers) : Values[x] \in Seq(Alphabet) /\ Values[x] = Value(x)
<1>1. request.format \in Seq(Alphabet)
  <2>1. Range(request.format) \subseteq Alphabet
    BY DEF Alphabet
  <2>2. QED
    BY <2>1, TextOver DEF FilledInv
<1>2. request.artist \in Seq(Alphabet)
  <2>1. Range(request.artist) \subseteq Alphabet
    BY DEF Alphabet
  <2>2. QED
    BY <2>1, TextOver DEF FilledInv
<1>3. request.saved \in Seq(Alphabet)
  <2>1. Range(request.saved) \subseteq Alphabet
    BY DEF Alphabet
  <2>2. QED
    BY <2>1, TextOver DEF FilledInv
<1>4. text \in Seq(Alphabet)
  <2>1. Range(text) \subseteq Alphabet
    BY DEF Alphabet
  <2>2. QED
    BY <2>1, TextOver DEF TypedInv
<1>5. {"|", "-", "album", "player", "duration", "elapsed", "note"} \subseteq Alphabet
  BY DEF Alphabet
<1>6. Bar(request.clock) \in Seq(Alphabet)
  <2>1. "|" \in Alphabet /\ "-" \in Alphabet
    BY <1>5
  <2> HIDE DEF Alphabet
  <2>2. QED
    BY <2>1 DEF Bar
<1>7. \A w \in {"album", "player", "duration", "elapsed", "note"} : << w >> \in Seq(Alphabet)
  <2>1. \A w \in {"album", "player", "duration", "elapsed", "note"} : w \in Alphabet
    BY <1>5
  <2> HIDE DEF Alphabet
  <2>2. QED
    BY <2>1
<1>8. ASSUME NEW x \in {"p", "a", "t", "r", "d", "c", "b", "m", "s"}
      PROVE  Value(x) \in Seq(Alphabet)
  <2>1. CASE x = "p" BY <1>2, <2>1 DEF Value
  <2>2. CASE x = "t" BY <1>4, <2>2 DEF Value
  <2>3. CASE x = "b" BY <1>6, <2>3 DEF Value
  <2>4. CASE x = "s" BY <1>3, <2>4 DEF Value
  <2>5. CASE x = "a" BY <1>7, <2>5 DEF Value
  <2>6. CASE x = "r" BY <1>7, <2>6 DEF Value
  <2>7. CASE x = "d" BY <1>7, <2>7 DEF Value
  <2>8. CASE x = "c" BY <1>7, <2>8 DEF Value
  <2>9. CASE x = "m" BY <1>7, <2>9 DEF Value
  <2>10. QED
    BY <2>1, <2>2, <2>3, <2>4, <2>5, <2>6, <2>7, <2>8, <2>9
<1>9. \A x \in Range(Identifiers) : Value(x) \in Seq(Alphabet)
  BY <1>8, IdentifiersAre
<1>10. \A x \in Range(Identifiers) : Values[x] = Value(x)
  BY DEF Values
<1>11. QED
  BY <1>1, <1>9, <1>10

(* An unambiguous request allows the passes.                               *)
LEMMA UnambiguousPairs ==
  ASSUME TypedInv, FilledInv, Unambiguous
  PROVE  /\ Paired(request.format)
         /\ \A x \in Range(Identifiers) : \A i \in 1 .. Len(Values[x]) : Values[x][i] # "%"
<1>1. Paired(request.format)
  BY IdentifiersAre DEF Unambiguous, Paired
<1>2. ASSUME NEW x \in Range(Identifiers), NEW i \in 1 .. Len(Values[x])
      PROVE  Values[x][i] # "%"
  <2>1. Values[x] \in Seq(Alphabet) /\ "%" \notin Range(Values[x])
    BY ValuesTyped DEF Unambiguous
  <2> DEFINE w == Values[x]
  <2>2. w \in Seq(Alphabet) /\ "%" \notin Range(w) /\ i \in 1 .. Len(w)
    BY <2>1
  <2> HIDE DEF w
  <2>3. w[i] \in Range(w)
    BY <2>2, RangeEquality
  <2>4. QED
    BY <2>2, <2>3 DEF w
<1>3. QED
  BY <1>1, <1>2

(* A pass of generate_status keeps the invariant.                          *)
LEMMA PutsFieldFills ==
  ASSUME TypedInv, FilledInv, PutsField
  PROVE  FilledInv'
<1> DEFINE F == request.format
           id == Identifiers[field]
           I == PutSoFar(field - 1)
<1>1. /\ field \in 1 .. 9 /\ field' = field + 1 /\ field' - 1 = field /\ field' \in 1 .. 10
      /\ UNCHANGED << text, request >>
      /\ status' = put_field(status, id, Value(id))
  BY IdentifiersAre DEF PutsField, FilledInv
<1>2. Values' = Values
  BY <1>1 DEF Values, Value
<1>3. Unambiguous' = Unambiguous
  BY <1>1 DEF Unambiguous, Value
<1>4. /\ IsText(request.format)' /\ IsText(request.artist)' /\ IsText(request.saved)'
      /\ request'.clock[1] \in Nat /\ request'.clock[2] \in Int
  BY <1>1 DEF FilledInv, IsText
<1>5. ASSUME Unambiguous
      PROVE  Filled(F, PutSoFar(field), Values, status')
  <2>1. Filled(F, I, Values, status)
    BY <1>5 DEF FilledInv
  <2>2. id \in Range(Identifiers) /\ id # "%" /\ I \subseteq Range(Identifiers)
    BY <1>1, IdentifiersAre DEF PutSoFar
  <2>3. id \notin I
    BY <1>1, IdentifiersAre DEF PutSoFar
  <2>4. I \cup {id} = PutSoFar(field)
    <3>1. \A j \in 1 .. field : j \in 1 .. field - 1 \/ j = field
      BY <1>1
    <3>2. 1 .. field - 1 \subseteq 1 .. field /\ field \in 1 .. field
      BY <1>1
    <3>3. QED
      BY <3>1, <3>2 DEF PutSoFar
  <2>5. "%" \in Alphabet /\ id \in Alphabet
    BY <2>2 DEF Alphabet
  <2>6. /\ F \in Seq(Alphabet) /\ Paired(F)
        /\ \A x \in I \cup {id} : Values[x] \in Seq(Alphabet)
        /\ \A x \in I : \A i \in 1 .. Len(Values[x]) : Values[x][i] # "%"
    BY <1>5, <2>2, ValuesTyped, UnambiguousPairs
  <2>7. Values[id] = Value(id)
    BY <2>2, ValuesTyped
  <2> DEFINE S == Alphabet
             val == Values
  <2> HIDE DEF F, id, I, S, val
  <2>8. MayPut(S, F, I, id, val)
    BY <2>2, <2>3, <2>5, <2>6 DEF MayPut, S, val
  <2>9. Filled(F, I, val, status)
    BY <2>1 DEF val
  <2>10. Filled(F, I \cup {id}, val, put_field(status, id, val[id]))
    BY <2>8, <2>9, PassFills
  <2>11. QED
    BY <1>1, <2>4, <2>7, <2>10 DEF val
<1>6. Unambiguous' => Filled(request'.format, PutSoFar(field' - 1), Values', status')
  BY <1>1, <1>2, <1>3, <1>5
<1>7. QED
  BY <1>1, <1>4, <1>6 DEF FilledInv, PutSoFar

(* It holds when generate_status starts.                                   *)
LEMMA FirstFills ==
  ASSUME generate_status
  PROVE  FilledInv'
<1>1. PICK F \in Patterns, a \in Artists, s \in SavedTexts, c \in Clocks :
        /\ request' = [format |-> F, artist |-> a, saved |-> s, clock |-> c]
        /\ status' = F
  BY DEF generate_status
<1>2. field' = 1
  BY DEF generate_status
<1>3. IsText(F) /\ IsText(a) /\ IsText(s) /\ c[1] \in Nat /\ c[2] \in Int
  BY TextPathAssumption DEF IsText
<1>4. /\ request'.format = F /\ request'.artist = a /\ request'.saved = s
      /\ request'.clock = c
  BY <1>1
<1>5. PutSoFar(field - 1)' = {}
  BY <1>2 DEF PutSoFar
<1>6. Filled(F, {}, Values', F)
  BY <1>3, NothingFilled DEF IsText
<1>7. Filled(request.format, PutSoFar(field - 1), Values, status)'
  BY <1>1, <1>4, <1>5, <1>6
<1>8. QED
  BY <1>2, <1>3, <1>4, <1>7 DEF FilledInv, IsText

(* Every step keeps it.                                                    *)
LEMMA FieldsStep == FieldsInv /\ [Next]_vars => FieldsInv'
<1> SUFFICES ASSUME TypedInv, place = "fields" => FilledInv, [Next]_vars, TypedInv',
                    place' = "fields"
             PROVE  FilledInv'
  BY TypedStep DEF FieldsInv
<1>1. CASE generate_status
  BY <1>1, FirstFills
<1>2. CASE PutsField
  BY <1>2, PutsFieldFills DEF PutsField
<1>3. CASE UNCHANGED vars
  <2>1. FilledInv /\ UNCHANGED << text, request, status, field >>
    BY <1>3 DEF vars
  <2>2. Values' = Values /\ Unambiguous' = Unambiguous
    BY <2>1 DEF Values, Unambiguous, Value
  <2>3. QED
    BY <2>1, <2>2 DEF FilledInv, PutSoFar, IsText
<1>4. ~ (Trim \/ FilterPrintable \/ filter_profanity \/ FilterIsOff \/ ExitsOnPattern
         \/ MasksWord \/ NextWord \/ LastWord)
  BY DEF Trim, FilterPrintable, filter_profanity, FilterIsOff, ExitsOnPattern, MasksWord,
         NextWord, LastWord, AtWord
<1>5. QED
  BY <1>1, <1>2, <1>3, <1>4 DEF Next

(* For all formats, values and positions, the nine passes give what one    *)
(* replacement of all fields would (FieldsInPlace).                        *)
THEOREM NinePassesAreOne == Spec => []FieldsInPlace
<1>1. FieldsInv => FieldsInPlace
  <2> SUFFICES ASSUME TypedInv, FilledInv, field > Len(Identifiers), Unambiguous,
                      request.clock[2] >= 0 \/ request.clock[1] = 0
               PROVE  status = Replaced(request.format)
    BY DEF FieldsInv, FieldsInPlace
  <2> DEFINE F == request.format
             I == Range(Identifiers)
  <2>1. field = 10 /\ field - 1 = 9 /\ PutSoFar(field - 1) = I
    BY IdentifiersAre DEF FilledInv
  <2>2. Filled(F, I, Values, status)
    BY <2>1 DEF FilledInv
  <2>3. F \in Seq(Alphabet)
    BY ValuesTyped
  <2>4. ASSUME NEW x \in I PROVE Values[x] \in Seq(Alphabet) /\ Meant(x) = Values[x]
    <3>1. Values[x] \in Seq(Alphabet) /\ Values[x] = Value(x)
      BY ValuesTyped
    <3>2. CASE x = "b"
      <4>1. Value(x) = Bar(request.clock)
        BY <3>2 DEF Value
      <4>2. Meant(x) = Bar(request.clock)
        BY <3>2, BarMark DEF Meant, FilledInv
      <4>3. QED
        BY <3>1, <4>1, <4>2
    <3>3. CASE x # "b"
      BY <3>1, <3>3 DEF Meant
    <3>4. QED
      BY <3>2, <3>3
  <2>5. Filled(F, I, Values, Replaced(F))
    <3> HIDE DEF F
    <3>1. QED
      BY <2>3, <2>4, ReplacedFills
  <2> HIDE DEF F, I
  <2>6. status = Replaced(F)
    BY <2>2, <2>3, <2>5, FilledUnique
  <2>7. QED
    BY <2>6 DEF F
<1>2. Init => FieldsInv
  BY TypedInit DEF FieldsInv, Init
<1>3. QED
  BY <1>1, <1>2, FieldsStep, PTL DEF Spec
=============================================================================
