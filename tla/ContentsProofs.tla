--------------------------- MODULE ContentsProofs ---------------------------
(***************************************************************************)
(* What an upgrade makes of the contents of a pod, for any templates,      *)
(* calls and pods: it keeps what belongs to the workspace, its result can  *)
(* be upgraded in turn, and doing it again changes nothing.                *)
(*                                                                         *)
(* Put, the step of all merges in Contents, is applied along a sequence.   *)
(* PutResult says what comes out, by induction over prefixes (UpTo), and   *)
(* PutBack that putting the outcome once more gives the outcome.  The      *)
(* environment is the hard part: the template has variables of its own,    *)
(* the old values come as context and then the old entries are put, some   *)
(* of which have no value but refer to a secret.  RegularEnv is what makes *)
(* this come out right, holds of spawned pods and is kept by upgrades.     *)
(***************************************************************************)
EXTENDS Contents, SequenceTheorems, WellFoundedInduction, TLAPS

-----------------------------------------------------------------------------
(* Numbers *)

\* Numbers have a least element, and below a bound a largest one.
LEMMA LeastIndex ==
    ASSUME NEW S \in SUBSET Nat, S # {}
    PROVE  \E m \in S : \A x \in S : m <= x
<1> DEFINE less == {p \in Nat \X Nat : p[1] < p[2]}
<1>1. IsWellFoundedOn(less, Nat)
  BY NatLessThanWellFounded DEF OpToRel
<1>2. PICK m \in S : \A x \in S : <<x, m>> \notin less
  <2> HIDE DEF less
  <2> QED
    BY <1>1, WFMin
<1>3. ASSUME NEW x \in S PROVE m <= x
  <2>1. ~(x < m)
    BY <1>2
  <2> QED
    BY <2>1
<1> QED
  BY <1>2, <1>3

\* Induction up to a bound: a set of numbers that has each one if it has those before it.
LEMMA UpTo ==
    ASSUME NEW n \in Nat, NEW S,
           0 \in S,
           \A i \in 1..n : i - 1 \in S => i \in S
    PROVE  0..n \subseteq S
<1> SUFFICES ASSUME (0..n) \ S # {} PROVE FALSE
  OBVIOUS
<1> DEFINE T == (0..n) \ S
<1>1. PICK m \in T : \A x \in T : m <= x
  <2>1. T \in SUBSET Nat /\ T # {}
    OBVIOUS
  <2> HIDE DEF T
  <2> QED
    BY <2>1, LeastIndex
<1>2. m \in 1..n /\ m - 1 \in 0..n
  BY <1>1
<1>3. m - 1 \in S
  BY <1>1, <1>2
<1> QED
  BY <1>1, <1>2, <1>3

LEMMA LastIndex ==
    ASSUME NEW n \in Nat, NEW S \in SUBSET (1..n), S # {}
    PROVE  \E m \in S : \A x \in S : x <= m
<1> DEFINE Gaps == {n - x : x \in S}
<1>1. Gaps \in SUBSET Nat /\ Gaps # {}
  <2>1. \A x \in S : n - x \in Nat
    OBVIOUS
  <2> QED
    BY <2>1
<1>2. PICK g \in Gaps : \A h \in Gaps : g <= h
  <2> HIDE DEF Gaps
  <2> QED
    BY <1>1, LeastIndex
<1>3. PICK m \in S : g = n - m
  BY <1>2
<1>4. ASSUME NEW x \in S PROVE x <= m
  <2>1. g <= n - x
    BY <1>2
  <2> QED
    BY <1>3, <2>1
<1> QED
  BY <1>3, <1>4

-----------------------------------------------------------------------------
(* Elements with a name *)

IsSeq(s) == s \in Seq({s[i] : i \in DOMAIN s})

NamedOnce(seq) == \A i, j \in DOMAIN seq : seq[i].name = seq[j].name => i = j

\* The first element of its name.
FirstAt(seq, i) == i \in DOMAIN seq /\ \A j \in 1..(i - 1) : seq[j].name # seq[i].name

LEMMA SeqFacts ==
    ASSUME NEW s, IsSeq(s)
    PROVE  Len(s) \in Nat /\ DOMAIN s = 1..Len(s)
BY DEF IsSeq

\* The Min of the community modules is the least element.
LEMMA MinFact ==
    ASSUME NEW S \in SUBSET Nat, S # {}
    PROVE  Seqs!Min(S) \in S /\ \A x \in S : Seqs!Min(S) <= x
<1>1. \E m \in S : \A x \in S : m <= x
  BY LeastIndex
<1> QED
  BY <1>1 DEF Seqs!Min

\* What Put does: the first element of the name is replaced, or the element is appended.
PutReplaces(seq, e, i, r) ==
    /\ FirstAt(seq, i) /\ seq[i].name = e.name
    /\ r = [seq EXCEPT ![i] = e]

PutAppends(seq, e, r) ==
    /\ \A i \in DOMAIN seq : seq[i].name # e.name
    /\ r = Append(seq, e)

\* One of the two happens.
LEMMA PutCases ==
    ASSUME NEW seq, IsSeq(seq), NEW e
    PROVE  \/ PutAppends(seq, e, Put(seq, e))
           \/ \E i \in DOMAIN seq : PutReplaces(seq, e, i, Put(seq, e))
<1> DEFINE I == {i \in 1..Len(seq) : seq[i].name = e.name}
           at == Seqs!SelectInSeq(seq, LAMBDA x : x.name = e.name)
<1>1. Len(seq) \in Nat /\ DOMAIN seq = 1..Len(seq)
  BY SeqFacts
<1>2. at = IF I # {} THEN Seqs!Min(I) ELSE 0
  BY DEF Seqs!SelectInSeq
<1>3. Put(seq, e) = IF at = 0 THEN Append(seq, e) ELSE [seq EXCEPT ![at] = e]
  BY DEF Put, Seqs!ReplaceAt
<1>4. CASE I = {}
  BY <1>1, <1>2, <1>3, <1>4 DEF PutAppends
<1>5. CASE I # {}
  <2> DEFINE m == Seqs!Min(I)
  <2>1. m \in I /\ \A x \in I : m <= x
    <3>1. I \in SUBSET Nat
      BY <1>1
    <3> HIDE DEF I
    <3> QED
      BY <1>5, <3>1, MinFact
  <2> HIDE DEF m
  <2>2. m \in DOMAIN seq /\ seq[m].name = e.name /\ \A j \in 1..(m - 1) : seq[j].name # e.name
    BY <1>1, <2>1
  <2> HIDE DEF at, I
  <2>3. at = m /\ m # 0
    BY <1>1, <1>2, <1>5, <2>2 DEF m
  <2>4. PutReplaces(seq, e, m, Put(seq, e))
    BY <1>3, <2>2, <2>3 DEF PutReplaces, FirstAt
  <2> QED
    BY <2>2, <2>4
<1> QED
  BY <1>4, <1>5

-----------------------------------------------------------------------------
(* Putting several elements *)

PutStep(seq, overrides, taken, i) ==
    IF i \in taken THEN Put(seq, overrides[i]) ELSE seq

\* PutSome is computed step by step.
LEMMA PutSteps ==
    ASSUME NEW base, NEW overrides, Len(overrides) \in Nat, NEW taken
    PROVE  \E done :
              /\ done[0] = base
              /\ \A i \in 1..Len(overrides) :
                    done[i] = PutStep(done[i - 1], overrides, taken, i)
              /\ PutSome(base, overrides, taken) = done[Len(overrides)]
<1> DEFINE n == Len(overrides)
           Run(f, p) == f = [i \in 0..p |-> IF i = 0 THEN base
                                            ELSE PutStep(f[i - 1], overrides, taken, i)]
           S == {p \in 0..n : \E f : Run(f, p)}
<1>1. 0 \in S
  <2> DEFINE f == [i \in 0..0 |-> base]
  <2>1. Run(f, 0)
    OBVIOUS
  <2> HIDE DEF Run, f
  <2> QED
    BY <2>1
<1>2. ASSUME NEW p \in 1..n, p - 1 \in S PROVE p \in S
  <2>1. PICK f : Run(f, p - 1)
    BY <1>2
  <2> DEFINE g == [i \in 0..p |-> IF i = p THEN PutStep(f[p - 1], overrides, taken, p) ELSE f[i]]
  <2>2. \A i \in 0..p : g[i] = IF i = 0 THEN base ELSE PutStep(g[i - 1], overrides, taken, i)
    <3>1. ASSUME NEW i \in 0..p
          PROVE  g[i] = IF i = 0 THEN base ELSE PutStep(g[i - 1], overrides, taken, i)
      <4>1. CASE i = p
        <5>1. g[p] = PutStep(f[p - 1], overrides, taken, p) /\ g[p - 1] = f[p - 1]
          OBVIOUS
        <5> QED
          BY <4>1, <5>1
      <4>2. CASE i # p /\ i # 0
        <5>1. g[i] = f[i] /\ g[i - 1] = f[i - 1] /\ i \in 0..(p - 1)
          BY <4>2
        <5> QED
          BY <2>1, <4>2, <5>1
      <4>3. CASE i = 0
        <5>1. g[i] = f[i] /\ i \in 0..(p - 1)
          BY <4>3
        <5> QED
          BY <2>1, <4>3, <5>1
      <4> QED
        BY <4>1, <4>2, <4>3
    <3> QED
      BY <3>1
  <2>3. Run(g, p)
    <3> DEFINE h == [i \in 0..p |-> IF i = 0 THEN base ELSE PutStep(g[i - 1], overrides, taken, i)]
    <3>1. \A i \in 0..p : g[i] = h[i]
      BY <2>2
    <3>2. g = h
      BY <3>1
    <3> QED
      BY <3>2
  <2> HIDE DEF Run, g
  <2> QED
    BY <2>3
<1>3. n \in S
  <2>1. 0..n \subseteq S
    <3> HIDE DEF S
    <3> QED
      BY <1>1, <1>2, UpTo
  <2> HIDE DEF S
  <2> QED
    BY <2>1
<1>4. PutSome(base, overrides, taken) = (CHOOSE f : Run(f, n))[n]
  BY DEF PutSome, PutStep
<1>5. PICK f : f = (CHOOSE g : Run(g, n)) /\ Run(f, n)
  <2> HIDE DEF Run
  <2> QED
    BY <1>3
<1>6. f[0] = base /\ \A i \in 1..n : f[i] = PutStep(f[i - 1], overrides, taken, i)
  BY <1>5
<1>7. PutSome(base, overrides, taken) = f[n]
  BY <1>4, <1>5
<1> QED
  BY <1>6, <1>7

LEMMA SeqTyped ==
    ASSUME NEW S, NEW s \in Seq(S)
    PROVE  IsSeq(s)
<1> DEFINE T == {s[i] : i \in DOMAIN s}
<1>1. Len(s) \in Nat /\ DOMAIN s = 1..Len(s) /\ s \in [1..Len(s) -> S]
  OBVIOUS
<1>2. s \in [1..Len(s) -> T]
  BY <1>1
<1>3. s \in Seq(T)
  <2> HIDE DEF T
  <2> QED
    BY <1>1, <1>2
<1> QED
  BY <1>3 DEF IsSeq

LEMMA AppendFacts ==
    ASSUME NEW s, IsSeq(s), NEW e
    PROVE  /\ IsSeq(Append(s, e)) /\ Len(Append(s, e)) = Len(s) + 1
           /\ \A i \in 1..Len(s) : Append(s, e)[i] = s[i]
           /\ Append(s, e)[Len(s) + 1] = e
<1> DEFINE T == {s[i] : i \in DOMAIN s}
<1>1. s \in Seq(T \cup {e})
  BY DEF IsSeq
<1>2. Append(s, e) \in Seq(T \cup {e})
  BY <1>1
<1>3. IsSeq(Append(s, e))
  <2> HIDE DEF T
  <2> QED
    BY <1>2, SeqTyped
<1> QED
  BY <1>1, <1>3

LEMMA ReplaceFacts ==
    ASSUME NEW s, IsSeq(s), NEW m \in DOMAIN s, NEW e
    PROVE  LET r == [s EXCEPT ![m] = e]
           IN  /\ IsSeq(r) /\ Len(r) = Len(s)
               /\ \A i \in 1..Len(s) : r[i] = IF i = m THEN e ELSE s[i]
<1> DEFINE T == {s[i] : i \in DOMAIN s}
           r == [s EXCEPT ![m] = e]
<1>1. s \in Seq(T \cup {e}) /\ m \in 1..Len(s) /\ Len(s) \in Nat /\ DOMAIN s = 1..Len(s)
  BY DEF IsSeq
<1>2. r \in [1..Len(s) -> T \cup {e}]
  BY <1>1
<1>3. r \in Seq(T \cup {e}) /\ Len(r) = Len(s)
  BY <1>1, <1>2
<1>4. IsSeq(r)
  <2> HIDE DEF T, r
  <2> QED
    BY <1>3, SeqTyped
<1> QED
  BY <1>1, <1>3, <1>4

-----------------------------------------------------------------------------
\* What r is after the overrides in put have been put into base:
\* the elements of base keep their places,
PlacesKept(base, r) ==
    /\ IsSeq(base) /\ IsSeq(r) /\ Len(base) <= Len(r)
    /\ \A p \in 1..Len(base) : r[p].name = base[p].name

\* no element is put behind another of its name,
NothingBehind(base, r) ==
    \A p, q \in 1..Len(r) :
        p < q /\ r[p].name = r[q].name => q <= Len(base) /\ r[q] = base[q]

\* elements that no override has the name of are those of base,
OthersKept(base, overrides, put, r) ==
    \A p \in 1..Len(r) :
        (\A j \in put : overrides[j].name # r[p].name) => p <= Len(base) /\ r[p] = base[p]

\* and the last override of a name is the first element of that name.
LastPut(overrides, put, r) ==
    \A j \in put :
        (\A k \in put : overrides[k].name = overrides[j].name => k <= j) =>
            \E p \in DOMAIN r : FirstAt(r, p) /\ r[p] = overrides[j]

Result(base, overrides, put, r) ==
    /\ PlacesKept(base, r)
    /\ NothingBehind(base, r)
    /\ OthersKept(base, overrides, put, r)
    /\ LastPut(overrides, put, r)

\* The three cases of the induction: nothing put so far, an element appended, one replaced.
LEMMA NothingPut ==
    ASSUME NEW base, IsSeq(base), NEW overrides
    PROVE  Result(base, overrides, {}, base)
<1>1. Len(base) \in Nat /\ DOMAIN base = 1..Len(base)
  BY SeqFacts
<1> QED
  BY <1>1 DEF Result, PlacesKept, NothingBehind, OthersKept, LastPut

LEMMA AppendedPut ==
    ASSUME NEW base, NEW overrides, NEW put, NEW r, NEW j \in Nat,
           put \subseteq 0..(j - 1),
           Result(base, overrides, put, r),
           \A p \in DOMAIN r : r[p].name # overrides[j].name
    PROVE  Result(base, overrides, put \cup {j}, Append(r, overrides[j]))
<1> DEFINE e == overrides[j]
<1>1. /\ Len(base) \in Nat /\ DOMAIN base = 1..Len(base)
      /\ Len(r) \in Nat /\ DOMAIN r = 1..Len(r) /\ IsSeq(r) /\ Len(base) <= Len(r)
  BY SeqFacts DEF Result, PlacesKept
<1> DEFINE s == Append(r, e)
<1>2. /\ IsSeq(s) /\ Len(s) = Len(r) + 1 /\ DOMAIN s = 1..Len(s)
      /\ \A i \in 1..Len(r) : s[i] = r[i]
      /\ s[Len(r) + 1] = e
  <2>1. /\ IsSeq(s) /\ Len(s) = Len(r) + 1 /\ \A i \in 1..Len(r) : s[i] = r[i]
        /\ s[Len(r) + 1] = e
    BY <1>1, AppendFacts
  <2> QED
    BY <2>1, SeqFacts
<1> HIDE DEF s
<1>3. PlacesKept(base, s)
  BY <1>1, <1>2 DEF Result, PlacesKept
<1>4. NothingBehind(base, s)
  <2> SUFFICES ASSUME NEW p \in 1..Len(s), NEW q \in 1..Len(s), p < q, s[p].name = s[q].name
               PROVE  q <= Len(base) /\ s[q] = base[q]
    BY DEF NothingBehind
  <2>1. p \in 1..Len(r) /\ s[p] = r[p] /\ r[p].name # e.name
    BY <1>1, <1>2
  <2>2. q \in 1..Len(r) /\ s[q] = r[q]
    BY <1>1, <1>2, <2>1
  <2> QED
    BY <2>1, <2>2 DEF Result, NothingBehind
<1>5. OthersKept(base, overrides, put \cup {j}, s)
  <2> SUFFICES ASSUME NEW p \in 1..Len(s), \A k \in put \cup {j} : overrides[k].name # s[p].name
               PROVE  p <= Len(base) /\ s[p] = base[p]
    BY DEF OthersKept
  <2>1. p \in 1..Len(r) /\ s[p] = r[p]
    BY <1>1, <1>2
  <2> QED
    BY <2>1 DEF Result, OthersKept
<1>6. LastPut(overrides, put \cup {j}, s)
  <2> SUFFICES ASSUME NEW i \in put \cup {j},
                      \A k \in put \cup {j} : overrides[k].name = overrides[i].name => k <= i
               PROVE  \E p \in DOMAIN s : FirstAt(s, p) /\ s[p] = overrides[i]
    BY DEF LastPut
  <2>1. CASE i = j
    <3>1. FirstAt(s, Len(r) + 1)
      BY <1>1, <1>2 DEF FirstAt
    <3> QED
      BY <1>2, <2>1, <3>1 DEF FirstAt
  <2>2. CASE i # j
    <3>1. PICK p \in DOMAIN r : FirstAt(r, p) /\ r[p] = overrides[i]
      BY <2>2 DEF Result, LastPut
    <3>2. FirstAt(s, p) /\ s[p] = overrides[i]
      BY <1>1, <1>2, <3>1 DEF FirstAt
    <3> QED
      BY <3>2 DEF FirstAt
  <2> QED
    BY <2>1, <2>2
<1> QED
  BY <1>3, <1>4, <1>5, <1>6 DEF Result, s

LEMMA ReplacedPut ==
    ASSUME NEW base, NEW overrides, NEW put, NEW r, NEW j \in Nat,
           put \subseteq 0..(j - 1),
           Result(base, overrides, put, r),
           NEW m, FirstAt(r, m), r[m].name = overrides[j].name
    PROVE  Result(base, overrides, put \cup {j}, [r EXCEPT ![m] = overrides[j]])
<1> DEFINE e == overrides[j]
<1>1. /\ Len(base) \in Nat /\ DOMAIN base = 1..Len(base)
      /\ Len(r) \in Nat /\ DOMAIN r = 1..Len(r) /\ IsSeq(r) /\ Len(base) <= Len(r)
  BY SeqFacts DEF Result, PlacesKept
<1> DEFINE s == [r EXCEPT ![m] = e]
<1>2. /\ IsSeq(s) /\ Len(s) = Len(r) /\ DOMAIN s = 1..Len(s)
      /\ \A i \in 1..Len(r) : i # m => s[i] = r[i]
      /\ m \in 1..Len(r) /\ s[m] = e
  <2>1. IsSeq(s) /\ Len(s) = Len(r) /\ \A i \in 1..Len(r) : s[i] = IF i = m THEN e ELSE r[i]
    BY <1>1, ReplaceFacts DEF FirstAt
  <2>2. m \in 1..Len(r)
    BY <1>1 DEF FirstAt
  <2> QED
    BY <2>1, <2>2, SeqFacts
<1>3. \A i \in 1..Len(r) : s[i].name = r[i].name
  BY <1>1, <1>2
<1> HIDE DEF s
<1>4. PlacesKept(base, s)
  BY <1>1, <1>2, <1>3 DEF Result, PlacesKept
<1>5. NothingBehind(base, s)
  <2> SUFFICES ASSUME NEW p \in 1..Len(s), NEW q \in 1..Len(s), p < q, s[p].name = s[q].name
               PROVE  q <= Len(base) /\ s[q] = base[q]
    BY DEF NothingBehind
  <2>1. r[p].name = r[q].name
    BY <1>2, <1>3
  <2>2. q <= Len(base) /\ r[q] = base[q]
    BY <1>2, <2>1 DEF Result, NothingBehind
  <2>3. q # m
    BY <1>1, <1>2, <2>1 DEF FirstAt
  <2> QED
    BY <1>2, <2>2, <2>3
<1>6. OthersKept(base, overrides, put \cup {j}, s)
  <2> SUFFICES ASSUME NEW p \in 1..Len(s), \A k \in put \cup {j} : overrides[k].name # s[p].name
               PROVE  p <= Len(base) /\ s[p] = base[p]
    BY DEF OthersKept
  <2>1. p \in 1..Len(r) /\ p # m
    BY <1>2
  <2>2. s[p] = r[p]
    BY <1>2, <2>1
  <2> QED
    BY <2>1, <2>2 DEF Result, OthersKept
<1>7. LastPut(overrides, put \cup {j}, s)
  <2> SUFFICES ASSUME NEW i \in put \cup {j},
                      \A k \in put \cup {j} : overrides[k].name = overrides[i].name => k <= i
               PROVE  \E p \in DOMAIN s : FirstAt(s, p) /\ s[p] = overrides[i]
    BY DEF LastPut
  <2>1. CASE i = j
    <3>1. FirstAt(s, m)
      BY <1>1, <1>2, <1>3 DEF FirstAt
    <3> QED
      BY <1>2, <2>1, <3>1
  <2>2. CASE i # j
    <3>1. PICK p \in DOMAIN r : FirstAt(r, p) /\ r[p] = overrides[i]
      BY <2>2 DEF Result, LastPut
    <3>2. p # m
      <4> SUFFICES ASSUME p = m PROVE FALSE
        OBVIOUS
      <4>1. overrides[i].name = overrides[j].name
        BY <3>1
      <4>2. j <= i
        BY <4>1
      <4> QED
        BY <2>2, <4>2
    <3>3. FirstAt(s, p) /\ s[p] = overrides[i]
      BY <1>1, <1>2, <1>3, <3>1, <3>2 DEF FirstAt
    <3> QED
      BY <3>3 DEF FirstAt
  <2> QED
    BY <2>1, <2>2
<1> QED
  BY <1>4, <1>5, <1>6, <1>7 DEF Result, s

\* What comes out when the overrides in taken are put into base.
LEMMA PutResult ==
    ASSUME NEW base, IsSeq(base), NEW overrides, IsSeq(overrides),
           NEW taken, taken \subseteq DOMAIN overrides
    PROVE  Result(base, overrides, taken, PutSome(base, overrides, taken))
<1> DEFINE n == Len(overrides)
<1>1. n \in Nat /\ DOMAIN overrides = 1..n
  BY SeqFacts
<1>2. PICK done : /\ done[0] = base
                  /\ \A i \in 1..n : done[i] = PutStep(done[i - 1], overrides, taken, i)
                  /\ PutSome(base, overrides, taken) = done[n]
  BY <1>1, PutSteps
<1> DEFINE first(i) == {j \in taken : j <= i}
           S == {i \in 0..n : Result(base, overrides, first(i), done[i])}
<1>3. 0 \in S
  <2>1. first(0) = {}
    BY <1>1
  <2>2. Result(base, overrides, first(0), done[0])
    BY <1>2, <2>1, NothingPut
  <2> QED
    BY <1>1, <2>2
<1>4. ASSUME NEW i \in 1..n, i - 1 \in S PROVE i \in S
  <2> DEFINE r == done[i - 1]
  <2>1. Result(base, overrides, first(i - 1), r) /\ IsSeq(r)
    BY <1>4 DEF Result, PlacesKept
  <2> SUFFICES Result(base, overrides, first(i), done[i])
    <3> HIDE DEF r, first
    <3> QED
      OBVIOUS
  <2>2. CASE i \notin taken
    <3>1. first(i) = first(i - 1)
      BY <1>1, <2>2
    <3>2. done[i] = r
      BY <1>2, <2>2 DEF PutStep
    <3> QED
      BY <2>1, <3>1, <3>2
  <2>3. CASE i \in taken
    <3>1. first(i) = first(i - 1) \cup {i} /\ first(i - 1) \subseteq 0..(i - 1) /\ i \in Nat
      BY <1>1, <2>3
    <3>2. done[i] = Put(r, overrides[i])
      BY <1>2, <2>3 DEF PutStep
    <3> HIDE DEF r, first
    <3>3. Result(base, overrides, first(i), Put(r, overrides[i]))
      <4>1. CASE PutAppends(r, overrides[i], Put(r, overrides[i]))
        <5>1. Result(base, overrides, first(i - 1) \cup {i}, Append(r, overrides[i]))
          BY <2>1, <3>1, <4>1, AppendedPut DEF PutAppends
        <5> QED
          BY <3>1, <4>1, <5>1 DEF PutAppends
      <4>2. ASSUME NEW m \in DOMAIN r, PutReplaces(r, overrides[i], m, Put(r, overrides[i]))
            PROVE  Result(base, overrides, first(i), Put(r, overrides[i]))
        <5>1. Result(base, overrides, first(i - 1) \cup {i}, [r EXCEPT ![m] = overrides[i]])
          BY <2>1, <3>1, <4>2, ReplacedPut DEF PutReplaces
        <5> QED
          BY <3>1, <4>2, <5>1 DEF PutReplaces
      <4> QED
        BY <2>1, <4>1, <4>2, PutCases
    <3> QED
      BY <3>2, <3>3
  <2> QED
    BY <2>2, <2>3
<1>5. n \in S
  <2>1. 0..n \subseteq S
    <3> HIDE DEF S
    <3> QED
      BY <1>1, <1>3, <1>4, UpTo
  <2> HIDE DEF S
  <2> QED
    BY <1>1, <2>1
<1>6. first(n) = taken
  BY <1>1
<1> QED
  BY <1>2, <1>5, <1>6

-----------------------------------------------------------------------------
(* Putting once more what has been put *)

LEMMA SameSeq ==
    ASSUME NEW s, IsSeq(s), NEW t, IsSeq(t), Len(s) = Len(t), \A i \in 1..Len(s) : s[i] = t[i]
    PROVE  s = t
<1> DEFINE T == {s[i] : i \in DOMAIN s} \cup {t[i] : i \in DOMAIN t}
<1>1. s \in Seq(T) /\ t \in Seq(T)
  BY DEF IsSeq
<1> HIDE DEF T
<1> QED
  BY <1>1

\* The first elements of new are named as those of base; where new differs from base, its
\* elements are put, in order, so that each takes its own place.
LEMMA PutBack ==
    ASSUME NEW base, NEW new, PlacesKept(base, new), NEW taken, taken \subseteq DOMAIN new,
           \A p \in 1..Len(new) : p \notin taken => p <= Len(base) /\ new[p] = base[p],
           \A p \in taken : FirstAt(new, p)
    PROVE  PutSome(base, new, taken) = new
<1> DEFINE n == Len(new)
           m == Len(base)
<1>1. /\ n \in Nat /\ DOMAIN new = 1..n /\ m \in Nat /\ DOMAIN base = 1..m /\ m <= n
      /\ IsSeq(new) /\ IsSeq(base) /\ \A p \in 1..m : new[p].name = base[p].name
  BY SeqFacts DEF PlacesKept
<1>2. PICK done : /\ done[0] = base
                  /\ \A i \in 1..n : done[i] = PutStep(done[i - 1], new, taken, i)
                  /\ PutSome(base, new, taken) = done[n]
  BY <1>1, PutSteps
<1> DEFINE Partly(r, i) == /\ IsSeq(r) /\ Len(r) = IF i <= m THEN m ELSE i
                           /\ \A j \in 1..Len(r) : r[j] = IF j <= i THEN new[j] ELSE base[j]
           S == {i \in 0..n : Partly(done[i], i)}
<1>3. 0 \in S
  BY <1>1, <1>2
<1>4. ASSUME NEW i \in 1..n, i - 1 \in S PROVE i \in S
  <2> DEFINE r == done[i - 1]
  <2>1. /\ IsSeq(r) /\ Len(r) \in Nat /\ DOMAIN r = 1..Len(r)
        /\ Len(r) = IF i - 1 <= m THEN m ELSE i - 1
        /\ \A j \in 1..Len(r) : r[j] = IF j <= i - 1 THEN new[j] ELSE base[j]
    BY <1>4, SeqFacts
  <2> HIDE DEF r
  <2>2. \A j \in 1..Len(r) : r[j].name = new[j].name
    BY <1>1, <2>1
  <2>3. Partly(done[i], i)
    <3>1. CASE i \notin taken
      <4>1. done[i] = r /\ i <= m /\ new[i] = base[i]
        BY <1>1, <1>2, <3>1 DEF PutStep, r
      <4> QED
        BY <1>1, <2>1, <4>1
    <3>2. CASE i \in taken
      <4>1. done[i] = Put(r, new[i]) /\ FirstAt(new, i)
        BY <1>2, <3>2 DEF PutStep, r
      <4>2. CASE PutAppends(r, new[i], Put(r, new[i]))
        <5>1. i > Len(r)
          BY <1>1, <2>1, <2>2, <4>2 DEF PutAppends
        <5>2. Len(r) = i - 1 /\ i > m
          BY <1>1, <2>1, <5>1
        <5> DEFINE s == Append(r, new[i])
        <5>3. IsSeq(s) /\ Len(s) = i /\ (\A j \in 1..Len(r) : s[j] = r[j]) /\ s[i] = new[i]
          BY <2>1, <5>2, AppendFacts
        <5> HIDE DEF s
        <5>4. ASSUME NEW j \in 1..i PROVE s[j] = new[j]
          <6>1. CASE j = i
            BY <5>3, <6>1
          <6>2. CASE j # i
            <7>1. j \in 1..Len(r) /\ j <= i - 1
              BY <5>2, <6>2
            <7> QED
              BY <2>1, <5>3, <7>1
          <6> QED
            BY <6>1, <6>2
        <5>5. Partly(s, i)
          <6>1. Len(s) = IF i <= m THEN m ELSE i
            BY <1>1, <5>2, <5>3
          <6>2. \A j \in 1..Len(s) : s[j] = IF j <= i THEN new[j] ELSE base[j]
            BY <5>3, <5>4
          <6> QED
            BY <5>3, <6>1, <6>2
        <5> QED
          BY <4>1, <4>2, <5>5 DEF PutAppends, s
      <4>3. ASSUME NEW k \in DOMAIN r, PutReplaces(r, new[i], k, Put(r, new[i]))
            PROVE  Partly(done[i], i)
        <5>1. k = i
          <6>1. r[k].name = new[i].name /\ new[k].name = new[i].name /\ k \in 1..n
            BY <1>1, <2>1, <2>2, <4>3 DEF PutReplaces
          <6>2. ~(k < i)
            BY <4>1, <6>1 DEF FirstAt
          <6>3. ~(i < k)
            <7> SUFFICES ASSUME i < k PROVE FALSE
              OBVIOUS
            <7>1. i \in 1..(k - 1) /\ i \in 1..Len(r)
              BY <2>1
            <7>2. r[i].name # r[k].name
              BY <4>3, <7>1 DEF PutReplaces, FirstAt
            <7> QED
              BY <2>2, <6>1, <7>1, <7>2
          <6> QED
            BY <6>1, <6>2, <6>3
        <5> DEFINE s == [r EXCEPT ![i] = new[i]]
        <5>2. IsSeq(s) /\ Len(s) = Len(r)
              /\ \A j \in 1..Len(r) : s[j] = IF j = i THEN new[i] ELSE r[j]
          BY <2>1, <5>1, ReplaceFacts
        <5> HIDE DEF s
        <5>3. i <= Len(r) /\ Len(r) = m /\ i <= m
          BY <1>1, <2>1, <5>1
        <5>4. Partly(s, i)
          BY <1>1, <2>1, <5>2, <5>3
        <5> QED
          BY <4>1, <4>3, <5>1, <5>4 DEF PutReplaces, s
      <4> QED
        BY <2>1, <4>2, <4>3, PutCases
    <3> QED
      BY <3>1, <3>2
  <2> HIDE DEF Partly
  <2> QED
    BY <2>3
<1>5. n \in S
  <2>1. 0..n \subseteq S
    <3> HIDE DEF S
    <3> QED
      BY <1>1, <1>3, <1>4, UpTo
  <2> HIDE DEF S
  <2> QED
    BY <1>1, <2>1
<1>6. IsSeq(done[n]) /\ Len(done[n]) = n /\ \A j \in 1..n : done[n][j] = new[j]
  BY <1>1, <1>5
<1> QED
  BY <1>1, <1>2, <1>6, SameSeq

\* The result of putting elements has no two of one name if base has none.
LEMMA ResultNamedOnce ==
    ASSUME NEW base, NEW overrides, NEW put, NEW r, Result(base, overrides, put, r),
           NamedOnce(base)
    PROVE  NamedOnce(r)
<1>1. /\ Len(base) \in Nat /\ DOMAIN base = 1..Len(base) /\ Len(r) \in Nat
      /\ DOMAIN r = 1..Len(r) /\ Len(base) <= Len(r)
      /\ \A p \in 1..Len(base) : r[p].name = base[p].name
  BY SeqFacts DEF Result, PlacesKept
<1>2. ASSUME NEW p \in 1..Len(r), NEW q \in 1..Len(r), p < q PROVE r[p].name # r[q].name
  <2> SUFFICES ASSUME r[p].name = r[q].name PROVE FALSE
    OBVIOUS
  <2>1. q <= Len(base)
    BY <1>2 DEF Result, NothingBehind
  <2>2. base[p].name = base[q].name /\ p \in DOMAIN base /\ q \in DOMAIN base
    BY <1>1, <1>2, <2>1
  <2> QED
    BY <1>2, <2>2 DEF NamedOnce
<1> QED
  BY <1>1, <1>2 DEF NamedOnce

\* Volumes that have been merged are merged into the same template without a change,
LEMMA PutAllBack ==
    ASSUME NEW base, IsSeq(base), NamedOnce(base), NEW overrides, IsSeq(overrides)
    PROVE  PutAll(base, PutAll(base, overrides)) = PutAll(base, overrides)
<1> DEFINE r == PutAll(base, overrides)
<1>1. Result(base, overrides, DOMAIN overrides, r)
  BY PutResult DEF PutAll
<1>2. NamedOnce(r) /\ IsSeq(r) /\ DOMAIN r = 1..Len(r) /\ Len(r) \in Nat /\ PlacesKept(base, r)
  BY <1>1, ResultNamedOnce, SeqFacts DEF Result, PlacesKept
<1> HIDE DEF r
<1>3. \A p \in DOMAIN r : FirstAt(r, p)
  BY <1>2 DEF NamedOnce, FirstAt
<1>4. PutSome(base, r, DOMAIN r) = r
  BY <1>2, <1>3, PutBack
<1> QED
  BY <1>4 DEF PutAll, r

\* and so are mounts.
LEMMA MountsKeptBack ==
    ASSUME NEW base, IsSeq(base), NEW mounts, IsSeq(mounts)
    PROVE  MountsKept(base, MountsKept(base, mounts)) = MountsKept(base, mounts)
<1> DEFINE Added(old) == {i \in DOMAIN old : /\ \A j \in DOMAIN base : base[j].name # old[i].name
                                             /\ \A j \in 1..(i - 1) : old[j].name # old[i].name}
           r == MountsKept(base, mounts)
<1>1. Result(base, mounts, Added(mounts), r)
  <2>1. r = PutSome(base, mounts, Added(mounts)) /\ Added(mounts) \subseteq DOMAIN mounts
    BY DEF MountsKept
  <2> HIDE DEF Added, r
  <2> QED
    BY <2>1, PutResult
<1>2. /\ PlacesKept(base, r) /\ IsSeq(r) /\ DOMAIN r = 1..Len(r) /\ Len(r) \in Nat
      /\ Len(base) \in Nat /\ DOMAIN base = 1..Len(base) /\ Len(base) <= Len(r)
      /\ \A p \in 1..Len(base) : r[p].name = base[p].name
  BY <1>1, SeqFacts DEF Result, PlacesKept
<1>3. NothingBehind(base, r) /\ OthersKept(base, mounts, Added(mounts), r)
  BY <1>1 DEF Result
<1>4. MountsKept(base, r) = PutSome(base, r, Added(r))
  BY DEF MountsKept
<1> HIDE DEF r
<1>5. \A p \in Added(r) : FirstAt(r, p)
  BY DEF FirstAt
<1>6. ASSUME NEW p \in 1..Len(r), p \notin Added(r) PROVE p <= Len(base) /\ r[p] = base[p]
  <2>1. p <= Len(base)
    <3> SUFFICES ASSUME p > Len(base) PROVE FALSE
      BY <1>2
    <3>1. \A j \in DOMAIN base : base[j].name # r[p].name
      BY <1>2, <1>3 DEF NothingBehind
    <3>2. \A j \in 1..(p - 1) : r[j].name # r[p].name
      BY <1>2, <1>3 DEF NothingBehind
    <3> QED
      BY <1>2, <1>6, <3>1, <3>2
  <2>2. \A j \in Added(mounts) : mounts[j].name # r[p].name
    BY <1>2, <2>1
  <2> HIDE DEF Added
  <2> QED
    BY <1>3, <2>1, <2>2 DEF OthersKept
<1>7. Added(r) \subseteq DOMAIN r
  OBVIOUS
<1> HIDE DEF Added
<1>8. PutSome(base, r, Added(r)) = r
  BY <1>2, <1>5, <1>6, <1>7, PutBack
<1> QED
  BY <1>4, <1>8 DEF r

-----------------------------------------------------------------------------
(* The environment *)

IsLast(seq, i) ==
    i \in DOMAIN seq /\ \A k \in DOMAIN seq : seq[k].name = seq[i].name => k <= i

LastOnes(env) == {env[i] : i \in {j \in DOMAIN env : IsLast(env, j)}}

\* Where the last entry of a name has no value, no entry of the name has one.
RegularEnv(env) ==
    \A i, j \in DOMAIN env :
        IsLast(env, i) /\ env[i].value = NotSet /\ env[j].name = env[i].name =>
            env[j].value = NotSet

Valued(env) == {i \in DOMAIN env : env[i].value # NotSet}

\* What UpgradedPod makes of the environment env of an old pod, base being that of the
\* template.
Context(env) == PutSome(<<>>, env, Valued(env))

Renewed(base, env) == PutAll(base \o Context(env), env)

LEMMA LastOfName ==
    ASSUME NEW s, IsSeq(s), NEW T, T \subseteq DOMAIN s, NEW j \in T
    PROVE  \E i \in T : s[i].name = s[j].name /\ \A k \in T : s[k].name = s[j].name => k <= i
<1> DEFINE U == {k \in T : s[k].name = s[j].name}
<1>1. Len(s) \in Nat /\ U \in SUBSET (1..Len(s)) /\ U # {}
  BY SeqFacts
<1>2. \E i \in U : \A k \in U : k <= i
  <2> HIDE DEF U
  <2> QED
    BY <1>1, LastIndex
<1> QED
  BY <1>2

LEMMA LastExists ==
    ASSUME NEW s, IsSeq(s), NEW j \in DOMAIN s
    PROVE  \E i \in DOMAIN s : IsLast(s, i) /\ s[i].name = s[j].name
<1>1. PICK i \in DOMAIN s : /\ s[i].name = s[j].name
                            /\ \A k \in DOMAIN s : s[k].name = s[j].name => k <= i
  BY LastOfName
<1> QED
  BY <1>1 DEF IsLast

LEMMA LastUnique ==
    ASSUME NEW s, IsSeq(s), NEW i, NEW j, IsLast(s, i), IsLast(s, j), s[i].name = s[j].name
    PROVE  i = j
<1>1. i \in Nat /\ j \in Nat /\ i <= j /\ j <= i
  BY SeqFacts DEF IsLast
<1> QED
  BY <1>1

LEMMA EmptyBase ==
    ASSUME NEW overrides, IsSeq(overrides), NEW taken, taken \subseteq DOMAIN overrides
    PROVE  LET r == PutSome(<<>>, overrides, taken)
           IN  /\ IsSeq(r) /\ NamedOnce(r)
               /\ Result(<<>>, overrides, taken, r)
               /\ \A p \in DOMAIN r : \E j \in taken : overrides[j].name = r[p].name
<1> DEFINE r == PutSome(<<>>, overrides, taken)
<1>1. IsSeq(<<>>) /\ NamedOnce(<<>>) /\ Len(<<>>) = 0
  <2>1. IsSeq(<<>>)
    <3>1. <<>> \in Seq({})
      OBVIOUS
    <3> QED
      BY <3>1, SeqTyped
  <2> QED
    BY <2>1 DEF NamedOnce
<1>2. Result(<<>>, overrides, taken, r)
  BY <1>1, PutResult
<1> HIDE DEF r
<1>3. IsSeq(r) /\ NamedOnce(r) /\ Len(r) \in Nat /\ DOMAIN r = 1..Len(r)
  BY <1>1, <1>2, ResultNamedOnce, SeqFacts DEF Result, PlacesKept
<1>4. \A p \in DOMAIN r : \E j \in taken : overrides[j].name = r[p].name
  BY <1>1, <1>2, <1>3 DEF Result, OthersKept
<1> QED
  BY <1>2, <1>3, <1>4 DEF r

\* The context of an upgrade has an entry for each name that has a value, once.
LEMMA ContextFacts ==
    ASSUME NEW env, IsSeq(env)
    PROVE  /\ IsSeq(Context(env)) /\ NamedOnce(Context(env))
           /\ \A p \in DOMAIN Context(env) : \E j \in Valued(env) :
                 /\ Context(env)[p] = env[j]
                 /\ \A k \in Valued(env) : env[k].name = env[j].name => k <= j
           /\ \A j \in Valued(env) : \E p \in DOMAIN Context(env) :
                 Context(env)[p].name = env[j].name
<1> DEFINE c == Context(env)
           V == Valued(env)
<1>1. V \subseteq DOMAIN env
  BY DEF Valued
<1>2. /\ IsSeq(c) /\ NamedOnce(c) /\ Result(<<>>, env, V, c)
      /\ \A p \in DOMAIN c : \E j \in V : env[j].name = c[p].name
  <2> HIDE DEF V
  <2> QED
    BY <1>1, EmptyBase DEF Context, V
<1> HIDE DEF c, V
<1>3. ASSUME NEW j \in V
      PROVE  \E i \in V : /\ env[i].name = env[j].name
                          /\ \A k \in V : env[k].name = env[j].name => k <= i
                          /\ \E p \in DOMAIN c : c[p] = env[i]
  <2>1. PICK i \in V : /\ env[i].name = env[j].name
                       /\ \A k \in V : env[k].name = env[j].name => k <= i
    BY <1>1, LastOfName
  <2>2. \E p \in DOMAIN c : c[p] = env[i]
    BY <1>2, <2>1 DEF Result, LastPut
  <2> QED
    BY <2>1, <2>2
<1>4. ASSUME NEW p \in DOMAIN c
      PROVE  \E i \in V : c[p] = env[i] /\ \A k \in V : env[k].name = env[i].name => k <= i
  <2>1. PICK j \in V : env[j].name = c[p].name
    BY <1>2
  <2>2. PICK i \in V : /\ env[i].name = env[j].name
                       /\ \A k \in V : env[k].name = env[j].name => k <= i
                       /\ \E q \in DOMAIN c : c[q] = env[i]
    BY <1>3
  <2>3. c[p] = env[i]
    BY <1>2, <2>1, <2>2 DEF NamedOnce
  <2> QED
    BY <2>2, <2>3
<1>5. \A j \in V : \E p \in DOMAIN c : c[p].name = env[j].name
  BY <1>3
<1> QED
  BY <1>2, <1>4, <1>5 DEF c, V

\* In a regular environment it has what a process sees.
LEMMA ContextIsLast ==
    ASSUME NEW env, IsSeq(env), RegularEnv(env), NEW p \in DOMAIN Context(env)
    PROVE  \E i \in DOMAIN env : IsLast(env, i) /\ Context(env)[p] = env[i]
<1>1. PICK j \in Valued(env) : /\ Context(env)[p] = env[j]
                               /\ \A k \in Valued(env) : env[k].name = env[j].name => k <= j
  BY ContextFacts
<1>2. PICK i \in DOMAIN env : IsLast(env, i) /\ env[i].name = env[j].name
  BY LastExists DEF Valued
<1>3. env[i].value # NotSet
  BY <1>2 DEF RegularEnv, Valued
<1>4. i <= j /\ j <= i
  BY <1>1, <1>2, <1>3 DEF Valued, IsLast
<1>5. i = j
  BY <1>4, SeqFacts DEF Valued
<1> QED
  BY <1>1, <1>2, <1>5

LEMMA ConcatFacts ==
    ASSUME NEW s, IsSeq(s), NEW t, IsSeq(t)
    PROVE  /\ IsSeq(s \o t) /\ Len(s \o t) = Len(s) + Len(t)
           /\ DOMAIN (s \o t) = 1..(Len(s) + Len(t))
           /\ \A i \in 1..(Len(s) + Len(t)) :
                 (s \o t)[i] = IF i <= Len(s) THEN s[i] ELSE t[i - Len(s)]
<1> DEFINE T == {s[i] : i \in DOMAIN s} \cup {t[i] : i \in DOMAIN t}
<1>1. s \in Seq(T) /\ t \in Seq(T)
  BY DEF IsSeq
<1> HIDE DEF T
<1>2. s \o t \in Seq(T)
  BY <1>1
<1>3. IsSeq(s \o t)
  BY <1>2, SeqTyped
<1> QED
  BY <1>1, <1>3

\* An entry of the new environment is the last one of its name in the old environment, or
\* that of the template if there is none; and nothing is lost.
LEMMA RenewedFacts ==
    ASSUME NEW base, IsSeq(base), NamedOnce(base), NEW env, IsSeq(env), RegularEnv(env)
    PROVE  LET r == Renewed(base, env)
           IN  /\ IsSeq(r)
               /\ \A p \in DOMAIN r :
                     \/ \E i \in DOMAIN env : IsLast(env, i) /\ r[p] = env[i]
                     \/ /\ p \in DOMAIN base /\ r[p] = base[p]
                        /\ \A i \in DOMAIN env : env[i].name # r[p].name
               /\ \A i \in DOMAIN env : IsLast(env, i) => \E p \in DOMAIN r : r[p] = env[i]
               /\ \A i \in DOMAIN base : \E p \in DOMAIN r : r[p].name = base[i].name
<1> DEFINE c == Context(env)
           b == base \o c
           r == Renewed(base, env)
<1>1. /\ IsSeq(c) /\ Len(c) \in Nat /\ DOMAIN c = 1..Len(c)
      /\ \A p \in DOMAIN c : \E i \in DOMAIN env : IsLast(env, i) /\ c[p] = env[i]
  BY ContextFacts, ContextIsLast, SeqFacts
<1>2. Len(base) \in Nat /\ DOMAIN base = 1..Len(base)
  BY SeqFacts
<1> HIDE DEF c
<1>3. /\ IsSeq(b) /\ Len(b) = Len(base) + Len(c) /\ DOMAIN b = 1..Len(b)
      /\ \A i \in 1..Len(b) : b[i] = IF i <= Len(base) THEN base[i] ELSE c[i - Len(base)]
  BY <1>1, ConcatFacts
<1> HIDE DEF b
<1>4. Result(b, env, DOMAIN env, r)
  BY <1>3, PutResult DEF Renewed, PutAll, b, c
<1> HIDE DEF r
<1>5. /\ IsSeq(r) /\ Len(r) \in Nat /\ DOMAIN r = 1..Len(r) /\ Len(b) <= Len(r)
      /\ \A p \in 1..Len(b) : r[p].name = b[p].name
  BY <1>4, SeqFacts DEF Result, PlacesKept
<1>6. ASSUME NEW i \in DOMAIN env, IsLast(env, i)
      PROVE  \E p \in DOMAIN r : FirstAt(r, p) /\ r[p] = env[i]
  BY <1>4, <1>6 DEF Result, LastPut, IsLast
<1>7. ASSUME NEW i \in DOMAIN base PROVE \E p \in DOMAIN r : r[p].name = base[i].name
  <2>1. i \in 1..Len(b) /\ b[i] = base[i] /\ i \in DOMAIN r
    BY <1>1, <1>2, <1>3, <1>5
  <2> QED
    BY <1>5, <2>1
<1>8. ASSUME NEW p \in DOMAIN r, p <= Len(b), r[p] = b[p], p > Len(base)
      PROVE  \E i \in DOMAIN env : IsLast(env, i) /\ r[p] = env[i]
  <2>1. r[p] = c[p - Len(base)] /\ p - Len(base) \in DOMAIN c
    BY <1>1, <1>2, <1>3, <1>5, <1>8
  <2> QED
    BY <1>1, <2>1
<1>9. ASSUME NEW p \in DOMAIN r
      PROVE  \/ \E i \in DOMAIN env : IsLast(env, i) /\ r[p] = env[i]
             \/ /\ p \in DOMAIN base /\ r[p] = base[p]
                /\ \A i \in DOMAIN env : env[i].name # r[p].name
  <2>1. CASE \A i \in DOMAIN env : env[i].name # r[p].name
    <3>1. p <= Len(b) /\ r[p] = b[p]
      BY <1>4, <1>5, <2>1 DEF Result, OthersKept
    <3>2. p <= Len(base)
      <4> SUFFICES ASSUME p > Len(base) PROVE FALSE
        BY <1>2, <1>5
      <4> QED
        BY <1>8, <2>1, <3>1
    <3>3. p \in DOMAIN base /\ b[p] = base[p]
      BY <1>1, <1>2, <1>3, <1>5, <3>2
    <3> QED
      BY <2>1, <3>1, <3>3
  <2>2. ASSUME NEW j \in DOMAIN env, env[j].name = r[p].name
        PROVE  \E i \in DOMAIN env : IsLast(env, i) /\ r[p] = env[i]
    <3>1. PICK i \in DOMAIN env : IsLast(env, i) /\ env[i].name = r[p].name
      BY <2>2, LastExists
    <3>2. PICK q \in DOMAIN r : FirstAt(r, q) /\ r[q] = env[i]
      BY <1>6, <3>1
    <3>3. CASE p = q
      BY <3>1, <3>2, <3>3
    <3>4. CASE p # q
      <4>1. q < p
        <5> SUFFICES ASSUME p < q PROVE FALSE
          BY <1>5, <3>4
        <5>1. p \in 1..(q - 1)
          BY <1>5
        <5> QED
          BY <3>1, <3>2, <5>1 DEF FirstAt
      <4>2. p <= Len(b) /\ r[p] = b[p]
        BY <1>4, <1>5, <3>1, <3>2, <4>1 DEF Result, NothingBehind
      <4>3. p > Len(base)
        <5> SUFFICES ASSUME p <= Len(base) PROVE FALSE
          BY <1>2, <1>5
        <5>1. /\ p \in DOMAIN base /\ q \in DOMAIN base /\ b[p] = base[p] /\ b[q] = base[q]
              /\ q \in 1..Len(b)
          BY <1>1, <1>2, <1>3, <1>5, <4>1
        <5>2. base[p].name = base[q].name
          BY <1>5, <3>1, <3>2, <4>2, <5>1
        <5> QED
          BY <3>4, <5>1, <5>2 DEF NamedOnce
      <4> QED
        BY <1>8, <4>2, <4>3
    <3> QED
      BY <3>3, <3>4
  <2> QED
    BY <2>1, <2>2
<1>10. \A i \in DOMAIN env : IsLast(env, i) => \E p \in DOMAIN r : r[p] = env[i]
  BY <1>6
<1> QED
  BY <1>5, <1>7, <1>9, <1>10 DEF r

\* A process in the new pod sees what it saw in the old one.
LEMMA RenewedKeeps ==
    ASSUME NEW base, IsSeq(base), NamedOnce(base), NEW env, IsSeq(env), RegularEnv(env)
    PROVE  LastOnes(env) \subseteq LastOnes(Renewed(base, env))
<1> DEFINE r == Renewed(base, env)
<1>1. /\ IsSeq(r)
      /\ \A p \in DOMAIN r :
            (\E i \in DOMAIN env : IsLast(env, i) /\ r[p] = env[i])
              \/ \A i \in DOMAIN env : env[i].name # r[p].name
      /\ \A i \in DOMAIN env : IsLast(env, i) => \E p \in DOMAIN r : r[p] = env[i]
  BY RenewedFacts
<1> HIDE DEF r
<1>2. ASSUME NEW i \in DOMAIN env, IsLast(env, i) PROVE env[i] \in LastOnes(r)
  <2>1. PICK p \in DOMAIN r : r[p] = env[i]
    BY <1>1, <1>2
  <2>2. PICK q \in DOMAIN r : IsLast(r, q) /\ r[q].name = env[i].name
    BY <1>1, <2>1, LastExists
  <2>3. PICK j \in DOMAIN env : IsLast(env, j) /\ r[q] = env[j]
    BY <1>1, <2>2
  <2>4. i = j
    BY <1>2, <2>2, <2>3, LastUnique
  <2> QED
    BY <2>2, <2>3, <2>4 DEF LastOnes
<1> QED
  BY <1>2 DEF LastOnes, r

\* The new environment is regular again.
LEMMA RenewedRegular ==
    ASSUME NEW base, IsSeq(base), NamedOnce(base), NEW env, IsSeq(env), RegularEnv(env)
    PROVE  RegularEnv(Renewed(base, env))
<1> DEFINE r == Renewed(base, env)
<1>1. \A p \in DOMAIN r :
          \/ \E i \in DOMAIN env : IsLast(env, i) /\ r[p] = env[i]
          \/ /\ p \in DOMAIN base /\ r[p] = base[p]
             /\ \A i \in DOMAIN env : env[i].name # r[p].name
  BY RenewedFacts
<1> HIDE DEF r
<1>2. ASSUME NEW p \in DOMAIN r, NEW q \in DOMAIN r, r[p].name = r[q].name PROVE r[p] = r[q]
  <2>1. CASE \A i \in DOMAIN env : env[i].name # r[p].name
    <3>1. p \in DOMAIN base /\ q \in DOMAIN base /\ r[p] = base[p] /\ r[q] = base[q]
      BY <1>1, <1>2, <2>1
    <3> QED
      BY <1>2, <3>1 DEF NamedOnce
  <2>2. CASE ~\A i \in DOMAIN env : env[i].name # r[p].name
    <3>1. PICK i \in DOMAIN env : IsLast(env, i) /\ r[p] = env[i]
      BY <1>1, <2>2
    <3>2. PICK j \in DOMAIN env : IsLast(env, j) /\ r[q] = env[j]
      BY <1>1, <1>2, <3>1
    <3>3. i = j
      BY <1>2, <3>1, <3>2, LastUnique
    <3> QED
      BY <3>1, <3>2, <3>3
  <2> QED
    BY <2>1, <2>2
<1> QED
  BY <1>2 DEF RegularEnv, r

\* Upgrading once more changes nothing in what a process sees.
LEMMA RenewedSettles ==
    ASSUME NEW base, IsSeq(base), NamedOnce(base), NEW env, IsSeq(env), RegularEnv(env)
    PROVE  LastOnes(Renewed(base, Renewed(base, env))) = LastOnes(Renewed(base, env))
<1> DEFINE r == Renewed(base, env)
           s == Renewed(base, r)
<1>1. /\ IsSeq(r) /\ RegularEnv(r)
      /\ \A i \in DOMAIN base : \E p \in DOMAIN r : r[p].name = base[i].name
  BY RenewedFacts, RenewedRegular
<1> HIDE DEF r
<1>2. \A p \in DOMAIN s :
          \/ \E i \in DOMAIN r : IsLast(r, i) /\ s[p] = r[i]
          \/ /\ p \in DOMAIN base /\ s[p] = base[p]
             /\ \A i \in DOMAIN r : r[i].name # s[p].name
  BY <1>1, RenewedFacts
<1>3. LastOnes(r) \subseteq LastOnes(s)
  BY <1>1, RenewedKeeps
<1> HIDE DEF s
<1>4. \A p \in DOMAIN s : \E i \in DOMAIN r : IsLast(r, i) /\ s[p] = r[i]
  BY <1>1, <1>2
<1>5. LastOnes(s) \subseteq LastOnes(r)
  BY <1>4 DEF LastOnes
<1> QED
  BY <1>3, <1>5 DEF r, s

\* A name with a value keeps one.
LEMMA RenewedValued ==
    ASSUME NEW base, IsSeq(base), NamedOnce(base), NEW env, IsSeq(env), RegularEnv(env),
           NEW j \in Valued(env)
    PROVE  \E p \in Valued(Renewed(base, env)) : Renewed(base, env)[p].name = env[j].name
<1>1. j \in DOMAIN env /\ env[j].value # NotSet
  BY DEF Valued
<1>2. PICK i \in DOMAIN env : IsLast(env, i) /\ env[i].name = env[j].name
  BY <1>1, LastExists
<1>3. env[i].value # NotSet
  BY <1>1, <1>2 DEF RegularEnv
<1>4. PICK p \in DOMAIN Renewed(base, env) : Renewed(base, env)[p] = env[i]
  BY <1>2, RenewedFacts
<1> QED
  BY <1>2, <1>3, <1>4 DEF Valued

-----------------------------------------------------------------------------
(* Specs *)

SpecFields == {"containers", "inits", "volumes", "account", "labels", "annotations"}

\* Well formed, with a main container.
Shaped(spec) ==
    /\ SpecFields \subseteq DOMAIN spec
    /\ IsSeq(spec.containers) /\ 1 \in DOMAIN spec.containers
    /\ {"name", "image", "env", "mounts"} \subseteq DOMAIN spec.containers[1]
    /\ IsSeq(spec.containers[1].env) /\ IsSeq(spec.containers[1].mounts)
    /\ IsSeq(spec.volumes)

\* The spec of a template: no variable of the main container and no volume is there twice.
SoundSpec(spec) ==
    Shaped(spec) /\ NamedOnce(spec.containers[1].env) /\ NamedOnce(spec.volumes)

\* d is spec with the context in the environment of its main container, and hooks.
IsDecorated(spec, context, d) ==
    /\ DOMAIN d = DOMAIN spec
    /\ d.volumes = spec.volumes /\ d.account = spec.account
    /\ d.labels = spec.labels /\ d.annotations = spec.annotations
    /\ 1 \in DOMAIN d.containers
    /\ DOMAIN d.containers[1] = DOMAIN spec.containers[1]
    /\ d.containers[1].env = spec.containers[1].env \o context
    /\ d.containers[1].mounts = spec.containers[1].mounts

LEMMA DecoratedFacts ==
    ASSUME NEW spec, Shaped(spec), NEW annotations, NEW context
    PROVE  IsDecorated(spec, context, Decorated(spec, annotations, context))
<1> DEFINE cs == spec.containers
           sidecar == [name |-> "spawner-sidecar", image |-> annotations["sidecar-image"],
                       env |-> context, mounts |-> cs[1].mounts]
           hooked == IF "sidecar-image" \in DOMAIN annotations THEN Append(cs, sidecar) ELSE cs
           init == IF "init-image" \in DOMAIN annotations THEN <<"spawner-init">> ELSE <<>>
           ds == [hooked EXCEPT ![1].env = @ \o context]
           d == [spec EXCEPT !.inits = @ \o init, !.containers = ds]
<1>1. Decorated(spec, annotations, context) = d
  BY DEF Decorated
<1>2. 1 \in DOMAIN hooked /\ hooked[1] = cs[1]
  <2>1. IsSeq(cs) /\ Len(cs) \in Nat /\ DOMAIN cs = 1..Len(cs) /\ 1 \in DOMAIN cs
    BY SeqFacts DEF Shaped
  <2> HIDE DEF sidecar, cs
  <2>2. 1 \in DOMAIN Append(cs, sidecar) /\ Append(cs, sidecar)[1] = cs[1]
    BY <2>1, AppendFacts, SeqFacts
  <2> QED
    BY <2>1, <2>2
<1>3. {"name", "image", "env", "mounts"} \subseteq DOMAIN cs[1]
  BY DEF Shaped
<1> HIDE DEF hooked, init
<1>4. /\ DOMAIN ds = DOMAIN hooked
      /\ ds[1] = [cs[1] EXCEPT !.env = @ \o context]
  BY <1>2
<1>5. DOMAIN ds[1] = DOMAIN cs[1] /\ ds[1].env = cs[1].env \o context /\ ds[1].mounts = cs[1].mounts
  BY <1>3, <1>4
<1> HIDE DEF ds
<1>6. /\ DOMAIN d = DOMAIN spec /\ d.containers = ds
      /\ d.volumes = spec.volumes /\ d.account = spec.account
      /\ d.labels = spec.labels /\ d.annotations = spec.annotations
  BY DEF Shaped, SpecFields
<1> HIDE DEF d
<1> QED
  BY <1>1, <1>2, <1>4, <1>5, <1>6 DEF IsDecorated

\* Containers by name and image, init containers: what the annotations of the hooks decide.
Face(pod) == [i \in DOMAIN pod.containers |-> <<pod.containers[i].name, pod.containers[i].image>>]

HookedFace(spec, annotations) ==
    LET n == Len(spec.containers)
    IN  [i \in 1..(IF "sidecar-image" \in DOMAIN annotations THEN n + 1 ELSE n) |->
            IF i <= n THEN <<spec.containers[i].name, spec.containers[i].image>>
            ELSE <<"spawner-sidecar", annotations["sidecar-image"]>>]

HookedInits(spec, annotations) ==
    spec.inits \o (IF "init-image" \in DOMAIN annotations THEN <<"spawner-init">> ELSE <<>>)

\* The hooks are decided by two annotations.
LEMMA DecoratedHooks ==
    ASSUME NEW spec, Shaped(spec), NEW annotations, NEW context
    PROVE  LET d == Decorated(spec, annotations, context)
           IN  d.inits = HookedInits(spec, annotations) /\ Face(d) = HookedFace(spec, annotations)
<1> DEFINE cs == spec.containers
           sidecar == [name |-> "spawner-sidecar", image |-> annotations["sidecar-image"],
                       env |-> context, mounts |-> cs[1].mounts]
           hooked == IF "sidecar-image" \in DOMAIN annotations THEN Append(cs, sidecar) ELSE cs
           init == IF "init-image" \in DOMAIN annotations THEN <<"spawner-init">> ELSE <<>>
           ds == [hooked EXCEPT ![1].env = @ \o context]
           d == [spec EXCEPT !.inits = @ \o init, !.containers = ds]
           n == Len(cs)
           m == IF "sidecar-image" \in DOMAIN annotations THEN n + 1 ELSE n
<1>1. Decorated(spec, annotations, context) = d
  BY DEF Decorated
<1>2. IsSeq(cs) /\ n \in Nat /\ DOMAIN cs = 1..n /\ 1 \in 1..n
      /\ {"name", "image", "env", "mounts"} \subseteq DOMAIN cs[1]
  BY SeqFacts DEF Shaped
<1>3. d.containers = ds /\ d.inits = spec.inits \o init
  <2> HIDE DEF ds, init
  <2> QED
    BY DEF Shaped, SpecFields
<1>4. /\ DOMAIN hooked = 1..m
      /\ \A i \in 1..n : hooked[i] = cs[i]
      /\ m = n + 1 => hooked[m] = sidecar
  <2> HIDE DEF sidecar, cs
  <2>1. /\ DOMAIN Append(cs, sidecar) = 1..(n + 1) /\ Append(cs, sidecar)[n + 1] = sidecar
        /\ \A i \in 1..n : Append(cs, sidecar)[i] = cs[i]
    BY <1>2, AppendFacts, SeqFacts
  <2> QED
    BY <1>2, <2>1
<1>5. sidecar.name = "spawner-sidecar" /\ sidecar.image = annotations["sidecar-image"]
  OBVIOUS
<1> HIDE DEF hooked, sidecar
<1>6. DOMAIN ds = DOMAIN hooked /\ \A i \in DOMAIN hooked : i # 1 => ds[i] = hooked[i]
  OBVIOUS
<1>7. ds[1].name = cs[1].name /\ ds[1].image = cs[1].image
  BY <1>2, <1>4
<1>8. DOMAIN ds = 1..m /\ \A i \in 1..m :
          <<ds[i].name, ds[i].image>> = IF i <= n THEN <<cs[i].name, cs[i].image>>
                                        ELSE <<"spawner-sidecar", annotations["sidecar-image"]>>
  <2> SUFFICES ASSUME NEW i \in 1..m
               PROVE  <<ds[i].name, ds[i].image>> =
                          IF i <= n THEN <<cs[i].name, cs[i].image>>
                          ELSE <<"spawner-sidecar", annotations["sidecar-image"]>>
    BY <1>4, <1>6
  <2>1. CASE i = 1
    BY <1>2, <1>7, <2>1
  <2>2. CASE i # 1
    <3>1. ds[i] = hooked[i]
      BY <1>4, <1>6, <2>2
    <3>2. i \in 1..n \/ (i = m /\ m = n + 1 /\ ~(i <= n))
      BY <1>2
    <3> HIDE DEF ds, cs, m
    <3> QED
      BY <1>2, <1>4, <1>5, <3>1, <3>2
  <2> QED
    BY <2>1, <2>2
<1> HIDE DEF ds
<1>9. Face(d) = HookedFace(spec, annotations)
  BY <1>3, <1>8 DEF Face, HookedFace
<1> QED
  BY <1>1, <1>3, <1>9 DEF HookedInits

-----------------------------------------------------------------------------
(* An upgraded pod, field by field *)

\* The template that the pod is upgraded to.
Target(source, old) == Resolved(source, old.labels["owner"])

\* The annotations an upgrade works with, before those inside the spec.
Working(source, old) ==
    Overlaid(OldFirst(Target(source, old), old),
             Single("template-version", Target(source, old).version))

\* new is old upgraded.
IsUpgrade(source, old, new) ==
    LET spec == Target(source, old).spec
    IN  /\ SpecFields \subseteq DOMAIN new
        /\ new.volumes = PutAll(spec.volumes, old.volumes)
        /\ new.account = Or(old.account, spec.account)
        /\ new.labels = Overlaid(Overlaid(Overlaid(Target(source, old).labels, old.labels),
                                          spec.labels),
                                 Single("owner", old.labels["owner"]))
        /\ new.annotations = Overlaid(Overlaid(Working(source, old), spec.annotations),
                                      Single("owner", old.labels["owner"]))
        /\ new.containers[1].env = Renewed(spec.containers[1].env, old.containers[1].env)
        /\ new.containers[1].mounts =
              MountsKept(spec.containers[1].mounts, old.containers[1].mounts)
        /\ new.inits = HookedInits(spec, Working(source, old))
        /\ Face(new) = HookedFace(spec, Working(source, old))

\* When there is a template and the context is complete, UpgradedPod is an upgrade.
LEMMA UpgradedFacts ==
    ASSUME NEW source, NEW old, Target(source, old) # NotSet, Shaped(Target(source, old).spec),
           ContextComplete(Working(source, old), Context(old.containers[1].env))
    PROVE  IsUpgrade(source, old, UpgradedPod(source, old))
<1> DEFINE spec == Target(source, old).spec
           env == old.containers[1].env
           d == Decorated(spec, Working(source, old), Context(env))
           c1 == [d.containers EXCEPT ![1].mounts = MountsKept(@, old.containers[1].mounts)]
           cs == [c1 EXCEPT ![1].env = PutAll(@, env)]
           volumes == VolumesKept(d.volumes, old.volumes)
           account == Or(old.account, d.account)
           labels == Overlaid(Overlaid(Overlaid(Target(source, old).labels, old.labels), d.labels),
                              Single("owner", old.labels["owner"]))
           annotations == Overlaid(Overlaid(Working(source, old), d.annotations),
                                   Single("owner", old.labels["owner"]))
           new == [d EXCEPT !.volumes = volumes, !.containers = cs, !.account = account,
                            !.labels = labels, !.annotations = annotations]
<1>1. IsDecorated(spec, Context(env), d)
  <2>1. Shaped(spec)
    OBVIOUS
  <2> HIDE DEF spec
  <2> QED
    BY <2>1, DecoratedFacts
<1>2. d.inits = HookedInits(spec, Working(source, old))
      /\ Face(d) = HookedFace(spec, Working(source, old))
  <2>1. Shaped(spec)
    OBVIOUS
  <2> HIDE DEF spec
  <2> QED
    BY <2>1, DecoratedHooks
<1>3. UpgradedPod(source, old) =
        [d EXCEPT !.volumes = VolumesKept(@, old.volumes),
                  !.containers[1].mounts = MountsKept(@, old.containers[1].mounts),
                  !.containers[1].env = PutAll(@, env),
                  !.account = Or(old.account, @),
                  !.labels = Overlaid(Overlaid(Overlaid(Target(source, old).labels, old.labels), @),
                                      Single("owner", old.labels["owner"])),
                  !.annotations = Overlaid(Overlaid(Working(source, old), @),
                                           Single("owner", old.labels["owner"]))]
  BY DEF UpgradedPod, Target, Working, Context, OldContext, Valued
<1>4. {"name", "image", "env", "mounts"} \subseteq DOMAIN d.containers[1]
      /\ SpecFields \subseteq DOMAIN d
  BY <1>1 DEF Shaped, IsDecorated
<1> HIDE DEF d
<1>5. UpgradedPod(source, old) = new
  BY <1>1, <1>3, <1>4 DEF SpecFields, IsDecorated
<1>6. /\ cs[1].env = PutAll(d.containers[1].env, env)
      /\ cs[1].mounts = MountsKept(d.containers[1].mounts, old.containers[1].mounts)
  BY <1>1, <1>4 DEF IsDecorated
<1>7. /\ DOMAIN cs = DOMAIN d.containers
      /\ \A i \in DOMAIN cs : /\ cs[i].name = d.containers[i].name
                              /\ cs[i].image = d.containers[i].image
  <2>1. DOMAIN cs = DOMAIN d.containers /\ \A i \in DOMAIN cs : i # 1 => cs[i] = d.containers[i]
    OBVIOUS
  <2>2. cs[1].name = d.containers[1].name /\ cs[1].image = d.containers[1].image
    BY <1>1, <1>4 DEF IsDecorated
  <2> QED
    BY <2>1, <2>2
<1> HIDE DEF cs, volumes, account, labels, annotations
<1>8. /\ DOMAIN new = DOMAIN d /\ new.volumes = volumes /\ new.containers = cs
      /\ new.account = account /\ new.labels = labels /\ new.annotations = annotations
      /\ new.inits = d.inits
  BY <1>4 DEF SpecFields
<1> HIDE DEF new
<1>9. Face(new) = Face(d)
  BY <1>7, <1>8 DEF Face
<1> QED
  BY <1>1, <1>2, <1>4, <1>5, <1>6, <1>8, <1>9
     DEF IsUpgrade, IsDecorated, Renewed, VolumesKept, volumes, account, labels, annotations

-----------------------------------------------------------------------------
(* What an upgrade keeps *)

\* What holds of every pod the spawner has made, and is enough for an upgrade to keep its
\* contents.
Regular(pod) ==
    /\ "owner" \in DOMAIN pod.labels
    /\ "owner" \in DOMAIN pod.annotations => pod.annotations["owner"] = pod.labels["owner"]
    /\ pod.account # NotSet
    /\ IsSeq(pod.volumes) /\ NamedOnce(pod.volumes)
    /\ IsSeq(pod.containers[1].mounts)
    /\ IsSeq(pod.containers[1].env) /\ RegularEnv(pod.containers[1].env)

LEMMA EnvironmentIs == ASSUME NEW pod PROVE Environment(pod) = LastOnes(pod.containers[1].env)
BY DEF Environment, LastOnes, IsLast

\* Putting volumes loses none of them.
LEMMA PutAllKeeps ==
    ASSUME NEW base, IsSeq(base), NEW overrides, IsSeq(overrides), NamedOnce(overrides)
    PROVE  Seqs!ToSet(overrides) \subseteq Seqs!ToSet(PutAll(base, overrides))
<1> DEFINE r == PutAll(base, overrides)
<1>1. Result(base, overrides, DOMAIN overrides, r)
  BY PutResult DEF PutAll
<1> HIDE DEF r
<1>2. DOMAIN overrides = 1..Len(overrides) /\ Len(overrides) \in Nat
  BY SeqFacts
<1>3. ASSUME NEW j \in DOMAIN overrides PROVE \E p \in DOMAIN r : r[p] = overrides[j]
  <2>1. \A k \in DOMAIN overrides : overrides[k].name = overrides[j].name => k <= j
    BY <1>2 DEF NamedOnce
  <2> QED
    BY <1>1, <2>1 DEF Result, LastPut
<1> QED
  BY <1>3 DEF Seqs!ToSet, r

\* A volume mounted before is mounted after.
LEMMA MountsKeptFacts ==
    ASSUME NEW base, IsSeq(base), NEW mounts, IsSeq(mounts)
    PROVE  /\ IsSeq(MountsKept(base, mounts))
           /\ {m.name : m \in Seqs!ToSet(mounts)}
                \subseteq {m.name : m \in Seqs!ToSet(MountsKept(base, mounts))}
<1> DEFINE A == {i \in DOMAIN mounts : /\ \A j \in DOMAIN base : base[j].name # mounts[i].name
                                       /\ \A j \in 1..(i - 1) : mounts[j].name # mounts[i].name}
           r == MountsKept(base, mounts)
<1>1. A \subseteq DOMAIN mounts /\ r = PutSome(base, mounts, A)
  BY DEF MountsKept
<1> HIDE DEF A, r
<1>2. Result(base, mounts, A, r)
  BY <1>1, PutResult
<1>3. /\ DOMAIN mounts = 1..Len(mounts) /\ Len(mounts) \in Nat /\ IsSeq(r)
      /\ DOMAIN base = 1..Len(base) /\ Len(base) \in Nat
      /\ DOMAIN r = 1..Len(r) /\ Len(r) \in Nat
      /\ Len(base) <= Len(r) /\ \A p \in 1..Len(base) : r[p].name = base[p].name
  BY <1>2, SeqFacts DEF Result, PlacesKept
<1>4. ASSUME NEW j \in DOMAIN mounts PROVE \E p \in DOMAIN r : r[p].name = mounts[j].name
  <2>1. CASE \E i \in DOMAIN base : base[i].name = mounts[j].name
    <3>1. PICK i \in DOMAIN base : base[i].name = mounts[j].name
      BY <2>1
    <3>2. i \in DOMAIN r /\ r[i].name = base[i].name
      BY <1>3
    <3> QED
      BY <3>1, <3>2
  <2>2. CASE \A i \in DOMAIN base : base[i].name # mounts[j].name
    <3> DEFINE T == {i \in DOMAIN mounts : mounts[i].name = mounts[j].name}
    <3>1. PICK i \in T : \A k \in T : i <= k
      <4>1. T \in SUBSET Nat /\ T # {}
        BY <1>3
      <4> HIDE DEF T
      <4> QED
        BY <4>1, LeastIndex
    <3>2. i \in A
      BY <1>3, <2>2, <3>1 DEF A
    <3>3. \A k \in A : mounts[k].name = mounts[i].name => k <= i
      <4> SUFFICES ASSUME NEW k \in A, mounts[k].name = mounts[i].name, k > i PROVE FALSE
        BY <1>1, <1>3, <3>2
      <4>1. i \in 1..(k - 1)
        BY <1>1, <1>3
      <4> QED
        BY <4>1 DEF A
    <3>4. \E p \in DOMAIN r : r[p] = mounts[i]
      BY <1>2, <3>2, <3>3 DEF Result, LastPut
    <3> QED
      BY <3>1, <3>4
  <2> QED
    BY <2>1, <2>2
<1> QED
  BY <1>3, <1>4 DEF Seqs!ToSet, r

\* An upgrade keeps what belongs to the workspace.
LEMMA UpgradeKeeps ==
    ASSUME NEW source, NEW old, NEW new, Regular(old), SoundSpec(Target(source, old).spec),
           IsUpgrade(source, old, new)
    PROVE  Keeps(new, old, source)
<1> DEFINE spec == Target(source, old).spec
           owner == old.labels["owner"]
<1>1. new.labels["owner"] = owner
  BY DEF IsUpgrade, Overlaid, Single
<1>2. ASSUME NEW k \in DOMAIN old.annotations, k \notin DOMAIN spec.annotations,
             k # "template-version"
      PROVE  new.annotations[k] = old.annotations[k]
  <2>1. CASE k = "owner"
    <3>1. new.annotations["owner"] = owner
      BY DEF IsUpgrade, Overlaid, Single
    <3> QED
      BY <2>1, <3>1 DEF Regular
  <2>2. CASE k # "owner"
    <3>1. k \in DOMAIN Working(source, old) /\ Working(source, old)[k] = old.annotations[k]
      BY <1>2 DEF Working, OldFirst, Overlaid, Single
    <3>2. new.annotations[k] = Working(source, old)[k]
      BY <1>2, <2>2, <3>1 DEF IsUpgrade, Overlaid, Single
    <3> QED
      BY <3>1, <3>2
  <2> QED
    BY <2>1, <2>2
<1>3. Environment(old) \subseteq Environment(new)
  <2>1. LastOnes(old.containers[1].env)
          \subseteq LastOnes(Renewed(spec.containers[1].env, old.containers[1].env))
    BY RenewedKeeps DEF Regular, SoundSpec, Shaped
  <2> QED
    BY <2>1, EnvironmentIs DEF IsUpgrade
<1>4. Seqs!ToSet(old.volumes) \subseteq Seqs!ToSet(new.volumes)
  BY PutAllKeeps DEF Regular, SoundSpec, Shaped, IsUpgrade
<1>5. Mounted(old) \subseteq Mounted(new)
  BY MountsKeptFacts DEF Regular, SoundSpec, Shaped, IsUpgrade, Mounted
<1>6. new.account = old.account
  BY DEF Regular, IsUpgrade, Or
<1>7. \A k \in DOMAIN old.annotations \ (DOMAIN spec.annotations \cup {"template-version"}) :
          new.annotations[k] = old.annotations[k]
  BY <1>2
<1> QED
  BY <1>1, <1>3, <1>4, <1>5, <1>6, <1>7 DEF Keeps, Target

\* The new pod can be upgraded in turn.
LEMMA UpgradeRegular ==
    ASSUME NEW source, NEW old, NEW new, Regular(old), SoundSpec(Target(source, old).spec),
           IsUpgrade(source, old, new)
    PROVE  Regular(new) /\ new.labels["owner"] = old.labels["owner"]
<1> DEFINE spec == Target(source, old).spec
           env == spec.containers[1].env
           oldEnv == old.containers[1].env
<1>1. /\ "owner" \in DOMAIN new.labels /\ new.labels["owner"] = old.labels["owner"]
      /\ new.annotations["owner"] = old.labels["owner"]
  BY DEF IsUpgrade, Overlaid, Single
<1>2. new.account # NotSet
  BY DEF Regular, IsUpgrade, Or
<1>3. IsSeq(new.volumes) /\ NamedOnce(new.volumes)
  <2>1. Result(spec.volumes, old.volumes, DOMAIN old.volumes, new.volumes)
    BY PutResult DEF Regular, SoundSpec, Shaped, IsUpgrade, PutAll
  <2> QED
    BY <2>1, ResultNamedOnce DEF Result, PlacesKept, SoundSpec
<1>4. IsSeq(new.containers[1].mounts)
  BY MountsKeptFacts DEF Regular, SoundSpec, Shaped, IsUpgrade
<1>5. /\ IsSeq(env) /\ NamedOnce(env) /\ IsSeq(oldEnv) /\ RegularEnv(oldEnv)
      /\ new.containers[1].env = Renewed(env, oldEnv)
  BY DEF Regular, SoundSpec, Shaped, IsUpgrade
<1> HIDE DEF env, oldEnv
<1>6. IsSeq(new.containers[1].env) /\ RegularEnv(new.containers[1].env)
  BY <1>5, RenewedFacts, RenewedRegular
<1> QED
  BY <1>1, <1>2, <1>3, <1>4, <1>6 DEF Regular

-----------------------------------------------------------------------------
(* Upgrades settle *)

HookKeys == {"required-context", "init-image", "sidecar-image"}

\* The annotations that an upgrade works with, once it is done: those inside the spec have
\* no say in the hooks.
LEMMA WorkingAgain ==
    ASSUME NEW source, NEW old, NEW new, IsUpgrade(source, old, new),
           Target(source, new) = Target(source, old),
           HookKeys \cap DOMAIN Target(source, old).spec.annotations = {},
           NEW k \in HookKeys
    PROVE  /\ k \in DOMAIN Working(source, new) <=> k \in DOMAIN Working(source, old)
           /\ k \in DOMAIN Working(source, old) =>
                 Working(source, new)[k] = Working(source, old)[k]
<1>1. k # "owner" /\ k # "template-version" /\ k \notin DOMAIN Target(source, old).spec.annotations
  BY DEF HookKeys
<1>2. /\ k \in DOMAIN new.annotations <=> k \in DOMAIN Working(source, old)
      /\ k \in DOMAIN Working(source, old) => new.annotations[k] = Working(source, old)[k]
  BY <1>1 DEF IsUpgrade, Overlaid, Single
<1>3. /\ k \in DOMAIN Working(source, new)
           <=> k \in DOMAIN Target(source, old).annotations \/ k \in DOMAIN new.annotations
      /\ k \in DOMAIN new.annotations => Working(source, new)[k] = new.annotations[k]
  BY <1>1 DEF Working, OldFirst, Overlaid, Single
<1>4. k \in DOMAIN Target(source, old).annotations => k \in DOMAIN Working(source, old)
  BY DEF Working, OldFirst, Overlaid
<1> QED
  BY <1>2, <1>3, <1>4

\* Context that was complete is complete the next time.
LEMMA CompleteAgain ==
    ASSUME NEW source, NEW old, NEW new, IsUpgrade(source, old, new), Regular(old),
           Target(source, new) = Target(source, old), SoundSpec(Target(source, old).spec),
           HookKeys \cap DOMAIN Target(source, old).spec.annotations = {},
           ContextComplete(Working(source, old), Context(old.containers[1].env))
    PROVE  ContextComplete(Working(source, new), Context(new.containers[1].env))
<1> DEFINE env == Target(source, old).spec.containers[1].env
           oldEnv == old.containers[1].env
           newEnv == new.containers[1].env
           key == "required-context"
<1>1. /\ IsSeq(env) /\ NamedOnce(env) /\ IsSeq(oldEnv) /\ RegularEnv(oldEnv)
      /\ newEnv = Renewed(env, oldEnv)
  BY DEF Regular, SoundSpec, Shaped, IsUpgrade
<1> SUFFICES ASSUME key \in DOMAIN Working(source, new)
             PROVE  \E i \in DOMAIN Context(newEnv) :
                       Context(newEnv)[i].name = Working(source, new)[key]
  BY DEF ContextComplete
<1>2. key \in DOMAIN Working(source, old) /\ Working(source, new)[key] = Working(source, old)[key]
  BY WorkingAgain DEF HookKeys
<1>3. PICK i \in DOMAIN Context(oldEnv) : Context(oldEnv)[i].name = Working(source, old)[key]
  BY <1>2 DEF ContextComplete
<1> HIDE DEF env, oldEnv, newEnv
<1>4. PICK j \in Valued(oldEnv) : Context(oldEnv)[i] = oldEnv[j]
  BY <1>1, ContextFacts
<1>5. PICK p \in Valued(newEnv) : newEnv[p].name = oldEnv[j].name
  BY <1>1, RenewedValued
<1>6. PICK q \in DOMAIN Context(newEnv) : Context(newEnv)[q].name = newEnv[p].name
  <2>1. IsSeq(newEnv)
    BY <1>1, RenewedFacts
  <2> QED
    BY <2>1, ContextFacts
<1> QED
  BY <1>2, <1>3, <1>4, <1>5, <1>6

\* The second of two upgrades to one template changes nothing.
LEMMA UpgradeSettles ==
    ASSUME NEW source, NEW old, NEW new, NEW again, Regular(old),
           IsUpgrade(source, old, new), IsUpgrade(source, new, again),
           Target(source, new) = Target(source, old), SoundSpec(Target(source, old).spec),
           HookKeys \cap DOMAIN Target(source, old).spec.annotations = {}
    PROVE  Alike(new, again)
<1> DEFINE t == Target(source, old)
           spec == t.spec
           owner == old.labels["owner"]
<1>1. new.labels["owner"] = owner
  BY UpgradeRegular
<1>2. Environment(new) = Environment(again)
  <2> DEFINE env == spec.containers[1].env
             oldEnv == old.containers[1].env
  <2>1. /\ IsSeq(env) /\ NamedOnce(env) /\ IsSeq(oldEnv) /\ RegularEnv(oldEnv)
        /\ new.containers[1].env = Renewed(env, oldEnv)
        /\ again.containers[1].env = Renewed(env, Renewed(env, oldEnv))
    BY DEF Regular, SoundSpec, Shaped, IsUpgrade
  <2> HIDE DEF env, oldEnv
  <2> QED
    BY <2>1, RenewedSettles, EnvironmentIs
<1>3. again.volumes = new.volumes
  <2> DEFINE base == spec.volumes
             olds == old.volumes
  <2>1. /\ IsSeq(base) /\ NamedOnce(base) /\ IsSeq(olds)
        /\ new.volumes = PutAll(base, olds) /\ again.volumes = PutAll(base, new.volumes)
    BY DEF Regular, SoundSpec, Shaped, IsUpgrade
  <2> HIDE DEF base, olds
  <2> QED
    BY <2>1, PutAllBack
<1>4. again.containers[1].mounts = new.containers[1].mounts
  <2> DEFINE base == spec.containers[1].mounts
             olds == old.containers[1].mounts
  <2>1. /\ IsSeq(base) /\ IsSeq(olds)
        /\ new.containers[1].mounts = MountsKept(base, olds)
        /\ again.containers[1].mounts = MountsKept(base, new.containers[1].mounts)
    BY DEF Regular, SoundSpec, Shaped, IsUpgrade
  <2> HIDE DEF base, olds
  <2> QED
    BY <2>1, MountsKeptBack
<1>5. again.account = new.account
  BY DEF Regular, IsUpgrade, Or
<1>6. again.labels = new.labels
  <2> DEFINE Labels(l) == Overlaid(Overlaid(Overlaid(t.labels, l), spec.labels),
                                   Single("owner", owner))
  <2>1. new.labels = Labels(old.labels) /\ again.labels = Labels(new.labels)
    BY <1>1 DEF IsUpgrade
  <2>2. Labels(Labels(old.labels)) = Labels(old.labels)
    <3>1. DOMAIN Labels(Labels(old.labels)) = DOMAIN Labels(old.labels)
      BY DEF Overlaid
    <3>2. \A k \in DOMAIN Labels(old.labels) : Labels(Labels(old.labels))[k] = Labels(old.labels)[k]
      BY DEF Overlaid
    <3> QED
      BY <3>1, <3>2 DEF Overlaid
  <2> QED
    BY <2>1, <2>2
<1>7. again.annotations = new.annotations
  <2> DEFINE Notes(a) == Overlaid(Overlaid(Overlaid(Overlaid(t.annotations, a),
                                                    Single("template-version", t.version)),
                                           spec.annotations),
                                  Single("owner", owner))
  <2>1. new.annotations = Notes(old.annotations) /\ again.annotations = Notes(new.annotations)
    BY <1>1 DEF IsUpgrade, Working, OldFirst
  <2>2. Notes(Notes(old.annotations)) = Notes(old.annotations)
    <3>1. DOMAIN Notes(Notes(old.annotations)) = DOMAIN Notes(old.annotations)
      BY DEF Overlaid
    <3>2. \A k \in DOMAIN Notes(old.annotations) :
              Notes(Notes(old.annotations))[k] = Notes(old.annotations)[k]
      BY DEF Overlaid
    <3> QED
      BY <3>1, <3>2 DEF Overlaid
  <2> QED
    BY <2>1, <2>2
<1>8. again.inits = new.inits /\ Face(again) = Face(new)
  <2>1. /\ "init-image" \in DOMAIN Working(source, new)
             <=> "init-image" \in DOMAIN Working(source, old)
        /\ "sidecar-image" \in DOMAIN Working(source, new)
             <=> "sidecar-image" \in DOMAIN Working(source, old)
        /\ "sidecar-image" \in DOMAIN Working(source, old) =>
             Working(source, new)["sidecar-image"] = Working(source, old)["sidecar-image"]
    BY WorkingAgain DEF HookKeys
  <2>2. HookedInits(spec, Working(source, new)) = HookedInits(spec, Working(source, old))
    BY <2>1 DEF HookedInits
  <2>3. HookedFace(spec, Working(source, new)) = HookedFace(spec, Working(source, old))
    BY <2>1 DEF HookedFace
  <2> QED
    BY <2>2, <2>3 DEF IsUpgrade
<1> QED
  BY <1>2, <1>3, <1>4, <1>5, <1>6, <1>7, <1>8 DEF Alike, Face

-----------------------------------------------------------------------------
(* Upgraded pods *)

\* NotSet is told apart from every spec.
NotSetIsNoSpec == \A s : SpecFields \subseteq DOMAIN s => s # NotSet

\* The template, if there is one, is sound as the user gets it.
SoundTemplate(source, user) ==
    Resolved(source, user) # NotSet => SoundSpec(Resolved(source, user).spec)

\* When UpgradedPod returns a pod, it is an upgrade.
LEMMA UpgradedIs ==
    ASSUME NEW source, NEW old, SoundTemplate(source, old.labels["owner"]),
           UpgradedPod(source, old) # NotSet
    PROVE  /\ Target(source, old) # NotSet /\ SoundSpec(Target(source, old).spec)
           /\ ContextComplete(Working(source, old), Context(old.containers[1].env))
           /\ IsUpgrade(source, old, UpgradedPod(source, old))
<1>1. Target(source, old) # NotSet
  BY DEF UpgradedPod, Target
<1>2. ContextComplete(Working(source, old), Context(old.containers[1].env))
  BY DEF UpgradedPod, Target, Working, Context, OldContext, Valued
<1>3. SoundSpec(Target(source, old).spec)
  BY <1>1 DEF SoundTemplate, Target
<1> QED
  BY <1>1, <1>2, <1>3, UpgradedFacts DEF SoundSpec

\* An upgraded pod keeps what belongs to the workspace, and can be upgraded in turn.
LEMMA UpgradedPodKeeps ==
    ASSUME NEW source, NEW old, Regular(old), SoundTemplate(source, old.labels["owner"]),
           UpgradedPod(source, old) # NotSet
    PROVE  /\ Keeps(UpgradedPod(source, old), old, source)
           /\ Regular(UpgradedPod(source, old))
           /\ UpgradedPod(source, old).labels["owner"] = old.labels["owner"]
BY UpgradedIs, UpgradeKeeps, UpgradeRegular

\* While the template stays as it is, the next upgrade succeeds and changes nothing.
LEMMA UpgradedPodSettles ==
    ASSUME NotSetIsNoSpec, NEW source, NEW old, Regular(old),
           SoundTemplate(source, old.labels["owner"]),
           HookKeys \cap DOMAIN Resolved(source, old.labels["owner"]).spec.annotations = {},
           UpgradedPod(source, old) # NotSet
    PROVE  LET again == UpgradedPod(source, UpgradedPod(source, old))
           IN  again # NotSet /\ Alike(UpgradedPod(source, old), again)
<1> DEFINE new == UpgradedPod(source, old)
           again == UpgradedPod(source, new)
<1>1. /\ Target(source, old) # NotSet /\ SoundSpec(Target(source, old).spec)
      /\ ContextComplete(Working(source, old), Context(old.containers[1].env))
      /\ IsUpgrade(source, old, new)
  BY UpgradedIs
<1> HIDE DEF new
<1>2. new.labels["owner"] = old.labels["owner"]
  BY <1>1, UpgradeRegular
<1>3. /\ Target(source, new) = Target(source, old)
      /\ HookKeys \cap DOMAIN Target(source, old).spec.annotations = {}
  BY <1>2 DEF Target
<1>4. ContextComplete(Working(source, new), Context(new.containers[1].env))
  BY <1>1, <1>3, CompleteAgain
<1>5. IsUpgrade(source, new, again)
  BY <1>1, <1>3, <1>4, UpgradedFacts DEF SoundSpec
<1> HIDE DEF again
<1>6. again # NotSet
  BY <1>5 DEF NotSetIsNoSpec, IsUpgrade
<1>7. Alike(new, again)
  BY <1>1, <1>3, <1>5, UpgradeSettles
<1> QED
  BY <1>6, <1>7 DEF new, again

\* Nor do listings call the pod outdated.
LEMMA UpgradedPodUpToDate ==
    ASSUME NEW source, NEW old, SoundTemplate(source, old.labels["owner"]),
           UpgradedPod(source, old) # NotSet, Versioned(source, old.labels["owner"])
    PROVE  ~Outdated(UpgradedPod(source, old), source)
<1> DEFINE new == UpgradedPod(source, old)
           t == Target(source, old)
<1>1. t # NotSet /\ IsUpgrade(source, old, new)
  BY UpgradedIs
<1> HIDE DEF new
<1>2. "template-version" \notin DOMAIN t.spec.annotations
  BY DEF Versioned, Target
<1>3. new.annotations["template-version"] = t.version
      /\ "template-version" \in DOMAIN new.annotations
  BY <1>1, <1>2 DEF IsUpgrade, Working, Overlaid, Single
<1>4. t.version = LatestVersion(source)
  BY <1>1 DEF Target, Resolved, LatestVersion, Versioned, Or
<1> QED
  BY <1>3, <1>4 DEF Outdated, new

-----------------------------------------------------------------------------
(* Spawned pods *)

\* What is passed to spawn_workspace: the context is a record of values.
SoundCall(call) ==
    /\ IsSeq(call.context) /\ \A i \in DOMAIN call.context : call.context[i].value # NotSet
    /\ IsSeq(call.containers)
    /\ \A i \in DOMAIN call.containers :
          call.containers[i].env = NotSet \/ IsSeq(call.containers[i].env)

\* What the caller's containers can do to the main container.
LEMMA OverriddenFacts ==
    ASSUME NEW c, {"name", "image", "env", "mounts"} \subseteq DOMAIN c,
           IsSeq(c.env), NamedOnce(c.env),
           NEW o, o.env = NotSet \/ IsSeq(o.env)
    PROVE  LET d == Overridden(c, o)
           IN  DOMAIN d = DOMAIN c /\ d.mounts = c.mounts /\ IsSeq(d.env) /\ NamedOnce(d.env)
<1> DEFINE merged == PutAll(PutAll(<<>>, c.env), o.env)
           d == Overridden(c, o)
<1>1. /\ DOMAIN d = DOMAIN c /\ d.mounts = c.mounts
      /\ d.env = IF o.env = NotSet THEN c.env ELSE merged
  BY DEF Overridden
<1>2. ASSUME IsSeq(o.env) PROVE IsSeq(merged) /\ NamedOnce(merged)
  <2> DEFINE base == PutAll(<<>>, c.env)
  <2>1. IsSeq(base) /\ NamedOnce(base)
    BY EmptyBase DEF PutAll
  <2> HIDE DEF base
  <2>2. Result(base, o.env, DOMAIN o.env, PutAll(base, o.env))
    BY <1>2, <2>1, PutResult DEF PutAll
  <2>3. IsSeq(PutAll(base, o.env)) /\ NamedOnce(PutAll(base, o.env))
    BY <2>1, <2>2, ResultNamedOnce DEF Result, PlacesKept
  <2> QED
    BY <2>3 DEF base
<1> HIDE DEF merged, d
<1>3. IsSeq(d.env) /\ NamedOnce(d.env)
  BY <1>1, <1>2
<1> QED
  BY <1>1, <1>3 DEF d

LEMMA MergedMain ==
    ASSUME NEW spec, SoundSpec(spec), NEW call, SoundCall(call)
    PROVE  LET cs == MergedContainers(spec.containers, call.containers)
           IN  /\ IsSeq(cs) /\ 1 \in DOMAIN cs
               /\ {"name", "image", "env", "mounts"} \subseteq DOMAIN cs[1]
               /\ cs[1].mounts = spec.containers[1].mounts
               /\ IsSeq(cs[1].env) /\ NamedOnce(cs[1].env)
<1> DEFINE base == spec.containers
           over == call.containers
           cs == MergedContainers(base, over)
           I == {i \in 1..Len(over) : over[i].name = base[1].name}
           j == Seqs!SelectInSeq(over, LAMBDA o : o.name = base[1].name)
<1>1. /\ IsSeq(base) /\ DOMAIN base = 1..Len(base) /\ Len(base) \in Nat /\ 1 \in DOMAIN base
      /\ {"name", "image", "env", "mounts"} \subseteq DOMAIN base[1]
      /\ IsSeq(base[1].env) /\ NamedOnce(base[1].env)
      /\ DOMAIN over = 1..Len(over) /\ Len(over) \in Nat
  BY SeqFacts DEF SoundSpec, Shaped, SoundCall
<1>2. j = 0 \/ j \in DOMAIN over
  <2>1. j = IF I # {} THEN Seqs!Min(I) ELSE 0
    BY DEF Seqs!SelectInSeq
  <2>2. I # {} => Seqs!Min(I) \in I
    <3>1. I \in SUBSET Nat
      BY <1>1
    <3> HIDE DEF I
    <3> QED
      BY <3>1, MinFact
  <2> QED
    BY <1>1, <2>1, <2>2
<1>3. DOMAIN cs = 1..Len(base) /\ cs[1] = IF j = 0 THEN base[1] ELSE Overridden(base[1], over[j])
  BY <1>1 DEF MergedContainers
<1>4. IsSeq(cs)
  <2> DEFINE T == {cs[i] : i \in DOMAIN cs}
  <2>1. cs = [i \in 1..Len(base) |-> cs[i]]
    BY <1>1 DEF MergedContainers
  <2> HIDE DEF cs
  <2>2. cs \in [1..Len(base) -> T]
    BY <1>3, <2>1
  <2>3. cs \in Seq(T)
    <3> HIDE DEF T
    <3> QED
      BY <1>1, <2>2
  <2> QED
    BY <2>3 DEF IsSeq
<1> HIDE DEF j, cs
<1>5. CASE j = 0
  BY <1>1, <1>3, <1>4, <1>5 DEF cs
<1>6. CASE j \in DOMAIN over
  <2>1. over[j].env = NotSet \/ IsSeq(over[j].env)
    BY <1>6 DEF SoundCall
  <2>2. cs[1] = Overridden(base[1], over[j])
    BY <1>1, <1>3, <1>6
  <2> HIDE DEF base, over
  <2>3. /\ DOMAIN cs[1] = DOMAIN base[1] /\ cs[1].mounts = base[1].mounts
        /\ IsSeq(cs[1].env) /\ NamedOnce(cs[1].env)
    BY <1>1, <2>1, <2>2, OverriddenFacts
  <2> QED
    BY <1>1, <1>3, <1>4, <2>3 DEF cs, base, over
<1> QED
  BY <1>2, <1>5, <1>6

\* The environment of a spawned pod: that of the template, then the context.
LEMMA SpawnedEnv ==
    ASSUME NEW a, IsSeq(a), NamedOnce(a), NEW c, IsSeq(c), \A i \in DOMAIN c : c[i].value # NotSet
    PROVE  IsSeq(a \o c) /\ RegularEnv(a \o c)
<1> DEFINE e == a \o c
<1>1. /\ IsSeq(e) /\ DOMAIN e = 1..(Len(a) + Len(c)) /\ Len(a) \in Nat /\ Len(c) \in Nat
      /\ \A i \in 1..(Len(a) + Len(c)) : e[i] = IF i <= Len(a) THEN a[i] ELSE c[i - Len(a)]
      /\ DOMAIN a = 1..Len(a) /\ DOMAIN c = 1..Len(c)
  BY ConcatFacts, SeqFacts
<1> HIDE DEF e
<1>2. \A i \in DOMAIN e : e[i].value = NotSet => i <= Len(a)
  <2> SUFFICES ASSUME NEW i \in DOMAIN e, i > Len(a) PROVE e[i].value # NotSet
    BY <1>1
  <2>1. e[i] = c[i - Len(a)] /\ i - Len(a) \in DOMAIN c
    BY <1>1
  <2> QED
    BY <2>1
<1>3. ASSUME NEW i \in DOMAIN e, NEW j \in DOMAIN e, IsLast(e, i), e[i].value = NotSet,
             e[j].name = e[i].name
      PROVE  i = j
  <2>1. i <= Len(a) /\ j <= i
    BY <1>2, <1>3 DEF IsLast
  <2>2. i \in DOMAIN a /\ j \in DOMAIN a /\ a[i] = e[i] /\ a[j] = e[j]
    BY <1>1, <2>1
  <2> QED
    BY <1>3, <2>2 DEF NamedOnce
<1> QED
  BY <1>1, <1>3 DEF RegularEnv, e

\* A spawned pod can be upgraded.
LEMMA SpawnedPodRegular ==
    ASSUME "provisioned" # NotSet, NEW source, NEW call, NEW user,
           SoundTemplate(source, user), SoundCall(call), SpawnedPod(source, call, user) # NotSet
    PROVE  /\ Regular(SpawnedPod(source, call, user))
           /\ SpawnedPod(source, call, user).labels["owner"] = user
<1> DEFINE t == Resolved(source, user)
           cs == MergedContainers(t.spec.containers, call.containers)
           l == Or(call.top.labels, t.spec.labels)
           a == Or(call.top.annotations, t.spec.annotations)
           account == Or(Or(call.top.account, t.spec.account), "provisioned")
           spec == [t.spec EXCEPT !.labels = l, !.annotations = a, !.account = account,
                                  !.containers = cs]
           annotations == Overlaid(Stamped(t), call.annotations)
           d == Decorated(spec, annotations, call.context)
           labels == Overlaid(d.labels, Overlaid(Overlaid(t.labels, call.labels),
                                                 Single("owner", user)))
           notes == Overlaid(Overlaid(annotations, d.annotations), Single("owner", user))
           pod == [d EXCEPT !.labels = labels, !.annotations = notes]
<1>1. t # NotSet /\ SpawnedPod(source, call, user) = pod
  BY DEF SpawnedPod
<1>2. SoundSpec(t.spec)
  BY <1>1 DEF SoundTemplate
<1>3. /\ IsSeq(cs) /\ 1 \in DOMAIN cs
      /\ {"name", "image", "env", "mounts"} \subseteq DOMAIN cs[1]
      /\ cs[1].mounts = t.spec.containers[1].mounts
      /\ IsSeq(cs[1].env) /\ NamedOnce(cs[1].env)
  <2> HIDE DEF t
  <2> QED
    BY <1>2, MergedMain
<1>4. account # NotSet
  BY DEF Or
<1> HIDE DEF t, cs, l, a, account, annotations
<1>5. /\ DOMAIN spec = DOMAIN t.spec /\ spec.containers = cs /\ spec.volumes = t.spec.volumes
      /\ spec.account = account
  BY <1>2 DEF SoundSpec, Shaped, SpecFields
<1> HIDE DEF spec
<1>6. Shaped(spec)
  BY <1>2, <1>3, <1>5 DEF SoundSpec, Shaped
<1>7. IsDecorated(spec, call.context, d)
  BY <1>6, DecoratedFacts
<1> HIDE DEF d
<1>8. SpecFields \subseteq DOMAIN d
  BY <1>6, <1>7 DEF Shaped, IsDecorated
<1>9. labels["owner"] = user /\ "owner" \in DOMAIN labels /\ notes["owner"] = user
  BY DEF Overlaid, Single
<1> HIDE DEF labels, notes
<1>10. /\ pod.labels = labels /\ pod.annotations = notes
       /\ pod.volumes = d.volumes /\ pod.account = d.account /\ pod.containers = d.containers
  BY <1>8 DEF SpecFields
<1> HIDE DEF pod
<1>11. IsSeq(pod.volumes) /\ NamedOnce(pod.volumes) /\ pod.account # NotSet
  BY <1>2, <1>4, <1>5, <1>7, <1>10 DEF SoundSpec, Shaped, IsDecorated
<1>12. IsSeq(pod.containers[1].mounts)
  BY <1>2, <1>3, <1>5, <1>7, <1>10 DEF SoundSpec, Shaped, IsDecorated
<1>13. IsSeq(pod.containers[1].env) /\ RegularEnv(pod.containers[1].env)
  <2>1. pod.containers[1].env = cs[1].env \o call.context
    BY <1>5, <1>7, <1>10 DEF IsDecorated
  <2> QED
    BY <1>3, <2>1, SpawnedEnv DEF SoundCall
<1> QED
  BY <1>1, <1>9, <1>10, <1>11, <1>12, <1>13 DEF Regular

-----------------------------------------------------------------------------
(* Upgrade after upgrade *)

\* What q still has of p.
StillHas(q, p) ==
    /\ q.labels["owner"] = p.labels["owner"]
    /\ Environment(p) \subseteq Environment(q)
    /\ Seqs!ToSet(p.volumes) \subseteq Seqs!ToSet(q.volumes)
    /\ Mounted(p) \subseteq Mounted(q)
    /\ q.account = p.account

\* However often a workspace is upgraded, and whatever becomes of its template in between,
\* it keeps its owner, environment, volumes, mounts and service account: each upgrade takes
\* the pod that the one before has made for the old one (upgrade.ts:46-242).
THEOREM ManyUpgradesKeepContents ==
    ASSUME NEW n \in Nat, NEW pod, NEW source, Regular(pod[0]),
           \A i \in 1..n : /\ SoundTemplate(source[i], pod[0].labels["owner"])
                           /\ pod[i] = UpgradedPod(source[i], pod[i - 1]) /\ pod[i] # NotSet
    PROVE  Regular(pod[n]) /\ StillHas(pod[n], pod[0])
<1> DEFINE S == {i \in 0..n : Regular(pod[i]) /\ StillHas(pod[i], pod[0])}
<1>1. 0 \in S
  <2>1. StillHas(pod[0], pod[0])
    BY DEF StillHas
  <2> QED
    BY <2>1
<1>2. ASSUME NEW i \in 1..n, i - 1 \in S PROVE i \in S
  <2> DEFINE old == pod[i - 1]
             new == pod[i]
             src == source[i]
  <2>1. /\ Regular(old) /\ StillHas(old, pod[0])
        /\ new = UpgradedPod(src, old) /\ new # NotSet
        /\ SoundTemplate(src, old.labels["owner"])
    BY <1>2 DEF StillHas
  <2> HIDE DEF old, new, src
  <2>2. Keeps(new, old, src) /\ Regular(new) /\ new.labels["owner"] = old.labels["owner"]
    BY <2>1, UpgradedPodKeeps
  <2>3. StillHas(new, pod[0])
    BY <2>1, <2>2 DEF StillHas, Keeps
  <2> QED
    BY <2>2, <2>3 DEF new
<1>3. 0..n \subseteq S
  <2> HIDE DEF S
  <2> QED
    BY <1>1, <1>2, UpTo
<1>4. n \in S
  <2> HIDE DEF S
  <2> QED
    BY <1>3
<1> QED
  BY <1>4

=============================================================================
