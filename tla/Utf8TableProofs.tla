-------------------------- MODULE Utf8TableProofs --------------------------
(***************************************************************************)
(* Facts about well-formed UTF-8 as Utf8Table defines it.  The recursive   *)
(* function in ValidFrom is, to the prover, some function that satisfies   *)
(* its defining equation; UnfoldValid shows that there is one, and hence   *)
(* that ValidFrom satisfies the equation.  Its witness is built without    *)
(* induction: a suffix is well-formed when some set of boundaries leads    *)
(* from its start to the end of the range.                                 *)
(***************************************************************************)
EXTENDS Utf8Table, TLAPS, WellFoundedInduction

(***************************************************************************)
(* A row of Table 3-7 has one to four positions, and a match lies in the   *)
(* range.                                                                  *)
(***************************************************************************)
LEMMA RowLengths == \A row \in Table37 : Len(row) \in 1 .. 4
  BY DEF Table37

\* table_3_7 returns at most 4, and never more than the bytes that are left.
LEMMA TableRange ==
  ASSUME NEW b, NEW k \in Nat, NEW e \in Nat
  PROVE  /\ table_3_7(b, k, e) \in 0 .. 4
         /\ table_3_7(b, k, e) > 0 => k + table_3_7(b, k, e) <= e
<1>1. CASE \E row \in Table37 : MatchesAt(row, b, k, e)
  <2>1. PICK row \in Table37 :
          MatchesAt(row, b, k, e) /\ table_3_7(b, k, e) = Len(row)
    BY <1>1 DEF table_3_7
  <2>2. Len(row) \in 1 .. 4
    BY RowLengths
  <2>3. k + Len(row) <= e
    BY <2>1 DEF MatchesAt
  <2> QED BY <2>1, <2>2, <2>3
<1>2. CASE ~ \E row \in Table37 : MatchesAt(row, b, k, e)
  BY <1>2 DEF table_3_7
<1> QED BY <1>1, <1>2

(***************************************************************************)
(* B leads from k to e: k is in it, and from each boundary but the last    *)
(* one well-formed sequence leads to another.                              *)
(***************************************************************************)
LeadsToEnd(B, b, k, e) ==
  /\ k \in B
  /\ \A j \in B \ {e} : table_3_7(b, j, e) > 0 /\ j + table_3_7(b, j, e) \in B

HasBoundaries(b, k, e) == \E B \in SUBSET (k .. e) : LeadsToEnd(B, b, k, e)

\* A split into well-formed sequences: empty, or a sequence and a split of the rest.
LEMMA UnfoldBoundaries ==
  ASSUME NEW b, NEW e \in Nat, NEW k \in 0 .. e
  PROVE  HasBoundaries(b, k, e) <=>
           \/ k = e
           \/ /\ table_3_7(b, k, e) > 0
              /\ HasBoundaries(b, k + table_3_7(b, k, e), e)
<1> DEFINE n(j) == table_3_7(b, j, e)
<1>0. \A j \in 0 .. e : n(j) \in 0 .. 4 /\ (n(j) > 0 => j + n(j) <= e)
  BY TableRange
<1> HIDE DEF n
<1>1. ASSUME k = e PROVE HasBoundaries(b, k, e)
  <2>1. LeadsToEnd({e}, b, k, e)
    BY <1>1 DEF LeadsToEnd
  <2> QED BY <1>1, <2>1 DEF HasBoundaries
<1>2. ASSUME k # e, n(k) > 0, HasBoundaries(b, k + n(k), e)
      PROVE  HasBoundaries(b, k, e)
  <2>1. PICK B \in SUBSET (k + n(k) .. e) : LeadsToEnd(B, b, k + n(k), e)
    BY <1>2 DEF HasBoundaries
  <2>2. LeadsToEnd(B \cup {k}, b, k, e)
    BY <2>1, <1>0, <1>2 DEF LeadsToEnd, n
  <2>3. B \cup {k} \in SUBSET (k .. e)
    BY <1>0, <1>2
  <2> QED BY <2>2, <2>3 DEF HasBoundaries
<1>3. ASSUME k # e, HasBoundaries(b, k, e)
      PROVE  n(k) > 0 /\ HasBoundaries(b, k + n(k), e)
  <2>1. PICK B \in SUBSET (k .. e) : LeadsToEnd(B, b, k, e)
    BY <1>3 DEF HasBoundaries
  <2>2. n(k) > 0 /\ k + n(k) \in B
    BY <2>1, <1>3 DEF LeadsToEnd, n
  <2> DEFINE C == B \cap (k + n(k) .. e)
  <2>3. \A j \in C \ {e} : n(j) > 0 /\ j + n(j) \in C
    BY <2>1, <2>2, <1>0 DEF LeadsToEnd, n
  <2>4. LeadsToEnd(C, b, k + n(k), e)
    BY <2>2, <2>3, <1>0 DEF LeadsToEnd, n
  <2> QED BY <2>2, <2>4 DEF HasBoundaries
<1> QED BY <1>1, <1>2, <1>3 DEF n

\* ValidFrom unfolded once, which is how the source writes is_valid_utf8.
LEMMA UnfoldValid ==
  ASSUME NEW b, NEW e \in Nat, NEW k \in 0 .. e
  PROVE  /\ ValidFrom(b, e)[k] \in BOOLEAN
         /\ ValidFrom(b, e)[k] <=>
              \/ k = e
              \/ /\ table_3_7(b, k, e) > 0
                 /\ ValidFrom(b, e)[k + table_3_7(b, k, e)]
<1> DEFINE Body(g) ==
      [ j \in 0 .. e |-> \/ j = e
                         \/ /\ table_3_7(b, j, e) > 0
                            /\ g[j + table_3_7(b, j, e)] ]
<1> DEFINE h == [ j \in 0 .. e |-> HasBoundaries(b, j, e) ]
<1>1. ASSUME NEW j \in 0 .. e
      PROVE  h[j] = (j = e \/ (table_3_7(b, j, e) > 0 /\ h[j + table_3_7(b, j, e)]))
  <2>1. table_3_7(b, j, e) > 0 => j + table_3_7(b, j, e) \in 0 .. e
    BY TableRange
  <2>2. h[j] = HasBoundaries(b, j, e)
    OBVIOUS
  <2>3. table_3_7(b, j, e) > 0 =>
          h[j + table_3_7(b, j, e)] = HasBoundaries(b, j + table_3_7(b, j, e), e)
    BY <2>1
  <2>4. HasBoundaries(b, j, e) =
          (j = e \/ (table_3_7(b, j, e) > 0
                       /\ HasBoundaries(b, j + table_3_7(b, j, e), e)))
    <3>1. HasBoundaries(b, j, e) \in BOOLEAN
      BY DEF HasBoundaries
    <3> QED BY <3>1, UnfoldBoundaries
  <2> HIDE DEF h
  <2> QED BY <2>2, <2>3, <2>4
<1>2. h = Body(h)
  BY <1>1
<1>3. ValidFrom(b, e) = CHOOSE g : g = Body(g)
  BY DEF ValidFrom
<1>4. ValidFrom(b, e) = Body(ValidFrom(b, e))
  <2> HIDE DEF Body, h
  <2> QED BY <1>2, <1>3
<1>5. Body(ValidFrom(b, e))[k] =
        ( \/ k = e
          \/ /\ table_3_7(b, k, e) > 0
             /\ ValidFrom(b, e)[k + table_3_7(b, k, e)] )
  OBVIOUS
<1> HIDE DEF Body, h
<1>6. ValidFrom(b, e)[k] =
        ( \/ k = e
          \/ /\ table_3_7(b, k, e) > 0
             /\ ValidFrom(b, e)[k + table_3_7(b, k, e)] )
  BY <1>4, <1>5
<1> QED BY <1>6, Zenon

-----------------------------------------------------------------------------
(***************************************************************************)
(* Matching a row, position by position.                                   *)
(***************************************************************************)
LEMMA Match1 ==
  ASSUME NEW A, NEW b, NEW k \in Nat, NEW e \in Nat
  PROVE  MatchesAt(<< A >>, b, k, e) <=> k + 1 <= e /\ b[k] \in A
  BY DEF MatchesAt

\* The same for a row of two ranges.
LEMMA Match2 ==
  ASSUME NEW A, NEW B, NEW b, NEW k \in Nat, NEW e \in Nat
  PROVE  MatchesAt(<< A, B >>, b, k, e) <=>
           k + 2 <= e /\ b[k] \in A /\ b[k + 1] \in B
  BY DEF MatchesAt

\* The same for a row of three ranges.
LEMMA Match3 ==
  ASSUME NEW A, NEW B, NEW C, NEW b, NEW k \in Nat, NEW e \in Nat
  PROVE  MatchesAt(<< A, B, C >>, b, k, e) <=>
           k + 3 <= e /\ b[k] \in A /\ b[k + 1] \in B /\ b[k + 2] \in C
  BY DEF MatchesAt

\* The same for a row of four ranges.
LEMMA Match4 ==
  ASSUME NEW A, NEW B, NEW C, NEW D, NEW b, NEW k \in Nat, NEW e \in Nat
  PROVE  MatchesAt(<< A, B, C, D >>, b, k, e) <=>
           /\ k + 4 <= e /\ b[k] \in A /\ b[k + 1] \in B
           /\ b[k + 2] \in C /\ b[k + 3] \in D
  BY DEF MatchesAt

(***************************************************************************)
(* The lead byte determines the row.                                       *)
(***************************************************************************)
LEMMA LeadDecides ==
  ASSUME NEW r1 \in Table37, NEW r2 \in Table37, NEW x \in Int,
         x \in r1[1], x \in r2[1]
  PROVE  r1 = r2
<1> DEFINE Row(y, r) ==
      \/ y \in 0 .. 127 /\ r = << Ascii >>
      \/ y \in 194 .. 223 /\ r = << 194 .. 223, cont >>
      \/ y = 224 /\ r = << {224}, 160 .. 191, cont >>
      \/ y \in 225 .. 236 /\ r = << 225 .. 236, cont, cont >>
      \/ y = 237 /\ r = << {237}, 128 .. 159, cont >>
      \/ y \in 238 .. 239 /\ r = << 238 .. 239, cont, cont >>
      \/ y = 240 /\ r = << {240}, 144 .. 191, cont, cont >>
      \/ y \in 241 .. 243 /\ r = << 241 .. 243, cont, cont, cont >>
      \/ y = 244 /\ r = << {244}, 128 .. 143, cont, cont >>
<1>1. ASSUME NEW r \in Table37, x \in r[1] PROVE Row(x, r)
  BY <1>1 DEF Table37, Ascii
<1>2. Row(x, r1) /\ Row(x, r2)
  BY <1>1
<1> QED BY <1>2

\* A row can only match where its lead byte stands.
LEMMA MatchNeedsLead ==
  ASSUME NEW row \in Table37, NEW b, NEW k \in Nat, NEW e \in Nat,
         MatchesAt(row, b, k, e)
  PROVE  b[k] \in row[1]
<1>1. Len(row) \in 1 .. 4
  BY RowLengths
<1> QED BY <1>1 DEF MatchesAt

(***************************************************************************)
(* If the lead byte is that of a row, the rest of the range is well-formed *)
(* exactly when that row matches and what follows it is well-formed; if it *)
(* is that of no row, the range is not well-formed.                        *)
(***************************************************************************)
LEMMA ValidByRow ==
  ASSUME NEW b, NEW e \in Nat, NEW k \in 0 .. e - 1, b[k] \in Int,
         NEW row \in Table37, b[k] \in row[1]
  PROVE  is_valid_utf8(b, k, e) <=>
           MatchesAt(row, b, k, e) /\ is_valid_utf8(b, k + Len(row), e)
<1>1. ASSUME NEW r \in Table37, MatchesAt(r, b, k, e) PROVE r = row
  BY <1>1, MatchNeedsLead, LeadDecides
<1>2. Len(row) \in 1 .. 4
  BY RowLengths
<1>3. table_3_7(b, k, e) = IF MatchesAt(row, b, k, e) THEN Len(row) ELSE 0
  BY <1>1 DEF table_3_7
<1>4. ValidFrom(b, e)[k] <=> /\ table_3_7(b, k, e) > 0
                             /\ ValidFrom(b, e)[k + table_3_7(b, k, e)]
  BY UnfoldValid
<1> QED BY <1>2, <1>3, <1>4 DEF is_valid_utf8

\* A byte that leads no row makes the rest ill-formed.
LEMMA InvalidByLead ==
  ASSUME NEW b, NEW e \in Nat, NEW k \in 0 .. e - 1,
         \A row \in Table37 : b[k] \notin row[1]
  PROVE  ~ is_valid_utf8(b, k, e)
<1>1. table_3_7(b, k, e) = 0
  BY MatchNeedsLead DEF table_3_7
<1>2. ValidFrom(b, e)[k] <=> /\ table_3_7(b, k, e) > 0
                             /\ ValidFrom(b, e)[k + table_3_7(b, k, e)]
  BY UnfoldValid
<1> QED BY <1>1, <1>2 DEF is_valid_utf8

\* The empty range is well-formed.
LEMMA ValidAtEnd ==
  ASSUME NEW b, NEW e \in Nat
  PROVE  is_valid_utf8(b, e, e)
  BY UnfoldValid DEF is_valid_utf8

(***************************************************************************)
(* An ASCII byte in front makes no difference.                             *)
(***************************************************************************)
LEMMA AsciiStep ==
  ASSUME NEW b, NEW e \in Nat, NEW k \in 0 .. e - 1, b[k] \in Ascii
  PROVE  is_valid_utf8(b, k, e) <=> is_valid_utf8(b, k + 1, e)
<1>1. << Ascii >> \in Table37 /\ << Ascii >>[1] = Ascii /\ Len(<< Ascii >>) = 1
  BY DEF Table37
<1>2. MatchesAt(<< Ascii >>, b, k, e)
  BY Match1
<1>3. b[k] \in Int
  BY DEF Ascii
<1> QED BY <1>1, <1>2, <1>3, ValidByRow

(***************************************************************************)
(* Nor does a run of ASCII bytes, of a length the loops of the code cover  *)
(* in one iteration.                                                       *)
(***************************************************************************)
LEMMA AsciiRun8 ==
  ASSUME NEW b, NEW e \in Nat, NEW k \in Nat, NEW n \in 0 .. 8, k + n <= e,
         \A i \in k .. k + n - 1 : b[i] \in Ascii
  PROVE  is_valid_utf8(b, k, e) <=> is_valid_utf8(b, k + n, e)
<1> DEFINE V(i) == is_valid_utf8(b, k + i, e)
<1>1. ASSUME NEW i \in 0 .. 7, i < n PROVE V(i) <=> V(i + 1)
  <2>1. k + i \in 0 .. e - 1 /\ k + i \in k .. k + n - 1 /\ (k + i) + 1 = k + (i + 1)
    BY <1>1
  <2>2. b[k + i] \in Ascii
    BY <2>1
  <2>3. is_valid_utf8(b, k + i, e) <=> is_valid_utf8(b, (k + i) + 1, e)
    BY <2>1, <2>2, AsciiStep
  <2> QED BY <2>1, <2>3
<1> HIDE DEF V
<1>2. /\ 0 < n => (V(0) <=> V(1))
      /\ 1 < n => (V(1) <=> V(2))
      /\ 2 < n => (V(2) <=> V(3))
      /\ 3 < n => (V(3) <=> V(4))
      /\ 4 < n => (V(4) <=> V(5))
      /\ 5 < n => (V(5) <=> V(6))
      /\ 6 < n => (V(6) <=> V(7))
      /\ 7 < n => (V(7) <=> V(8))
  BY <1>1
<1>3. V(0) <=> V(n)
  BY <1>2
<1> QED BY <1>3 DEF V

\* The same for the 16-byte and the 32-byte blocks of ascii_skip::skip.
LEMMA AsciiRun32 ==
  ASSUME NEW b, NEW e \in Nat, NEW k \in Nat, NEW n \in 0 .. 32, k + n <= e,
         \A i \in k .. k + n - 1 : b[i] \in Ascii
  PROVE  is_valid_utf8(b, k, e) <=> is_valid_utf8(b, k + n, e)
<1> DEFINE V(i) == is_valid_utf8(b, k + i, e)
<1>1. ASSUME NEW i \in 0 .. 32, NEW m \in 0 .. 8, i + m <= n PROVE V(i) <=> V(i + m)
  <2>1. k + i \in Nat /\ k + i + m <= e /\ (k + i) + m = k + (i + m)
    BY <1>1
  <2>2. \A j \in k + i .. k + i + m - 1 : b[j] \in Ascii
    BY <1>1
  <2>3. is_valid_utf8(b, k + i, e) <=> is_valid_utf8(b, (k + i) + m, e)
    BY <2>1, <2>2, AsciiRun8
  <2> QED BY <2>1, <2>3
<1>2. 0 + n = n /\ 8 + (n - 8) = n /\ 16 + (n - 16) = n /\ 24 + (n - 24) = n
  OBVIOUS
<1> HIDE DEF V
<1>3. /\ 8 <= n => (V(0) <=> V(0 + 8))
      /\ 16 <= n => (V(8) <=> V(8 + 8))
      /\ 24 <= n => (V(16) <=> V(16 + 8))
  BY <1>1
<1>4. /\ n \in 0 .. 8 => (V(0) <=> V(0 + n))
      /\ n \in 8 .. 16 => (V(8) <=> V(8 + (n - 8)))
      /\ n \in 16 .. 24 => (V(16) <=> V(16 + (n - 16)))
      /\ n \in 24 .. 32 => (V(24) <=> V(24 + (n - 24)))
  BY <1>1
<1>5. V(0) <=> V(n)
  BY <1>2, <1>3, <1>4
<1> QED BY <1>5 DEF V

-----------------------------------------------------------------------------
(***************************************************************************)
(* Two ranges are compared suffix by suffix: if they differ anywhere, they *)
(* differ at a shortest suffix.                                            *)
(***************************************************************************)
LEMMA LeastOf ==
  ASSUME NEW S \in SUBSET Nat, S # {}
  PROVE  \E m \in S : \A i \in S : m <= i
<1> DEFINE R == OpToRel(<, Nat)
<1>1. PICK m \in S : \A i \in S : ~ (<< i, m >> \in R)
  <2>1. IsWellFoundedOn(R, Nat)
    BY NatLessThanWellFounded
  <2> HIDE DEF R
  <2> QED BY <2>1, WFMin
<1>2. \A i \in S : m <= i
  <2> TAKE i \in S
  <2>1. ~ (i < m)
    BY <1>1 DEF OpToRel
  <2> QED BY <2>1
<1> QED BY <1>2

(***************************************************************************)
(* Induction over positions, down from the end of a range and up from its  *)
(* beginning: the set S is that of the positions the claim holds of.       *)
(***************************************************************************)
LEMMA Downward ==
  ASSUME NEW e \in Nat, NEW S, e \in S,
         \A k \in 0 .. e - 1 : k + 1 \in S => k \in S
  PROVE  \A k \in 0 .. e : k \in S
<1> DEFINE Rest == { m \in 0 .. e : e - m \notin S }
<1>1. ASSUME Rest # {} PROVE FALSE
  <2>1. PICK m \in Rest : \A i \in Rest : m <= i
    <3>1. Rest \in SUBSET Nat
      OBVIOUS
    <3> HIDE DEF Rest
    <3> QED BY <1>1, <3>1, LeastOf
  <2>2. m \in 0 .. e /\ e - m \notin S /\ m # 0
    BY <2>1
  <2>3. m - 1 \in 0 .. e /\ m - 1 \notin Rest
    BY <2>1, <2>2
  <2>4. e - (m - 1) \in S /\ e - (m - 1) = (e - m) + 1 /\ e - m \in 0 .. e - 1
    BY <2>2, <2>3
  <2> QED BY <2>2, <2>4
<1>2. ASSUME NEW k \in 0 .. e PROVE k \in S
  <2>1. e - k \in 0 .. e /\ e - (e - k) = k
    OBVIOUS
  <2>2. e - k \notin Rest
    BY <1>1
  <2>3. e - (e - k) \in S
    BY <2>1, <2>2
  <2> QED BY <2>1, <2>3
<1> QED BY <1>2

LEMMA Upward ==
  ASSUME NEW e \in Nat, NEW k \in 0 .. e, NEW S, k \in S,
         \A j \in k .. e - 1 : j \in S => j + 1 \in S
  PROVE  \A j \in k .. e : j \in S
<1> DEFINE Rest == { j \in k .. e : j \notin S }
<1>1. ASSUME Rest # {} PROVE FALSE
  <2>1. PICK j \in Rest : \A i \in Rest : j <= i
    <3>1. Rest \in SUBSET Nat
      OBVIOUS
    <3> HIDE DEF Rest
    <3> QED BY <1>1, <3>1, LeastOf
  <2>2. j \in k .. e /\ j \notin S /\ j # k
    BY <2>1
  <2>3. j - 1 \in k .. e - 1 /\ j - 1 \in k .. e /\ j - 1 \notin Rest /\ (j - 1) + 1 = j
    BY <2>1, <2>2
  <2> QED BY <2>2, <2>3
<1> QED BY <1>1

\* table_3_7 returns the length of the row that matches.
LEMMA TableIs ==
  ASSUME NEW row \in Table37, NEW b, NEW k \in Nat, NEW e \in Nat, b[k] \in Int,
         MatchesAt(row, b, k, e)
  PROVE  table_3_7(b, k, e) = Len(row)
<1>1. ASSUME NEW r \in Table37, MatchesAt(r, b, k, e) PROVE r = row
  BY <1>1, MatchNeedsLead, LeadDecides
<1> QED BY <1>1 DEF table_3_7

(***************************************************************************)
(* Where the same rows match, table_3_7 returns the same.                  *)
(***************************************************************************)
LEMMA SameTable ==
  ASSUME NEW b, NEW k \in Nat, NEW e \in Nat, b[k] \in Int,
         NEW c, NEW j \in Nat, NEW f \in Nat, c[j] \in Int,
         \A row \in Table37 : MatchesAt(row, b, k, e) <=> MatchesAt(row, c, j, f)
  PROVE  table_3_7(b, k, e) = table_3_7(c, j, f)
<1>1. CASE \E row \in Table37 : MatchesAt(row, b, k, e)
  <2>1. PICK row \in Table37 : MatchesAt(row, b, k, e)
    BY <1>1
  <2> QED BY <2>1, TableIs
<1>2. CASE ~ \E row \in Table37 : MatchesAt(row, b, k, e)
  BY <1>2 DEF table_3_7
<1> QED BY <1>1, <1>2

(***************************************************************************)
(* A range of a slice is well-formed exactly when the same bytes are in    *)
(* the buffer the slice was taken of, d places further on.                 *)
(***************************************************************************)
LEMMA ValidShift ==
  ASSUME NEW b, NEW c, NEW d \in Nat, NEW e \in Nat, NEW k \in 0 .. e,
         \A i \in 0 .. e - 1 : c[i] = b[i + d] /\ c[i] \in Int
  PROVE  is_valid_utf8(c, k, e) <=> is_valid_utf8(b, k + d, e + d)
<1> DEFINE Same(j) == ValidFrom(c, e)[j] <=> ValidFrom(b, e + d)[j + d]
           Differ == { m \in 0 .. e : ~ Same(e - m) }
<1>1. ASSUME NEW j \in 0 .. e - 1
      PROVE  table_3_7(c, j, e) = table_3_7(b, j + d, e + d)
  <2>1. ASSUME NEW row \in Table37
        PROVE  MatchesAt(row, c, j, e) <=> MatchesAt(row, b, j + d, e + d)
    <3>1. Len(row) \in 1 .. 4
      BY RowLengths
    <3>2. j + Len(row) <= e <=> j + d + Len(row) <= e + d
      BY <3>1
    <3>3. ASSUME j + Len(row) <= e, NEW i \in 1 .. Len(row)
          PROVE  c[j + i - 1] = b[j + d + i - 1]
      <4>1. j + i - 1 \in 0 .. e - 1 /\ (j + i - 1) + d = j + d + i - 1
        BY <3>1, <3>3
      <4> QED BY <4>1
    <3> QED BY <3>1, <3>2, <3>3 DEF MatchesAt
  <2>2. j \in Nat /\ j + d \in Nat /\ e + d \in Nat /\ c[j] \in Int /\ b[j + d] \in Int
    BY <1>1
  <2> QED BY <2>1, <2>2, SameTable
<1>2. ASSUME Differ # {} PROVE FALSE
  <2>1. PICK m \in Differ : \A i \in Differ : m <= i
    <3>1. Differ \in SUBSET Nat
      OBVIOUS
    <3> HIDE DEF Differ
    <3> QED BY <1>2, <3>1, LeastOf
  <2> DEFINE j == e - m
             n == table_3_7(c, j, e)
  <2>2. m \in 0 .. e /\ j \in 0 .. e /\ j + d \in 0 .. e + d /\ e + d \in Nat /\ j \in Nat
    BY <2>1
  <2>3. ~ Same(j)
    BY <2>1
  <2>4. n \in 0 .. 4 /\ (n > 0 => j + n <= e)
    BY <2>2, TableRange
  <2> HIDE DEF n
  <2>5. n > 0 => Same(j + n)
    <3> SUFFICES ASSUME n > 0 PROVE Same(j + n)
      OBVIOUS
    <3>1. m - n \in 0 .. e /\ m - n < m /\ e - (m - n) = j + n
      BY <2>2, <2>4
    <3>2. m - n \notin Differ
      BY <2>1, <3>1
    <3>3. Same(e - (m - n))
      BY <3>1, <3>2
    <3> QED BY <3>1, <3>3
  <2> HIDE DEF Differ
  <2>6. ValidFrom(c, e)[j] <=> j = e \/ (n > 0 /\ ValidFrom(c, e)[j + n])
    BY <2>2, UnfoldValid DEF n
  <2>7. j # e => n = table_3_7(b, j + d, e + d)
    BY <1>1, <2>2 DEF n
  <2> DEFINE n2 == table_3_7(b, j + d, e + d)
  <2>8. ValidFrom(b, e + d)[j + d] <=>
          j + d = e + d \/ (n2 > 0 /\ ValidFrom(b, e + d)[(j + d) + n2])
    BY <2>2, UnfoldValid
  <2> HIDE DEF n2
  <2>9. (j + d) + n = (j + n) + d /\ (j + d = e + d <=> j = e)
    BY <2>2, <2>4
  <2>10. j # e => n = n2
    BY <2>7 DEF n2
  <2>11. CASE j = e
    BY <2>3, <2>6, <2>8, <2>9, <2>11
  <2>12. CASE j # e
    BY <2>3, <2>5, <2>6, <2>8, <2>9, <2>10, <2>12
  <2> QED BY <2>11, <2>12
<1>3. Same(k)
  <2>1. e - k \in 0 .. e /\ e - (e - k) = k
    OBVIOUS
  <2> QED BY <1>2, <2>1
<1> QED BY <1>3 DEF is_valid_utf8

-----------------------------------------------------------------------------
\* A range of ASCII bytes is well-formed.
LEMMA AsciiIsValid ==
  ASSUME NEW b, NEW e \in Nat, NEW k \in 0 .. e, \A i \in k .. e - 1 : b[i] \in Ascii
  PROVE  is_valid_utf8(b, k, e)
<1> DEFINE Ill == { m \in 0 .. e - k : ~ is_valid_utf8(b, e - m, e) }
<1>1. ASSUME Ill # {} PROVE FALSE
  <2>1. PICK m \in Ill : \A i \in Ill : m <= i
    <3>1. Ill \in SUBSET Nat
      OBVIOUS
    <3> HIDE DEF Ill
    <3> QED BY <1>1, <3>1, LeastOf
  <2>2. m \in 0 .. e - k /\ ~ is_valid_utf8(b, e - m, e)
    BY <2>1
  <2>3. m # 0
    BY <2>2, ValidAtEnd
  <2>4. e - m \in 0 .. e - 1 /\ e - m \in k .. e - 1 /\ (e - m) + 1 = e - (m - 1)
          /\ m - 1 \in 0 .. e - k /\ m - 1 < m
    BY <2>2, <2>3
  <2>5. is_valid_utf8(b, e - m, e) <=> is_valid_utf8(b, (e - m) + 1, e)
    BY <2>4, AsciiStep
  <2>6. m - 1 \in Ill
    BY <2>2, <2>4, <2>5
  <2> HIDE DEF Ill
  <2> QED BY <2>1, <2>2, <2>4, <2>6
<1>2. e - k \in 0 .. e - k /\ e - (e - k) = k
  OBVIOUS
<1> QED BY <1>1, <1>2

\* The ranges a row admits after its first position.
Tails == { cont, 160 .. 191, 128 .. 159, 144 .. 191, 128 .. 143 }

\* None of them has an ASCII byte.
LEMMA TailsNotAscii == \A A \in Tails : \A x \in A : x \notin Ascii
<1>1. \A x \in 128 .. 191 : x \notin Ascii
  BY DEF Ascii
<1>2. \A A \in Tails : \A x \in A : x \in 128 .. 191
  BY DEF Tails, cont
<1> QED BY <1>1, <1>2

\* Whatever a row admits after its first position is one of them.
LEMMA RowTails ==
  ASSUME NEW row \in Table37
  PROVE  \A i \in 2 .. Len(row) : row[i] \in Tails
<1>1. \A C : \A A \in Tails : \A i \in 2 .. Len(<< C, A >>) : << C, A >>[i] \in Tails
  OBVIOUS
<1>2. \A C : \A A, B \in Tails : \A i \in 2 .. Len(<< C, A, B >>) : << C, A, B >>[i] \in Tails
  OBVIOUS
<1>3. \A C : \A A, B, D \in Tails :
        \A i \in 2 .. Len(<< C, A, B, D >>) : << C, A, B, D >>[i] \in Tails
  OBVIOUS
<1>4. \A C : \A i \in 2 .. Len(<< C >>) : << C >>[i] \in Tails
  OBVIOUS
<1>5. /\ cont \in Tails /\ 160 .. 191 \in Tails /\ 128 .. 159 \in Tails
      /\ 144 .. 191 \in Tails /\ 128 .. 143 \in Tails
  BY DEF Tails
<1>6. \/ row = << Ascii >> \/ row = << 194 .. 223, cont >>
      \/ row = << {224}, 160 .. 191, cont >> \/ row = << 225 .. 236, cont, cont >>
      \/ row = << {237}, 128 .. 159, cont >> \/ row = << 238 .. 239, cont, cont >>
      \/ row = << {240}, 144 .. 191, cont, cont >>
      \/ row = << 241 .. 243, cont, cont, cont >>
      \/ row = << {244}, 128 .. 143, cont, cont >>
  BY DEF Table37
<1> DEFINE Goal == \A i \in 2 .. Len(row) : row[i] \in Tails
<1>7. ASSUME NEW C, row = << C >> PROVE Goal
  BY <1>4, <1>7
<1>8. ASSUME NEW C, NEW A \in Tails, row = << C, A >> PROVE Goal
  BY <1>1, <1>8
<1>9. ASSUME NEW C, NEW A \in Tails, NEW B \in Tails, row = << C, A, B >> PROVE Goal
  BY <1>2, <1>9
<1>10. ASSUME NEW C, NEW A \in Tails, NEW B \in Tails, NEW D \in Tails,
              row = << C, A, B, D >>
       PROVE  Goal
  BY <1>3, <1>10
<1> HIDE DEF Goal
<1>11. Goal
  <2>1. CASE row = << Ascii >>
    BY <1>5, <1>7, <2>1
  <2>2. CASE row = << 194 .. 223, cont >>
    BY <1>5, <1>8, <2>2
  <2>3. CASE row = << {224}, 160 .. 191, cont >>
    BY <1>5, <1>9, <2>3
  <2>4. CASE row = << 225 .. 236, cont, cont >>
    BY <1>5, <1>9, <2>4
  <2>5. CASE row = << {237}, 128 .. 159, cont >>
    BY <1>5, <1>9, <2>5
  <2>6. CASE row = << 238 .. 239, cont, cont >>
    BY <1>5, <1>9, <2>6
  <2>7. CASE row = << {240}, 144 .. 191, cont, cont >>
    BY <1>5, <1>10, <2>7
  <2>8. CASE row = << 241 .. 243, cont, cont, cont >>
    BY <1>5, <1>10, <2>8
  <2>9. CASE row = << {244}, 128 .. 143, cont, cont >>
    BY <1>5, <1>10, <2>9, SMTT(30)
  <2> QED BY <1>6, <2>1, <2>2, <2>3, <2>4, <2>5, <2>6, <2>7, <2>8, <2>9
<1> QED BY <1>11 DEF Goal

(***************************************************************************)
(* ASCII bytes appended to a range leave the verdict on it as it was: no   *)
(* sequence reaches into them.                                             *)
(***************************************************************************)
LEMMA TrailingAscii ==
  ASSUME NEW b, NEW f \in Nat, NEW e \in 0 .. f, NEW k \in 0 .. e,
         \A i \in 0 .. f - 1 : b[i] \in Int,
         \A i \in e .. f - 1 : b[i] \in Ascii
  PROVE  is_valid_utf8(b, k, e) <=> is_valid_utf8(b, k, f)
<1> DEFINE Same(j) == ValidFrom(b, e)[j] <=> ValidFrom(b, f)[j]
           Differ == { m \in 0 .. e : ~ Same(e - m) }
<1>1. ASSUME NEW j \in 0 .. e - 1
      PROVE  table_3_7(b, j, e) = table_3_7(b, j, f)
  <2>1. ASSUME NEW row \in Table37
        PROVE  MatchesAt(row, b, j, e) <=> MatchesAt(row, b, j, f)
    <3>1. Len(row) \in 1 .. 4
      BY RowLengths
    <3>2. ASSUME MatchesAt(row, b, j, f), j + Len(row) > e PROVE FALSE
      <4>1. e - j + 1 \in 2 .. Len(row) /\ e - j + 1 \in 1 .. Len(row)
        BY <3>1, <3>2
      <4>2. j + Len(row) <= f /\ b[j + (e - j + 1) - 1] \in row[e - j + 1]
        BY <3>2, <4>1 DEF MatchesAt
      <4>3. j + (e - j + 1) - 1 = e /\ e \in e .. f - 1
        BY <3>2, <4>2
      <4>4. b[e] \in row[e - j + 1] /\ b[e] \in Ascii
        BY <4>2, <4>3
      <4> QED BY <4>1, <4>4, RowTails, TailsNotAscii
    <3>3. j + Len(row) <= e => j + Len(row) <= f
      BY <3>1
    <3>4. j + Len(row) \in Int
      BY <3>1
    <3> QED BY <3>2, <3>3, <3>4 DEF MatchesAt
  <2>2. j \in Nat /\ b[j] \in Int
    BY <1>1
  <2> QED BY <2>1, <2>2, SameTable
<1>2. ASSUME Differ # {} PROVE FALSE
  <2>1. PICK m \in Differ : \A i \in Differ : m <= i
    <3>1. Differ \in SUBSET Nat
      OBVIOUS
    <3> HIDE DEF Differ
    <3> QED BY <1>2, <3>1, LeastOf
  <2> DEFINE j == e - m
             n == table_3_7(b, j, e)
             n2 == table_3_7(b, j, f)
  <2>2. m \in 0 .. e /\ j \in 0 .. e /\ j \in Nat /\ j \in 0 .. f /\ ~ Same(j)
    BY <2>1
  <2>3. j # e
    <3> SUFFICES ASSUME j = e PROVE FALSE
      OBVIOUS
    <3>1. is_valid_utf8(b, e, e) /\ is_valid_utf8(b, e, f)
      BY ValidAtEnd, AsciiIsValid
    <3> QED BY <2>2, <3>1 DEF is_valid_utf8
  <2>4. n \in 0 .. 4 /\ (n > 0 => j + n <= e)
    BY <2>2, TableRange
  <2>5. n = n2
    BY <1>1, <2>2, <2>3
  <2>6. ValidFrom(b, e)[j] <=> (n > 0 /\ ValidFrom(b, e)[j + n])
    BY <2>2, <2>3, UnfoldValid
  <2>7. ValidFrom(b, f)[j] <=> (n2 > 0 /\ ValidFrom(b, f)[j + n2])
    <3>1. j # f
      BY <2>2, <2>3
    <3> QED BY <2>2, <3>1, UnfoldValid
  <2> HIDE DEF n, n2
  <2>8. n > 0 => Same(j + n)
    <3> SUFFICES ASSUME n > 0 PROVE Same(j + n)
      OBVIOUS
    <3>1. m - n \in 0 .. e /\ m - n < m /\ e - (m - n) = j + n
      BY <2>2, <2>4
    <3>2. m - n \notin Differ
      BY <2>1, <3>1
    <3>3. Same(e - (m - n))
      BY <3>1, <3>2
    <3> QED BY <3>1, <3>3
  <2> HIDE DEF Differ
  <2> QED BY <2>2, <2>5, <2>6, <2>7, <2>8
<1>3. Same(k)
  <2>1. e - k \in 0 .. e /\ e - (e - k) = k
    OBVIOUS
  <2> QED BY <1>2, <2>1
<1> QED BY <1>3 DEF is_valid_utf8

-----------------------------------------------------------------------------
(***************************************************************************)
(* Behind a well-formed range the verdict is that of what follows: two     *)
(* well-formed ranges make one, a well-formed beginning cut off leaves a   *)
(* well-formed rest exactly if the whole was well-formed.                  *)
(* (lemma_valid_concat, lemma_valid_split and lemma_valid_join of          *)
(* src/src/spec.rs.)  The sequences of the beginning are sequences of the  *)
(* whole, one after another.                                               *)
(***************************************************************************)
THEOREM ValidConcat ==
  ASSUME NEW b, NEW e \in Nat, NEW j \in 0 .. e, NEW k \in 0 .. j,
         \A i \in 0 .. e - 1 : b[i] \in Int,
         is_valid_utf8(b, k, j)
  PROVE  is_valid_utf8(b, k, e) <=> is_valid_utf8(b, j, e)
<1> DEFINE Same(i) == ValidFrom(b, j)[i] => (ValidFrom(b, e)[i] <=> ValidFrom(b, e)[j])
           Differ == { m \in 0 .. j : ~ Same(j - m) }
<1>1. ASSUME Differ # {} PROVE FALSE
  <2>1. PICK m \in Differ : \A i \in Differ : m <= i
    <3>1. Differ \in SUBSET Nat
      OBVIOUS
    <3> HIDE DEF Differ
    <3> QED BY <1>1, <3>1, LeastOf
  <2> DEFINE i == j - m
             n == table_3_7(b, i, j)
  <2>2. m \in 0 .. j /\ i \in 0 .. j /\ i \in Nat /\ j \in Nat /\ i \in 0 .. e /\ ~ Same(i)
    BY <2>1
  <2>3. i # j
    BY <2>2
  <2>4. ValidFrom(b, j)[i] /\ n > 0 /\ ValidFrom(b, j)[i + n]
    BY <2>2, <2>3, UnfoldValid
  <2>5. n \in 1 .. 4 /\ i + n <= j
    BY <2>2, <2>4, TableRange
  <2>6. table_3_7(b, i, e) = n
    <3>0. \E row \in Table37 : MatchesAt(row, b, i, j)
      <4> SUFFICES ASSUME ~ \E row \in Table37 : MatchesAt(row, b, i, j) PROVE n = 0
        BY <2>4
      <4> QED BY DEF table_3_7
    <3>1. PICK row \in Table37 : MatchesAt(row, b, i, j)
      BY <3>0
    <3>2. Len(row) \in 1 .. 4
      BY RowLengths
    <3>3. b[i] \in Int
      BY <2>2, <2>3
    <3>4. n = Len(row)
      BY <2>2, <3>1, <3>3, TableIs
    <3>5. i + Len(row) <= e
      BY <2>2, <2>5, <3>2, <3>4
    <3>6. MatchesAt(row, b, i, e)
      BY <3>1, <3>5 DEF MatchesAt
    <3> QED BY <2>2, <3>3, <3>4, <3>6, TableIs
  <2>7. ValidFrom(b, e)[i] <=> ValidFrom(b, e)[i + n]
    <3>1. i # e
      BY <2>2, <2>3
    <3> QED BY <2>2, <2>5, <2>6, <3>1, UnfoldValid
  <2> HIDE DEF n
  <2>8. Same(i + n)
    <3>1. m - n \in 0 .. j /\ m - n < m /\ j - (m - n) = i + n
      BY <2>2, <2>5
    <3>2. m - n \notin Differ
      BY <2>1, <3>1
    <3>3. Same(j - (m - n))
      BY <3>1, <3>2
    <3> QED BY <3>1, <3>3
  <2> HIDE DEF Differ
  <2> QED BY <2>2, <2>4, <2>7, <2>8
<1>2. Same(k)
  <2>1. j - k \in 0 .. j /\ j - (j - k) = k
    OBVIOUS
  <2> QED BY <1>1, <2>1
<1> QED BY <1>2 DEF is_valid_utf8
=============================================================================
