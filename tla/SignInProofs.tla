---------------------------- MODULE SignInProofs ----------------------------
(***************************************************************************)
(* Proofs about SignIn.tla, for any number of people, of requests and of   *)
(* failures, and any rate limit: members are numbered without a gap, and,  *)
(* while codes are asked for one at a time, a code that was signed in with *)
(* is accepted from then on only through a key Redis failed to delete.     *)
(*                                                                         *)
(* A count is never more than the members there are, so that the INSERT of *)
(* a number nobody has takes the next one.  A code is made new to whatever *)
(* is about (NewCodeIsNew) and belongs to the request that sends it until  *)
(* its mail has arrived (Own); whoever enters it first withdraws it from   *)
(* Redis and then closes the only row in force, so that at its answer the  *)
(* code is nowhere any more, and nothing brings it back.                   *)
(***************************************************************************)
EXTENDS SignIn, Functions, FiniteSetTheorems, SequenceTheorems, TLAPS

SenderSteps == {"putRedis", "retire", "insert", "deliver"}
EntrySteps == {"askRedis", "askTable", "find", "register", "forget", "spend", "answer"}
Steps == {"idle"} \cup SenderSteps \cup EntrySteps

Rows == [code : Nat, attempts : Nat, used : BOOLEAN, fresh : BOOLEAN]
Carried == [of : People, code : Nat, count : Nat]

\* The type of the state, without its bounds.
Shape ==
    /\ otp \in [People -> Seq(Rows)]
    /\ redis \in [People -> Nat] /\ inbox \in [People -> Nat] /\ spent \in [People -> Nat]
    /\ kept \subseteq People
    /\ member \in [People -> Nat] /\ others \subseteq Nat /\ IsFiniteSet(others)
    /\ pc \in [Requests -> Steps]
    /\ req \in [Requests -> Carried]

-----------------------------------------------------------------------------
(* Codes.                                                                  *)

LEMMA CodesAreNat ==
    /\ Codes \subseteq Nat /\ NoCode \notin Codes /\ NoCode \in Nat
    /\ Wrong \in Nat /\ Wrong \notin Codes /\ Wrong # NoCode
    /\ IsFiniteSet(Codes) /\ Cardinality(Requests) \in Nat
    /\ Cardinality(Codes) = RateLimit + 2 * Cardinality(Requests) + 4
<1>1. Cardinality(Requests) \in Nat
  BY SignInAssumption, FS_CardinalityType DEF SignInAssumption
<1>2. RateLimit \in Nat
  BY SignInAssumption DEF SignInAssumption
<1> DEFINE n == RateLimit + 2 * Cardinality(Requests) + 4
<1>3. n \in Nat /\ n > 0
  BY <1>1, <1>2
<1>4. IsFiniteSet(1 .. n) /\ Cardinality(1 .. n) = n
  <2> HIDE DEF n
  <2> QED BY <1>3, FS_Interval
<1>5. Codes = 1 .. n
  BY DEF Codes
<1> HIDE DEF n
<1>6. Wrong = n + 1
  BY <1>4, <1>5 DEF Wrong
<1> QED BY <1>1, <1>3, <1>4, <1>5, <1>6 DEF NoCode, n

\* A function has no more values than arguments.
LEMMA ValuesBounded ==
    ASSUME NEW S, IsFiniteSet(S), NEW f
    PROVE  /\ IsFiniteSet({f[x] : x \in S})
           /\ Cardinality({f[x] : x \in S}) \in Nat
           /\ Cardinality({f[x] : x \in S}) <= Cardinality(S)
<1> DEFINE T == {f[x] : x \in S}
           g == [x \in S |-> f[x]]
<1>1. g \in Surjection(S, T)
  BY DEF Surjection
<1> QED BY <1>1, FS_Surjection, FS_CardinalityType

LEMMA UnionBounded ==
    ASSUME NEW S, IsFiniteSet(S), NEW T, IsFiniteSet(T), NEW m \in Nat, NEW n \in Nat,
           Cardinality(S) <= m, Cardinality(T) <= n
    PROVE  IsFiniteSet(S \cup T) /\ Cardinality(S \cup T) <= m + n
<1>1. IsFiniteSet(S \cap T)
  BY FS_Subset, S \cap T \subseteq S
<1>2. Cardinality(S) \in Nat /\ Cardinality(T) \in Nat /\ Cardinality(S \cap T) \in Nat
  BY <1>1, FS_CardinalityType
<1>3. /\ IsFiniteSet(S \cup T)
      /\ Cardinality(S \cup T) = Cardinality(S) + Cardinality(T) - Cardinality(S \cap T)
  BY FS_Union
<1> QED BY <1>2, <1>3

\* A set of numbers that is not empty has a least one.
LEMMA LeastExists ==
    ASSUME NEW S \in SUBSET Nat, S # {}
    PROVE  \E k \in S : \A j \in S : k <= j
<1>1. PICK k \in S : \A j \in S : ~(j < k)
  <2>1. PICK k \in S : \A j \in S : <<j, k>> \notin OpToRel(<, Nat)
    BY NatLessThanWellFounded, WFMin
  <2> QED BY <2>1 DEF OpToRel
<1>2. k \in Nat /\ \A j \in S : j \in Nat
  OBVIOUS
<1> QED BY <1>1, <1>2

\* ... and one that is bounded a greatest.
LEMMA GreatestExists ==
    ASSUME NEW S \in SUBSET Nat, S # {}, NEW n \in Nat, \A i \in S : i <= n
    PROVE  \E k \in S : \A j \in S : j <= k
<1> DEFINE T == {n - i : i \in S}
<1>1. T \in SUBSET Nat /\ T # {}
  <2>1. \A i \in S : i \in Nat /\ i <= n /\ n - i \in Nat
    OBVIOUS
  <2> QED BY <2>1
<1>2. PICK d \in T : \A e \in T : d <= e
  <2> HIDE DEF T
  <2> QED BY <1>1, LeastExists
<1>3. PICK k \in S : d = n - k
  OBVIOUS
<1>4. ASSUME NEW j \in S PROVE j <= k
  <2>1. d <= n - j
    BY <1>2
  <2> QED BY <1>3, <2>1
<1> QED BY <1>4

\* The codes that are about.
About(m) == {otp[m][i].code : i \in DOMAIN otp[m]}
            \cup {redis[m], inbox[m], spent[m]}
            \cup {req[c].code : c \in {d \in Requests : req[d].of = m}}

\* Below the rate limit there is a code that is not about, and NewCode gives one.
LEMMA NewCodeIsNew ==
    ASSUME Shape, NEW m \in People, Len(otp[m]) < RateLimit
    PROVE  NewCode(m) \in Codes /\ NewCode(m) \notin About(m)
<1> DEFINE rows == {otp[m][i].code : i \in DOMAIN otp[m]}
           three == {redis[m], inbox[m], spent[m]}
           mine == {d \in Requests : req[d].of = m}
           carried == {req[c].code : c \in mine}
           free == Codes \ About(m)
<1>0. RateLimit \in Nat /\ IsFiniteSet(Requests)
  BY SignInAssumption DEF SignInAssumption
<1>1. IsFiniteSet(rows) /\ Cardinality(rows) <= RateLimit
  <2> DEFINE f == [i \in 1 .. Len(otp[m]) |-> otp[m][i].code]
             vals == {f[i] : i \in 1 .. Len(otp[m])}
  <2>1. Len(otp[m]) \in Nat /\ DOMAIN otp[m] = 1 .. Len(otp[m])
    BY DEF Shape
  <2>2. rows = vals
    BY <2>1
  <2>3. IsFiniteSet(1 .. Len(otp[m])) /\ Cardinality(1 .. Len(otp[m])) <= Len(otp[m])
    <3> DEFINE n == Len(otp[m])
    <3>1. 1 \in Int /\ n \in Int /\ n \in Nat
      BY <2>1
    <3>2. IsFiniteSet(1 .. n) /\ Cardinality(1 .. n) = IF 1 > n THEN 0 ELSE n - 1 + 1
      <4> HIDE DEF n
      <4> QED BY <3>1, FS_Interval
    <3> HIDE DEF n
    <3>3. Cardinality(1 .. n) <= n
      BY <3>1, <3>2
    <3> QED BY <3>2, <3>3 DEF n
  <2>4. IsFiniteSet(vals) /\ Cardinality(vals) \in Nat
        /\ Cardinality(vals) <= Cardinality(1 .. Len(otp[m]))
    <3> HIDE DEF f
    <3> QED BY <2>3, ValuesBounded
  <2>5. Cardinality(1 .. Len(otp[m])) \in Nat
    BY <2>3, FS_CardinalityType
  <2> HIDE DEF vals, rows
  <2> QED BY <1>0, <2>1, <2>2, <2>3, <2>4, <2>5
<1>2. IsFiniteSet(three) /\ Cardinality(three) <= 3
  <2>1. \A x : IsFiniteSet({x}) /\ Cardinality({x}) <= 1
    <3>1. \A x : IsFiniteSet({x}) /\ Cardinality({x}) = 1
      BY FS_Singleton
    <3> QED BY <3>1, 1 <= 1
  <2>2. /\ IsFiniteSet({redis[m]} \cup {inbox[m]})
        /\ Cardinality({redis[m]} \cup {inbox[m]}) <= 1 + 1
    BY <2>1, UnionBounded
  <2>3. three = ({redis[m]} \cup {inbox[m]}) \cup {spent[m]}
    OBVIOUS
  <2>4. IsFiniteSet(three) /\ Cardinality(three) <= 2 + 1
    <3> HIDE DEF three
    <3> QED BY <2>1, <2>2, <2>3, UnionBounded, 1 + 1 = 2
  <2> HIDE DEF three
  <2> QED BY <2>4
<1>3. IsFiniteSet(carried) /\ Cardinality(carried) <= Cardinality(Requests)
  <2> DEFINE f == [c \in mine |-> req[c].code]
             vals == {f[c] : c \in mine}
  <2>1. IsFiniteSet(mine) /\ Cardinality(mine) <= Cardinality(Requests) /\ Cardinality(mine) \in Nat
    BY <1>0, FS_Subset, FS_CardinalityType
  <2>2. carried = vals
    OBVIOUS
  <2>3. IsFiniteSet(vals) /\ Cardinality(vals) \in Nat /\ Cardinality(vals) <= Cardinality(mine)
    <3> HIDE DEF f, mine
    <3> QED BY <2>1, ValuesBounded
  <2> HIDE DEF vals, carried, mine
  <2> QED BY <2>1, <2>2, <2>3, CodesAreNat
<1>4. About(m) = (rows \cup three) \cup carried
  BY DEF About
<1>5. IsFiniteSet(About(m)) /\ Cardinality(About(m)) <= RateLimit + 3 + Cardinality(Requests)
  <2> HIDE DEF rows, three, carried
  <2>1. IsFiniteSet(rows \cup three) /\ Cardinality(rows \cup three) <= RateLimit + 3
    BY <1>0, <1>1, <1>2, UnionBounded
  <2>2. RateLimit + 3 \in Nat /\ Cardinality(Requests) \in Nat
    BY <1>0, CodesAreNat
  <2> QED BY <1>3, <1>4, <2>1, <2>2, UnionBounded
<1> HIDE DEF rows, three, mine, carried
<1>6. free # {}
  <2> SUFFICES ASSUME Codes \subseteq About(m) PROVE FALSE
    OBVIOUS
  <2>1. Cardinality(Codes) <= Cardinality(About(m)) /\ Cardinality(About(m)) \in Nat
    BY <1>5, FS_Subset, FS_CardinalityType
  <2> QED BY <1>0, <1>5, <2>1, CodesAreNat
<1>7. \E k \in free : \A j \in free : k <= j
  BY <1>6, LeastExists, CodesAreNat
<1>8. NewCode(m) = CHOOSE k \in free : \A j \in free : k <= j
  BY DEF NewCode, About
<1> HIDE DEF free
<1>9. NewCode(m) \in free
  BY <1>7, <1>8
<1> QED BY <1>9 DEF free

-----------------------------------------------------------------------------
(* The table.                                                              *)

\* The codes in force, and that there is one at most.
Live(m) == {otp[m][i].code : i \in ActiveRows(m)}
Single(m) == \A i, j \in ActiveRows(m) : i = j

\* The table changes in ways that put no code in force.
OnlyCloses == \A m \in People : Live(m)' \subseteq Live(m) /\ (Single(m) => Single(m)')

\* Rows stay where they are or move down together, keep their codes, and are
\* active only if they were.
LEMMA RowsClose ==
    ASSUME NEW d \in {0, 1},
           \A m \in People : \A i \in ActiveRows(m)' :
               /\ i \in Nat
               /\ \/ i \in ActiveRows(m) /\ otp'[m][i].code = otp[m][i].code
                  \/ /\ \A j \in ActiveRows(m)' : j + d \in ActiveRows(m)
                     /\ otp'[m][i].code = otp[m][i + d].code
    PROVE  OnlyCloses
<1>1. ASSUME NEW m \in People PROVE Live(m)' \subseteq Live(m)
  BY DEF Live
<1>2. ASSUME NEW m \in People, Single(m) PROVE Single(m)'
  <2> SUFFICES ASSUME NEW i \in ActiveRows(m)', NEW j \in ActiveRows(m)' PROVE i = j
    BY DEF Single
  <2>1. CASE i \in ActiveRows(m) /\ j \in ActiveRows(m)
    BY <1>2, <2>1 DEF Single
  <2>2. CASE i + d \in ActiveRows(m) /\ j + d \in ActiveRows(m)
    <3>1. i + d = j + d /\ i \in Nat /\ j \in Nat
      BY <1>2, <2>2 DEF Single
    <3> QED BY <3>1
  <2> QED BY <2>1, <2>2
<1> QED BY <1>1, <1>2 DEF OnlyCloses

LEMMA ActiveIsRow ==
    ASSUME Shape, NEW m \in People, NEW i \in ActiveRows(m)
    PROVE  /\ i \in Nat /\ i \in 1 .. Len(otp[m]) /\ otp[m][i] \in Rows
           /\ ~otp[m][i].used /\ otp[m][i].fresh
BY DEF Shape, ActiveRows, Active

\* Where a code is in force, getActiveOtp finds it.
LEMMA LatestActive ==
    ASSUME Shape, NEW m \in People, HasActive(m)
    PROVE  Latest(m) \in ActiveRows(m)
<1>1. ActiveRows(m) \in SUBSET Nat /\ ActiveRows(m) # {} /\ Len(otp[m]) \in Nat
  BY ActiveIsRow DEF HasActive, Shape
<1>2. \A i \in ActiveRows(m) : i <= Len(otp[m])
  BY <1>1, ActiveIsRow
<1>3. \E i \in ActiveRows(m) : \A j \in ActiveRows(m) : j <= i
  BY <1>1, <1>2, GreatestExists
<1> QED BY <1>3 DEF Latest

LEMMA SameTable == otp' = otp => OnlyCloses
BY DEF OnlyCloses, Live, Single, ActiveRows, Active

LEMMA AgeCloses ==
    ASSUME Shape, NEW m \in People, Age(m)
    PROVE  OnlyCloses /\ otp' \in [People -> Seq(Rows)]
<1>1. CASE otp[m] # <<>> /\ otp' = [otp EXCEPT ![m] = Tail(@)]
  <2>1. otp[m] \in Seq(Rows) /\ otp[m] # <<>> /\ otp'[m] = Tail(otp[m])
    BY <1>1 DEF Shape
  <2>2. /\ otp'[m] \in Seq(Rows) /\ Len(otp'[m]) = Len(otp[m]) - 1
        /\ DOMAIN otp'[m] = 1 .. Len(otp'[m]) /\ DOMAIN otp[m] = 1 .. Len(otp[m])
        /\ Len(otp[m]) \in Nat /\ Len(otp'[m]) \in Nat
        /\ \A i \in 1 .. Len(otp'[m]) : otp'[m][i] = otp[m][i + 1]
    BY <2>1
  <2>3. \A p \in People \ {m} : otp'[p] = otp[p]
    BY <1>1 DEF Shape
  <2>4. otp' \in [People -> Seq(Rows)]
    BY <1>1, <2>1, <2>2 DEF Shape
  <2>5. ASSUME NEW i \in ActiveRows(m)'
        PROVE  i \in Nat /\ i + 1 \in ActiveRows(m) /\ otp'[m][i].code = otp[m][i + 1].code
    <3>1. i \in 1 .. Len(otp'[m]) /\ Active(otp'[m][i])
      BY <2>2 DEF ActiveRows, Active
    <3>2. i + 1 \in 1 .. Len(otp[m]) /\ i \in Nat
      BY <3>1, <2>2
    <3> QED BY <2>2, <3>1, <3>2 DEF ActiveRows
  <2>6. ASSUME NEW p \in People \ {m}, NEW i \in ActiveRows(p)'
        PROVE  i \in Nat /\ i \in ActiveRows(p) /\ otp'[p][i].code = otp[p][i].code
    <3>1. i \in ActiveRows(p)
      BY <2>3 DEF ActiveRows, Active
    <3> QED BY <2>3, <3>1, ActiveIsRow
  <2> QED BY <2>4, <2>5, <2>6, RowsClose
<1>2. CASE \E n \in DOMAIN otp[m] : otp' = [otp EXCEPT ![m][n].fresh = FALSE]
  <2>1. PICK n \in DOMAIN otp[m] : otp' = [otp EXCEPT ![m][n].fresh = FALSE]
    BY <1>2
  <2>2. otp[m] \in Seq(Rows) /\ otp[m][n] \in Rows
    BY DEF Shape
  <2>3. otp'[m] = [otp[m] EXCEPT ![n] = [otp[m][n] EXCEPT !.fresh = FALSE]]
    BY <2>1 DEF Shape
  <2>4. [otp[m][n] EXCEPT !.fresh = FALSE] \in Rows
    BY <2>2 DEF Rows
  <2>5. otp'[m] \in Seq(Rows) /\ DOMAIN otp'[m] = DOMAIN otp[m]
    BY <2>2, <2>3, <2>4
  <2>6. otp' \in [People -> Seq(Rows)]
    BY <2>1, <2>3, <2>5 DEF Shape
  <2>7. ASSUME NEW p \in People, NEW i \in ActiveRows(p)'
        PROVE  i \in Nat /\ i \in ActiveRows(p) /\ otp'[p][i].code = otp[p][i].code
    <3>1. CASE p = m
      <4>1. i \in DOMAIN otp[m] /\ otp'[m][i].fresh /\ ~otp'[m][i].used
        BY <2>5, <3>1 DEF ActiveRows, Active
      <4>2. i # n
        BY <2>2, <2>3, <4>1 DEF Rows
      <4>3. i \in ActiveRows(p) /\ otp'[p][i].code = otp[p][i].code
        BY <2>3, <3>1, <4>1, <4>2 DEF ActiveRows, Active
      <4> QED BY <4>3, ActiveIsRow
    <3>2. CASE p # m
      <4>1. otp'[p] = otp[p]
        BY <2>1, <3>2 DEF Shape
      <4>2. i \in ActiveRows(p)
        BY <4>1 DEF ActiveRows, Active
      <4> QED BY <4>1, <4>2, ActiveIsRow
    <3> QED BY <3>1, <3>2
  <2> QED BY <2>6, <2>7, RowsClose
<1> QED BY <1>1, <1>2 DEF Age

\* One row of a person is replaced by one with the same code that is active only
\* if it was.
LEMMA RowCloses ==
    ASSUME Shape, NEW m \in People, NEW n \in DOMAIN otp[m], NEW row \in Rows,
           row.code = otp[m][n].code, Active(row) => Active(otp[m][n]),
           otp' = [otp EXCEPT ![m] = [otp[m] EXCEPT ![n] = row]]
    PROVE  OnlyCloses /\ otp' \in [People -> Seq(Rows)]
<1>1. otp[m] \in Seq(Rows) /\ otp'[m] = [otp[m] EXCEPT ![n] = row]
  BY DEF Shape
<1>2. otp'[m] \in Seq(Rows) /\ DOMAIN otp'[m] = DOMAIN otp[m]
  BY <1>1
<1>3. otp' \in [People -> Seq(Rows)]
  BY <1>1, <1>2 DEF Shape
<1>4. ASSUME NEW p \in People, NEW i \in ActiveRows(p)'
      PROVE  i \in Nat /\ i \in ActiveRows(p) /\ otp'[p][i].code = otp[p][i].code
  <2>1. CASE p = m
    <3>1. i \in DOMAIN otp[m] /\ Active(otp'[m][i])
      BY <1>2, <2>1 DEF ActiveRows, Active
    <3>2. Active(otp[m][i]) /\ otp'[m][i].code = otp[m][i].code
      BY <1>1, <3>1
    <3>3. i \in ActiveRows(p)
      BY <2>1, <3>1, <3>2 DEF ActiveRows
    <3> QED BY <2>1, <3>2, <3>3, ActiveIsRow
  <2>2. CASE p # m
    <3>1. otp'[p] = otp[p]
      BY <2>2 DEF Shape
    <3>2. i \in ActiveRows(p)
      BY <3>1 DEF ActiveRows, Active
    <3> QED BY <3>1, <3>2, ActiveIsRow
  <2> QED BY <2>1, <2>2
<1> QED BY <1>3, <1>4, RowsClose

-----------------------------------------------------------------------------
(* One step.                                                               *)

LEMMA RetireCloses ==
    ASSUME Shape, NEW c \in Requests, Retire(c), NEW m \in People, m = req[c].of
    PROVE  OnlyCloses /\ Live(m)' = {} /\ otp' \in [People -> Seq(Rows)]
<1> DEFINE retired == [i \in DOMAIN otp[m] |->
                          IF Active(otp[m][i]) THEN [otp[m][i] EXCEPT !.used = TRUE] ELSE otp[m][i]]
<1>1. otp[m] \in Seq(Rows)
  BY DEF Shape
<1>2. otp' = [otp EXCEPT ![m] = retired]
  BY DEF Retire
<1>3. ASSUME NEW i \in DOMAIN otp[m] PROVE retired[i] \in Rows /\ ~Active(retired[i])
  <2>1. otp[m][i] \in Rows
    BY <1>1
  <2>2. CASE Active(otp[m][i])
    <3>1. retired[i] = [otp[m][i] EXCEPT !.used = TRUE]
      BY <2>2
    <3> HIDE DEF retired
    <3> QED BY <2>1, <3>1 DEF Rows, Active
  <2>3. CASE ~Active(otp[m][i])
    BY <2>1, <2>3
  <2> QED BY <2>2, <2>3
<1>4. DOMAIN retired = 1 .. Len(otp[m]) /\ Len(otp[m]) \in Nat
  BY <1>1
<1>5. retired \in [1 .. Len(otp[m]) -> Rows]
  BY <1>1, <1>3, <1>4
<1> HIDE DEF retired
<1>s. retired \in Seq(Rows)
  BY <1>4, <1>5, SeqDef
<1>6. otp'[m] = retired /\ otp' \in [People -> Seq(Rows)]
  BY <1>2, <1>s DEF Shape
<1>7. \A i \in DOMAIN otp'[m] : ~Active(otp'[m][i])
  BY <1>1, <1>3, <1>4, <1>6
<1>8. ASSUME NEW p \in People, NEW i \in ActiveRows(p)'
      PROVE  p # m /\ i \in Nat /\ i \in ActiveRows(p) /\ otp'[p][i].code = otp[p][i].code
  <2>1. p # m
    BY <1>7 DEF ActiveRows, Active
  <2>2. otp'[p] = otp[p]
    BY <1>2, <2>1 DEF Shape
  <2>3. i \in ActiveRows(p)
    BY <2>2 DEF ActiveRows, Active
  <2> QED BY <2>1, <2>2, <2>3, ActiveIsRow
<1>9. OnlyCloses
  BY <1>8, RowsClose
<1>10. ActiveRows(m)' = {}
  BY <1>8
<1> QED BY <1>6, <1>9, <1>10 DEF Live

LEMMA InsertOpens ==
    ASSUME Shape, NEW c \in Requests, Insert(c), NEW m \in People, m = req[c].of
    PROVE  /\ otp' \in [People -> Seq(Rows)]
           /\ \A p \in People : p # m =>
                 Live(p)' \subseteq Live(p) /\ (Single(p) => Single(p)')
           /\ Live(m)' \subseteq Live(m) \cup {req[c].code}
           /\ Live(m) = {} => Single(m)'
<1> DEFINE row == Row(req[c].code)
           n == Len(otp[m])
<1>1. otp[m] \in Seq(Rows) /\ row \in Rows /\ row.code = req[c].code /\ n \in Nat
  BY DEF Shape, Carried, Row, Rows
<1>2. otp' = [otp EXCEPT ![m] = Append(otp[m], row)]
  BY DEF Insert
<1>3. otp'[m] = Append(otp[m], row)
  BY <1>1, <1>2 DEF Shape
<1> HIDE DEF row
<1>4. /\ otp'[m] \in Seq(Rows) /\ DOMAIN otp'[m] = 1 .. n + 1 /\ DOMAIN otp[m] = 1 .. n
      /\ otp'[m][n + 1] = row /\ \A i \in 1 .. n : otp'[m][i] = otp[m][i]
  BY <1>1, <1>3
<1>5. otp' \in [People -> Seq(Rows)]
  BY <1>2, <1>3, <1>4 DEF Shape
<1>6. ASSUME NEW p \in People, p # m
      PROVE  Live(p)' \subseteq Live(p) /\ (Single(p) => Single(p)')
  <2>1. otp'[p] = otp[p]
    BY <1>2, <1>6 DEF Shape
  <2> QED BY <2>1 DEF Live, Single, ActiveRows, Active
<1>7. ASSUME NEW i \in ActiveRows(m)'
      PROVE  \/ i = n + 1
             \/ i \in ActiveRows(m) /\ otp'[m][i].code = otp[m][i].code
  <2>1. i \in DOMAIN otp'[m] /\ Active(otp'[m][i])
    BY DEF ActiveRows, Active
  <2>2. i = n + 1 \/ i \in 1 .. n
    BY <1>1, <1>4, <2>1
  <2>3. ASSUME i \in 1 .. n PROVE i \in ActiveRows(m) /\ otp'[m][i].code = otp[m][i].code
    BY <1>4, <2>1, <2>3 DEF ActiveRows
  <2> QED BY <2>2, <2>3
<1>8. Live(m)' \subseteq Live(m) \cup {req[c].code}
  <2> SUFFICES ASSUME NEW i \in ActiveRows(m)'
               PROVE  otp'[m][i].code \in Live(m) \cup {req[c].code}
    BY DEF Live
  <2> QED BY <1>1, <1>4, <1>7 DEF Live
<1>9. Live(m) = {} => Single(m)'
  BY <1>7 DEF Live, Single
<1> QED BY <1>5, <1>6, <1>8, <1>9

\* A wrong entry counts against the row in force.
LEMMA AskTableCloses ==
    ASSUME Shape, NEW c \in Requests, AskTable(c)
    PROVE  OnlyCloses /\ otp' \in [People -> Seq(Rows)]
<1> DEFINE m == req[c].of
           row == otp[m][Latest(m)]
<1>1. m \in People
  BY DEF Shape, Carried
<1>2. CASE otp' = otp
  BY <1>2, SameTable DEF Shape
<1>3. CASE otp' # otp
  <2>1. /\ HasActive(m)
        /\ otp' = [otp EXCEPT ![m][Latest(m)] =
                      [row EXCEPT !.attempts = @ + 1, !.used = row.attempts + 1 > MaxAttempts]]
    BY <1>3 DEF AskTable
  <2>2. Latest(m) \in ActiveRows(m)
    BY <1>1, <2>1, LatestActive
  <2>3. Latest(m) \in DOMAIN otp[m] /\ row \in Rows /\ Active(row)
    BY <1>1, <2>2, ActiveIsRow DEF ActiveRows, Active
  <2> DEFINE closed == [row EXCEPT !.attempts = @ + 1, !.used = row.attempts + 1 > MaxAttempts]
  <2>4. MaxAttempts \in Nat
    BY SignInAssumption, ZenonT(60) DEF SignInAssumption
  <2>5. closed \in Rows /\ closed.code = row.code
    <3> DEFINE late == row.attempts + 1 > MaxAttempts
    <3>1. closed = [[row EXCEPT !.attempts = @ + 1] EXCEPT !.used = late]
      OBVIOUS
    <3>2. [row EXCEPT !.attempts = @ + 1] \in Rows /\ late \in BOOLEAN
      BY <2>3 DEF Rows
    <3>3. [row EXCEPT !.attempts = @ + 1].code = row.code
      BY <2>3 DEF Rows
    <3> HIDE DEF closed, late
    <3> QED BY <3>1, <3>2, <3>3 DEF Rows
  <2>6. otp' = [otp EXCEPT ![m] = [otp[m] EXCEPT ![Latest(m)] = closed]]
    BY <2>1
  <2>7. Active(closed) => Active(row)
    BY <2>3
  <2> HIDE DEF closed
  <2> QED BY <1>1, <2>3, <2>5, <2>6, <2>7, RowCloses
<1> QED BY <1>2, <1>3

\* The row in force is closed: none is left where there was only one.
LEMMA SpendCloses ==
    ASSUME Shape, NEW m \in People, NEW c \in Requests, Spend(c), m = req[c].of
    PROVE  OnlyCloses /\ (Single(m) => Live(m)' = {}) /\ otp' \in [People -> Seq(Rows)]
<1> DEFINE row == otp[m][Latest(m)]
           closed == [row EXCEPT !.used = TRUE]
<1>2. CASE ~HasActive(m)
  <2>1. otp' = otp
    BY <1>2 DEF Spend
  <2>2. ActiveRows(m)' = ActiveRows(m)
    BY <2>1 DEF ActiveRows, Active
  <2> QED BY <1>2, <2>1, <2>2, SameTable DEF HasActive, Shape, Live
<1>3. CASE HasActive(m)
  <2>1. otp' = [otp EXCEPT ![m][Latest(m)].used = TRUE]
    BY <1>3 DEF Spend
  <2>2. Latest(m) \in ActiveRows(m)
    BY <1>3, LatestActive
  <2>3. Latest(m) \in DOMAIN otp[m] /\ row \in Rows /\ Active(row) /\ otp[m] \in Seq(Rows)
    BY <2>2, ActiveIsRow DEF ActiveRows, Active, Shape
  <2>4. closed \in Rows /\ closed.code = row.code /\ ~Active(closed)
    BY <2>3 DEF Rows, Active
  <2>5. otp' = [otp EXCEPT ![m] = [otp[m] EXCEPT ![Latest(m)] = closed]]
    BY <2>1
  <2>6. otp'[m] = [otp[m] EXCEPT ![Latest(m)] = closed]
    BY <2>5 DEF Shape
  <2> HIDE DEF closed
  <2>7. OnlyCloses /\ otp' \in [People -> Seq(Rows)]
    BY <2>3, <2>4, <2>5, RowCloses
  <2>8. ASSUME Single(m), NEW i \in ActiveRows(m)' PROVE FALSE
    <3>0. i \in DOMAIN otp'[m] /\ Active(otp'[m][i])
      BY DEF ActiveRows, Active
    <3>1. i \in DOMAIN otp[m] /\ Active(otp'[m][i])
      BY <2>3, <2>6, <3>0
    <3>2. i # Latest(m)
      BY <2>3, <2>4, <2>6, <3>1
    <3>3. Active(otp[m][i])
      BY <2>3, <2>6, <3>1, <3>2
    <3>4. i \in ActiveRows(m)
      BY <3>1, <3>3 DEF ActiveRows
    <3> QED BY <2>2, <2>8, <3>2, <3>4 DEF Single
  <2> QED BY <2>7, <2>8 DEF Live
<1> QED BY <1>2, <1>3

-----------------------------------------------------------------------------
(* Codes that were signed in with.                                         *)

OneSender == \A c, d \in Senders : c = d

\* What Redis says of a code it was told to delete.
Withdrawn(m, k) == redis[m] = k => m \in kept

\* The code of a request that sends it is nobody else's; that of one that enters
\* it is withdrawn from Redis and then from the table.
Own(c) ==
    /\ pc[c] \in SenderSteps =>
          /\ c \in Senders
          /\ req[c].code \in Codes \ {inbox[req[c].of], spent[req[c].of]}
          /\ \A d \in Requests \ {c} : req[d].of = req[c].of => req[d].code # req[c].code
    /\ pc[c] \in EntrySteps => req[c].code # NoCode
    /\ pc[c] = "insert" => Live(req[c].of) = {}
    /\ pc[c] \in {"spend", "answer"} => Withdrawn(req[c].of, req[c].code)
    /\ pc[c] = "answer" => req[c].code \notin Live(req[c].of)

Gone(m) == spent[m] # NoCode => spent[m] \notin Live(m) /\ Withdrawn(m, spent[m])

CodeInv ==
    /\ \A m \in People : Single(m) /\ Gone(m)
    /\ \A c \in Requests : Own(c)

\* What a step may do to the data: R holds the request that makes it, if any.  Only
\* its own code is put anywhere, and at the step for it.
Touches(R) == \A m \in People :
    /\ \/ Live(m)' \subseteq Live(m) /\ (Single(m) => Single(m)')
       \/ \E c \in R : /\ pc[c] = "insert" /\ m = req[c].of
                       /\ Live(m)' \subseteq {req[c].code} /\ Single(m)'
    /\ \/ redis'[m] = redis[m] /\ (m \in kept => m \in kept')
       \/ redis'[m] = NoCode
       \/ \E c \in R : pc[c] = "putRedis" /\ m = req[c].of /\ redis'[m] = req[c].code
    /\ \/ inbox'[m] \in {inbox[m], NoCode}
       \/ \E c \in R : pc[c] = "deliver"
    /\ \/ spent'[m] = spent[m]
       \/ \E c \in R : pc[c] = "answer" /\ m = req[c].of /\ spent'[m] = req[c].code

\* ... and to the requests: the code it carries on is no sender's.
Moves(R) ==
    /\ \A d \in Requests \ R : pc'[d] = pc[d] /\ req'[d] = req[d]
    /\ \A c \in R :
          /\ \A d \in Requests \ R :
                pc[d] \in SenderSteps /\ req'[c].of = req[d].of => req'[c].code # req[d].code
          /\ Own(c)'

Disturbs(R) == Touches(R) /\ Moves(R)

LEMMA CodesKept ==
    ASSUME Shape, OneSender, CodeInv, NEW R \in SUBSET Requests, \A c, d \in R : c = d,
           Disturbs(R)
    PROVE  CodeInv'
<1>1. ASSUME NEW m \in People PROVE Single(m)'
  BY DEF Disturbs, Touches, Moves, CodeInv
<1>2. ASSUME NEW m \in People, spent'[m] # NoCode
      PROVE  spent'[m] \notin Live(m)' /\ (redis'[m] = spent'[m] => m \in kept')
  <2>1. \/ spent[m] = spent'[m]
        \/ \E c \in R : pc[c] = "answer" /\ m = req[c].of /\ spent'[m] = req[c].code
    BY DEF Disturbs, Touches, Moves
  <2>2. spent'[m] \notin Live(m) /\ Withdrawn(m, spent'[m])
    <3>1. CASE spent[m] = spent'[m]
      BY <1>2, <3>1 DEF CodeInv, Gone, Withdrawn
    <3>2. CASE \E c \in R : pc[c] = "answer" /\ m = req[c].of /\ spent'[m] = req[c].code
      BY <3>2 DEF CodeInv, Own, Withdrawn
    <3> QED BY <2>1, <3>1, <3>2
  <2>3. ASSUME NEW c \in R, pc[c] \in SenderSteps, m = req[c].of
        PROVE  req[c].code # spent'[m]
    <3>1. spent'[m] = spent[m]
      BY <2>1, <2>3 DEF SenderSteps
    <3> QED BY <2>3, <3>1 DEF CodeInv, Own
  <2>4. spent'[m] \notin Live(m)'
    BY <2>2, <2>3 DEF Disturbs, Touches, Moves, SenderSteps
  <2>5. (redis'[m] = spent'[m] => m \in kept')
    BY <1>2, <2>2, <2>3 DEF Disturbs, Touches, Moves, SenderSteps, Withdrawn
  <2> QED BY <2>4, <2>5
<1>3. ASSUME NEW c \in Requests \ R PROVE Own(c)'
  <2> DEFINE k == req[c].code
  <2>1. PICK m \in People : m = req[c].of
    BY DEF Shape, Carried
  <2>2. pc'[c] = pc[c] /\ req'[c] = req[c] /\ Own(c)
    BY DEF Disturbs, Touches, Moves, CodeInv
  <2>3. ASSUME NEW r \in R, pc[r] \in SenderSteps, pc[c] \in SenderSteps PROVE FALSE
    BY <2>3 DEF CodeInv, Own, OneSender
  <2>4. ASSUME NEW r \in R, pc[r] \in SenderSteps, req[r].of = m PROVE req[r].code # k
    BY <2>1, <2>4 DEF CodeInv, Own
  <2>5. ASSUME pc[c] \in SenderSteps
        PROVE  /\ c \in Senders /\ k \in Codes \ {inbox'[m], spent'[m]}
               /\ \A d \in Requests \ {c} : req'[d].of = m => req'[d].code # k
    <3>1. c \in Senders /\ k \in Codes \ {inbox[m], spent[m]}
      BY <2>1, <2>2, <2>5 DEF Own
    <3>2. k # inbox'[m]
      BY <2>3, <2>5, <3>1, CodesAreNat DEF Disturbs, Touches, Moves, SenderSteps
    <3>3. k # spent'[m]
      BY <2>1, <2>2, <2>5, <3>1 DEF Disturbs, Touches, Moves, Own
    <3>4. ASSUME NEW d \in Requests \ {c}, req'[d].of = m PROVE req'[d].code # k
      <4>1. CASE d \in R
        BY <2>1, <2>5, <3>4, <4>1 DEF Disturbs, Touches, Moves
      <4>2. CASE d \notin R
        BY <2>1, <2>2, <2>5, <3>4, <4>2 DEF Disturbs, Touches, Moves, Own
      <4> QED BY <4>1, <4>2
    <3> QED BY <3>1, <3>2, <3>3, <3>4
  <2>6. pc[c] = "insert" => Live(m)' = {}
    <3> SUFFICES ASSUME pc[c] = "insert" PROVE Live(m)' = {}
      OBVIOUS
    <3>1. Live(m) = {} /\ pc[c] \in SenderSteps
      BY <2>1, <2>2 DEF Own, SenderSteps
    <3> QED BY <2>3, <3>1 DEF Disturbs, Touches, Moves, SenderSteps
  <2>7. ASSUME pc[c] \in {"spend", "answer"} PROVE Withdrawn(m, k)'
    <3>1. Withdrawn(m, k) /\ k # NoCode
      BY <2>1, <2>2, <2>7 DEF Own, EntrySteps
    <3> QED BY <2>2, <2>4, <3>1 DEF Disturbs, Touches, Moves, SenderSteps, Withdrawn
  <2>8. pc[c] = "answer" => k \notin Live(m)'
    BY <2>1, <2>2, <2>4 DEF Disturbs, Touches, Moves, SenderSteps, Own
  <2> QED BY <2>1, <2>2, <2>5, <2>6, <2>7, <2>8 DEF Own
<1>4. \A c \in R : Own(c)'
  BY DEF Disturbs, Touches, Moves
<1>5. \A m \in People : Single(m)' /\ Gone(m)'
  BY <1>1, <1>2 DEF Gone, Withdrawn
<1> QED BY <1>3, <1>4, <1>5 DEF CodeInv

LEMMA Calm ==
    ASSUME OnlyCloses, UNCHANGED <<redis, inbox, spent>>, kept \subseteq kept', NEW R
    PROVE  Touches(R)
BY DEF OnlyCloses, Touches

\* A request that ends has nothing.
LEMMA FinishMoves ==
    ASSUME Shape, CodeInv, NEW c \in Requests, Finish(c)
    PROVE  Moves({c})
<1>1. \A d \in Requests \ {c} : pc'[d] = pc[d] /\ req'[d] = req[d]
  BY DEF Finish, Goto, Shape
<1>2. pc'[c] = "idle" /\ req'[c].code = NoCode
  BY DEF Finish, Goto, Shape, NoRequest
<1>3. \A d \in Requests : pc[d] \in SenderSteps => req[d].code # NoCode
  BY CodesAreNat DEF CodeInv, Own
<1>4. Own(c)'
  BY <1>2 DEF Own, SenderSteps, EntrySteps
<1> QED BY <1>1, <1>2, <1>3, <1>4 DEF Moves

\* A request that goes on entering its code.
LEMMA EntryMoves ==
    ASSUME Shape, CodeInv, NEW c \in Requests, NEW step \in EntrySteps, pc[c] \in EntrySteps,
           pc' = [pc EXCEPT ![c] = step], \A d \in Requests \ {c} : req'[d] = req[d],
           req'[c].of = req[c].of, req'[c].code = req[c].code,
           step \in {"spend", "answer"} =>
               (redis'[req[c].of] = req[c].code => req[c].of \in kept'),
           \A m \in People : step = "answer" /\ m = req[c].of => req[c].code \notin Live(m)'
    PROVE  Moves({c})
<1>0. PICK m \in People : m = req[c].of
  BY DEF Shape, Carried
<1>1. \A d \in Requests \ {c} : pc'[d] = pc[d] /\ req'[d] = req[d]
  BY DEF Shape
<1>2. pc'[c] = step
  BY DEF Shape
<1>3. \A d \in Requests \ {c} :
          pc[d] \in SenderSteps /\ req[c].of = req[d].of => req[c].code # req[d].code
  BY DEF CodeInv, Own
<1>4. Own(c)'
  <2>1. req[c].code # NoCode
    BY DEF CodeInv, Own
  <2>2. pc'[c] \notin SenderSteps /\ pc'[c] # "insert"
    BY <1>2 DEF SenderSteps, EntrySteps
  <2>3. pc'[c] = "answer" => req'[c].code \notin Live(req[c].of)'
    BY <1>0, <1>2
  <2> QED BY <1>2, <2>1, <2>2, <2>3 DEF Own, Withdrawn
<1> QED BY <1>1, <1>3, <1>4 DEF Moves

\* A request that goes on sending its code.
LEMMA SenderMoves ==
    ASSUME Shape, OneSender, CodeInv, NEW c \in Requests, NEW step \in SenderSteps,
           pc[c] \in SenderSteps, pc' = [pc EXCEPT ![c] = step],
           UNCHANGED <<req, inbox, spent>>,
           \A m \in People : step = "insert" /\ m = req[c].of => Live(m)' = {}
    PROVE  Moves({c})
<1>0. PICK m \in People : m = req[c].of
  BY DEF Shape, Carried
<1>1. \A d \in Requests \ {c} : pc'[d] = pc[d]
  BY DEF Shape
<1>2. pc'[c] = step
  BY DEF Shape
<1>3. \A d \in Requests \ {c} : pc[d] \notin SenderSteps
  BY DEF CodeInv, Own, OneSender
<1>4. Own(c)'
  <2>1. pc'[c] \notin EntrySteps /\ pc'[c] \notin {"spend", "answer"}
    BY <1>2 DEF SenderSteps, EntrySteps
  <2>2. pc'[c] = "insert" => Live(req[c].of)' = {}
    BY <1>0, <1>2
  <2> QED BY <1>2, <2>1, <2>2 DEF Own, CodeInv
<1> QED BY <1>1, <1>3, <1>4 DEF Moves

\* A request that starts: with a new code to send, or one that it enters.
LEMMA StartMoves ==
    ASSUME Shape, OneSender, CodeInv, NEW c \in Requests, pc[c] = "idle",
           NEW m \in People, NEW k,
           \A d \in Requests \ {c} : pc'[d] = pc[d] /\ req'[d] = req[d],
           req'[c].of = m, req'[c].code = k, UNCHANGED <<inbox, spent>>,
           \/ /\ pc'[c] = "putRedis" /\ c \in Senders /\ k \in Codes
              /\ k # inbox[m] /\ k # spent[m]
              /\ \A d \in Requests : req[d].of = m => req[d].code # k
           \/ /\ pc'[c] = "askRedis" /\ k # NoCode
              /\ k = inbox[m] \/ k = Wrong
    PROVE  Moves({c})
<1>1. CASE pc'[c] = "putRedis"
  <2>1. \A d \in Requests \ {c} : pc[d] \notin SenderSteps
    BY <1>1 DEF CodeInv, Own, OneSender
  <2>2. Own(c)'
    BY <1>1 DEF Own, SenderSteps, EntrySteps
  <2> QED BY <2>1, <2>2 DEF Moves
<1>2. CASE pc'[c] = "askRedis"
  <2>1. Own(c)'
    BY <1>2 DEF Own, SenderSteps, EntrySteps
  <2>2. \A d \in Requests \ {c} :
            pc[d] \in SenderSteps /\ req'[c].of = req[d].of => req'[c].code # req[d].code
    BY <1>2, CodesAreNat DEF CodeInv, Own
  <2> QED BY <2>1, <2>2 DEF Moves
<1> QED BY <1>1, <1>2

LEMMA NobodyMoves == ASSUME UNCHANGED <<pc, req>> PROVE Moves({})
BY DEF Moves

LEMMA CodesNext ==
    ASSUME Shape, OneSender, CodeInv, [Next]_vars
    PROVE  CodeInv'
<1>0. \A m \in People : Single(m)
  BY DEF CodeInv
<1>one. ASSUME NEW c \in Requests, Touches({c}), Moves({c}) PROVE CodeInv'
  <2>1. Disturbs({c})
    BY <1>one DEF Disturbs
  <2>2. \A d, e \in {c} : d = e
    OBVIOUS
  <2> QED BY <2>1, <2>2, CodesKept
<1>none. ASSUME Touches({}), Moves({}) PROVE CodeInv'
  BY <1>none, CodesKept DEF Disturbs
<1>calm. ASSUME NEW R, UNCHANGED <<otp, keyVars, inbox, spent>> PROVE Touches(R)
  BY <1>calm, Calm, SameTable DEF keyVars
<1>1. ASSUME NEW c \in Requests, NEW m \in People, SendOtp(c, m) PROVE CodeInv'
  <2>1. NewCode(m) \in Codes /\ NewCode(m) \notin About(m)
    BY <1>1, NewCodeIsNew DEF SendOtp
  <2>2. /\ \A d \in Requests \ {c} : pc'[d] = pc[d] /\ req'[d] = req[d]
        /\ pc'[c] = "putRedis" /\ req'[c].of = m /\ req'[c].code = NewCode(m)
        /\ c \in Senders /\ pc[c] = "idle" /\ UNCHANGED <<inbox, spent>>
    BY <1>1 DEF SendOtp, Goto, Shape, Carried
  <2>3. /\ NewCode(m) # inbox[m] /\ NewCode(m) # spent[m]
        /\ \A d \in Requests : req[d].of = m => req[d].code # NewCode(m)
    BY <2>1 DEF About
  <2>4. Moves({c})
    BY <2>1, <2>2, <2>3, StartMoves
  <2> QED BY <1>1, <1>one, <1>calm, <2>4 DEF SendOtp
<1>2. ASSUME NEW c \in Requests, NEW m \in People, NEW k \in Codes \cup {Wrong}, Verify(c, m, k)
      PROVE  CodeInv'
  <2>1. /\ \A d \in Requests \ {c} : pc'[d] = pc[d] /\ req'[d] = req[d]
        /\ pc'[c] = "askRedis" /\ req'[c].of = m /\ req'[c].code = k
        /\ pc[c] = "idle" /\ UNCHANGED <<inbox, spent>>
    BY <1>2 DEF Verify, Goto, Shape
  <2>2. k # NoCode /\ (k = inbox[m] \/ k = Wrong)
    BY <1>2, CodesAreNat DEF Verify
  <2>3. Moves({c})
    BY <2>1, <2>2, StartMoves
  <2> QED BY <1>2, <1>one, <1>calm, <2>3 DEF Verify
<1>3. ASSUME NEW c \in Requests, PutRedis(c) PROVE CodeInv'
  <2>1. Moves({c})
    BY <1>3, SenderMoves DEF PutRedis, Goto, SenderSteps
  <2>2. Touches({c})
    BY <1>3, SameTable DEF PutRedis, Touches, OnlyCloses, Shape
  <2> QED BY <1>one, <2>1, <2>2
<1>4. ASSUME NEW c \in Requests, Retire(c) PROVE CodeInv'
  <2>1. OnlyCloses /\ \A m \in People : m = req[c].of => Live(m)' = {}
    <3>1. PICK m \in People : m = req[c].of
      BY DEF Shape, Carried
    <3> QED BY <1>4, <3>1, RetireCloses
  <2>2. Moves({c})
    BY <1>4, <2>1, SenderMoves DEF Retire, Goto, SenderSteps
  <2>3. Touches({c})
    BY <1>4, <2>1, Calm DEF Retire, keyVars
  <2> QED BY <1>one, <2>2, <2>3
<1>5. ASSUME NEW c \in Requests, Insert(c) PROVE CodeInv'
  <2>1. PICK m \in People : m = req[c].of
    BY DEF Shape, Carried
  <2>2. Live(m) = {}
    BY <1>5, <2>1 DEF Insert, CodeInv, Own
  <2>3. /\ Live(m)' \subseteq {req[c].code} /\ Single(m)'
        /\ \A p \in People : p # m => Live(p)' \subseteq Live(p) /\ (Single(p) => Single(p)')
    BY <1>5, <2>1, <2>2, InsertOpens
  <2>4. Moves({c})
    BY <1>5, SenderMoves DEF Insert, Goto, SenderSteps
  <2>5. Touches({c})
    BY <1>5, <2>1, <2>3 DEF Insert, Touches, keyVars
  <2> QED BY <1>one, <2>4, <2>5
<1>6. ASSUME NEW c \in Requests, Deliver(c) PROVE CodeInv'
  <2>0. /\ Finish(c) /\ pc[c] = "deliver"
        /\ otp' = otp /\ redis' = redis /\ kept' = kept /\ spent' = spent
    BY <1>6 DEF Deliver, keyVars
  <2>1. Moves({c})
    BY <2>0, FinishMoves
  <2>2. Touches({c})
    <3>1. \A m \in People : Live(m)' \subseteq Live(m) /\ (Single(m) => Single(m)')
      BY <2>0, SameTable DEF OnlyCloses
    <3> QED BY <2>0, <3>1 DEF Touches
  <2> QED BY <1>one, <2>1, <2>2
<1>7. ASSUME NEW c \in Requests, NEW step \in EntrySteps \ {"spend", "answer"},
             pc[c] \in EntrySteps, Goto(c, step), req' = req
      PROVE  Moves({c})
  BY <1>7, EntryMoves DEF Goto
<1>8. ASSUME NEW c \in Requests, NEW step \in EntrySteps \ {"spend", "answer"}, NEW n,
             pc[c] \in EntrySteps, Goto(c, step), req' = [req EXCEPT ![c].count = n]
      PROVE  Moves({c})
  <2>1. req'[c].of = req[c].of /\ req'[c].code = req[c].code
        /\ \A d \in Requests \ {c} : req'[d] = req[d]
    BY <1>8 DEF Shape, Carried
  <2> QED BY <1>8, <2>1, EntryMoves DEF Goto
<1>9. ASSUME NEW c \in Requests, AskRedis(c) PROVE CodeInv'
  <2>1. Moves({c})
    BY <1>7, <1>9 DEF AskRedis, EntrySteps
  <2> QED BY <1>9, <1>one, <1>calm, <2>1 DEF AskRedis
<1>10. ASSUME NEW c \in Requests, AskTable(c) PROVE CodeInv'
  <2>1. Moves({c})
    <3>1. \/ Finish(c)
          \/ pc[c] \in EntrySteps /\ Goto(c, "find") /\ req' = req
      BY <1>10, Zenon DEF AskTable, EntrySteps
    <3>2. CASE Finish(c)
      BY <3>2, FinishMoves
    <3>3. CASE pc[c] \in EntrySteps /\ Goto(c, "find") /\ req' = req
      BY <1>7, <3>3 DEF EntrySteps
    <3> QED BY <3>1, <3>2, <3>3
  <2>2. Touches({c})
    BY <1>10, AskTableCloses, Calm, Zenon DEF AskTable, keyVars
  <2> QED BY <1>one, <2>1, <2>2
<1>11. ASSUME NEW c \in Requests, Find(c) \/ Register(c) PROVE CodeInv'
  <2>1. Moves({c})
    BY <1>8, <1>11, FinishMoves
       DEF Find, FindMember, FindNamed, FindNameless, FindAccount, Register, Proceed, EntrySteps
  <2>2. UNCHANGED <<otp, keyVars, inbox, spent>>
    BY <1>11 DEF Find, FindMember, FindNamed, FindNameless, FindAccount, Register
  <2> QED BY <1>one, <1>calm, <2>1, <2>2
<1>12. ASSUME NEW c \in Requests, Forget(c) PROVE CodeInv'
  <2>0. req[c].of \in People /\ req[c].code # NoCode
    BY <1>12 DEF Shape, Carried, Forget, EntrySteps, CodeInv, Own
  <2>1. redis'[req[c].of] = NoCode
    BY <1>12, <2>0 DEF Forget, Shape
  <2>2. Moves({c})
    BY <1>12, <2>0, <2>1, EntryMoves DEF Forget, Goto, EntrySteps
  <2>3. Touches({c})
    BY <1>12, SameTable DEF Forget, Touches, OnlyCloses, Shape
  <2> QED BY <1>one, <2>2, <2>3
<1>13. ASSUME NEW c \in Requests, Spend(c) PROVE CodeInv'
  <2>1. PICK m \in People : m = req[c].of
    BY DEF Shape, Carried
  <2>2. OnlyCloses /\ Live(m)' = {}
    BY <1>0, <1>13, <2>1, SpendCloses
  <2>3. Withdrawn(m, req[c].code)
    BY <1>13, <2>1 DEF Spend, CodeInv, Own
  <2>4. Moves({c})
    BY <1>13, <2>1, <2>2, <2>3, EntryMoves DEF Spend, Goto, EntrySteps, keyVars, Withdrawn
  <2>5. Touches({c})
    BY <1>13, <2>2, Calm DEF Spend, keyVars
  <2> QED BY <1>one, <2>4, <2>5
<1>14. ASSUME NEW c \in Requests, SignedIn(c) PROVE CodeInv'
  <2>1. Moves({c})
    BY <1>14, FinishMoves DEF SignedIn
  <2>2. Touches({c})
    BY <1>14, SameTable DEF SignedIn, Touches, keyVars, OnlyCloses, Shape
  <2> QED BY <1>one, <2>1, <2>2
<1>15. ASSUME NEW c \in Requests, RedisFails(c) PROVE CodeInv'
  <2>1. Touches({c})
    BY <1>15, SameTable, Calm DEF RedisFails
  <2>2. CASE pc[c] = "putRedis" /\ Goto(c, "retire")
    <3>1. Moves({c})
      BY <1>15, <2>2, SenderMoves DEF RedisFails, Goto, SenderSteps
    <3> QED BY <1>one, <2>1, <3>1
  <2>3. CASE pc[c] = "askRedis" /\ Goto(c, "askTable")
    <3>1. Moves({c})
      BY <1>7, <1>15, <2>3 DEF RedisFails, EntrySteps
    <3> QED BY <1>one, <2>1, <3>1
  <2>4. CASE pc[c] = "forget" /\ kept' = kept \cup {req[c].of} /\ Goto(c, "spend")
    <3>1. Moves({c})
      BY <1>15, <2>4, EntryMoves DEF RedisFails, Goto, EntrySteps
    <3> QED BY <1>one, <2>1, <3>1
  <2> QED BY <1>15, <2>2, <2>3, <2>4 DEF RedisFails
<1>16. ASSUME NEW c \in Requests, Fail(c) PROVE CodeInv'
  <2>1. Moves({c})
    BY <1>16, FinishMoves DEF Fail
  <2> QED BY <1>16, <1>one, <1>calm, <2>1 DEF Fail
<1>17. ASSUME NEW m \in People, Age(m) PROVE CodeInv'
  <2>1. OnlyCloses
    BY <1>17, AgeCloses
  <2>2. Touches({})
    BY <1>17, <2>1 DEF Age, Touches, OnlyCloses, keyVars, Shape
  <2>3. Moves({})
    BY <1>17, NobodyMoves DEF Age, requestVars
  <2> QED BY <1>none, <2>2, <2>3
<1>18. ASSUME NEW m \in People, LoseKey(m) PROVE CodeInv'
  <2>1. Touches({})
    BY <1>18, SameTable DEF LoseKey, Touches, OnlyCloses, Shape
  <2>2. Moves({})
    BY <1>18, NobodyMoves DEF LoseKey, requestVars
  <2> QED BY <1>none, <2>1, <2>2
<1>19. ASSUME OtherJoins \/ UNCHANGED vars PROVE CodeInv'
  <2>1. Touches({})
    BY <1>19, <1>calm DEF OtherJoins, vars, keyVars
  <2>2. Moves({})
    BY <1>19, NobodyMoves DEF OtherJoins, vars, requestVars
  <2> QED BY <1>none, <2>1, <2>2
<1> QED
  BY <1>1, <1>2, <1>3, <1>4, <1>5, <1>6, <1>9, <1>10, <1>11, <1>12, <1>13, <1>14, <1>15,
     <1>16, <1>17, <1>18, <1>19
     DEF Next, RequestStep

-----------------------------------------------------------------------------
(* Numbers.                                                                *)

LEMMA CountIsNat ==
    ASSUME Shape
    PROVE  /\ IsFiniteSet(Registered) /\ Cardinality(Registered) \in Nat
           /\ Cardinality(others) \in Nat /\ MemberCount \in Nat
<1>1. IsFiniteSet(Registered)
  BY SignInAssumption, FS_Subset DEF SignInAssumption, Registered
<1>2. Cardinality(Registered) \in Nat /\ Cardinality(others) \in Nat
  BY <1>1, FS_CardinalityType DEF Shape
<1> QED BY <1>1, <1>2 DEF MemberCount

\* Nobody has counted more members than there are.
NumberInv == MembersAreNumbered /\ \A c \in Requests : req[c].count <= MemberCount

\* The shape is kept by what a request does to itself ...
LEMMA ShapeMoves ==
    ASSUME Shape, NEW c \in Requests,
           otp' \in [People -> Seq(Rows)], redis' \in [People -> Nat], spent' \in [People -> Nat],
           kept' \subseteq People, inbox' \in [People -> Nat],
           member' \in [People -> Nat], UNCHANGED others,
           \/ Finish(c)
           \/ \E step \in Steps : /\ pc' = [pc EXCEPT ![c] = step]
                                  /\ \E x \in Carried : req' = [req EXCEPT ![c] = x]
    PROVE  Shape'
<1>1. NoRequest \in Carried
  BY SignInAssumption DEF SignInAssumption, NoRequest, Carried, NoCode
<1>2. pc' \in [Requests -> Steps] /\ req' \in [Requests -> Carried]
  <2>1. CASE Finish(c)
    BY <1>1, <2>1 DEF Finish, Goto, Shape, Steps
  <2>2. CASE \E step \in Steps : /\ pc' = [pc EXCEPT ![c] = step]
                                 /\ \E x \in Carried : req' = [req EXCEPT ![c] = x]
    BY <2>2 DEF Shape
  <2> QED BY <2>1, <2>2
<1> QED BY <1>2 DEF Shape

\* ... and so by every step.
LEMMA ShapeNext ==
    ASSUME Shape, [Next]_vars
    PROVE  Shape'
<1>t. /\ otp \in [People -> Seq(Rows)] /\ redis \in [People -> Nat] /\ spent \in [People -> Nat]
      /\ kept \subseteq People /\ inbox \in [People -> Nat]
      /\ member \in [People -> Nat]
  BY DEF Shape
<1>c. ASSUME NEW c \in Requests
      PROVE  /\ req[c] \in Carried /\ req[c].of \in People /\ req[c].code \in Nat
             /\ req[c].count \in Nat /\ req = [req EXCEPT ![c] = req[c]]
  BY DEF Shape, Carried
<1>go. ASSUME NEW c \in Requests, NEW step \in Steps, Goto(c, step), req' = req
       PROVE  /\ pc' = [pc EXCEPT ![c] = step]
              /\ \E x \in Carried : req' = [req EXCEPT ![c] = x]
  BY <1>c, <1>go DEF Goto
<1>n. ASSUME NEW c \in Requests, NEW n \in Nat, Goto(c, "forget") \/ Goto(c, "register"),
             req' = [req EXCEPT ![c].count = n]
      PROVE  \E step \in Steps : /\ pc' = [pc EXCEPT ![c] = step]
                                 /\ \E x \in Carried : req' = [req EXCEPT ![c] = x]
  <2>1. [req[c] EXCEPT !.count = n] \in Carried
    BY <1>c, <1>n DEF Carried
  <2>2. req' = [req EXCEPT ![c] = [req[c] EXCEPT !.count = n]]
    BY <1>n DEF Shape
  <2>3. "forget" \in Steps /\ "register" \in Steps
    BY DEF Steps, EntrySteps
  <2> QED BY <1>n, <2>1, <2>2, <2>3 DEF Goto
<1>steps. /\ "idle" \in Steps /\ "putRedis" \in Steps /\ "retire" \in Steps /\ "insert" \in Steps
          /\ "deliver" \in Steps /\ "askRedis" \in Steps /\ "askTable" \in Steps
          /\ "find" \in Steps /\ "forget" \in Steps /\ "spend" \in Steps /\ "answer" \in Steps
          /\ "register" \in Steps
  BY DEF Steps, SenderSteps, EntrySteps
<1>1. ASSUME NEW c \in Requests, NEW m \in People, SendOtp(c, m) PROVE Shape'
  <2>1. NewCode(m) \in Nat
    BY <1>1, NewCodeIsNew, CodesAreNat DEF SendOtp
  <2> DEFINE x == [[req[c] EXCEPT !.of = m] EXCEPT !.code = NewCode(m)]
  <2>2. x \in Carried
    BY <1>c, <2>1 DEF Carried
  <2>3. req' = [req EXCEPT ![c] = x]
    BY <1>1 DEF SendOtp, Shape
  <2> HIDE DEF x
  <2> QED BY <1>1, <1>t, <1>steps, <2>2, <2>3, ShapeMoves DEF SendOtp, Goto, keyVars, memberVars
<1>2. ASSUME NEW c \in Requests, NEW m \in People, NEW k \in Codes \cup {Wrong}, Verify(c, m, k)
      PROVE  Shape'
  <2>1. [of |-> m, code |-> k, count |-> 0] \in Carried
    BY CodesAreNat DEF Carried
  <2> QED BY <1>2, <1>t, <1>steps, <2>1, ShapeMoves DEF Verify, Goto, keyVars, memberVars
<1>3. ASSUME NEW c \in Requests, PutRedis(c) PROVE Shape'
  <2>1. redis' \in [People -> Nat] /\ kept' \subseteq People
    BY <1>3, <1>c, <1>t DEF PutRedis
  <2> QED BY <1>3, <1>t, <1>steps, <1>go, <2>1, ShapeMoves DEF PutRedis, memberVars
<1>4. ASSUME NEW c \in Requests, Retire(c) PROVE Shape'
  BY <1>4, <1>c, <1>t, <1>steps, <1>go, RetireCloses, ShapeMoves DEF Retire, keyVars, memberVars
<1>5. ASSUME NEW c \in Requests, Insert(c) PROVE Shape'
  BY <1>5, <1>c, <1>t, <1>steps, <1>go, InsertOpens, ShapeMoves DEF Insert, keyVars, memberVars
<1>6. ASSUME NEW c \in Requests, Deliver(c) PROVE Shape'
  <2>1. inbox' \in [People -> Nat]
    BY <1>6, <1>c, <1>t DEF Deliver
  <2> QED BY <1>6, <1>t, <2>1, ShapeMoves DEF Deliver, keyVars, memberVars
<1>7. ASSUME NEW c \in Requests, AskRedis(c) PROVE Shape'
  BY <1>7, <1>t, <1>steps, <1>go, ShapeMoves, Zenon DEF AskRedis, keyVars, memberVars
<1>8. ASSUME NEW c \in Requests, AskTable(c) PROVE Shape'
  BY <1>8, <1>t, <1>steps, <1>go, AskTableCloses, ShapeMoves, Zenon
     DEF AskTable, keyVars, memberVars
<1>9. ASSUME NEW c \in Requests, Find(c) \/ Register(c) PROVE Shape'
  <2>1. member' \in [People -> Nat]
    <3>1. \/ UNCHANGED memberVars
          \/ member' = [member EXCEPT ![req[c].of] = req[c].count + 1]
          \/ UNCHANGED member
      BY <1>9 DEF Find, FindMember, FindNamed, FindNameless, FindAccount, Register
    <3>2. UNCHANGED member \/ member' = [member EXCEPT ![req[c].of] = req[c].count + 1]
      BY <3>1 DEF memberVars
    <3>3. req[c].count + 1 \in Nat
      BY <1>c
    <3> QED BY <1>t, <3>2, <3>3, Zenon
  <2>2. MemberCount \in Nat
    BY CountIsNat
  <2>3. \/ Finish(c)
        \/ \E step \in Steps : /\ pc' = [pc EXCEPT ![c] = step]
                               /\ \E x \in Carried : req' = [req EXCEPT ![c] = x]
    BY <1>9, <1>n, <2>2 DEF Find, FindMember, FindNamed, FindNameless, FindAccount, Register,
                         Proceed
  <2>4. UNCHANGED <<otp, redis, kept, inbox, spent, others>>
    BY <1>9 DEF Find, FindMember, FindNamed, FindNameless, FindAccount, Register,
                keyVars, memberVars
  <2> QED BY <1>t, <2>1, <2>3, <2>4, ShapeMoves
<1>10. ASSUME NEW c \in Requests, Forget(c) PROVE Shape'
  <2>1. redis' \in [People -> Nat] /\ kept' \subseteq People
    BY <1>10, <1>t, CodesAreNat DEF Forget
  <2> QED BY <1>10, <1>t, <1>steps, <1>go, <2>1, ShapeMoves DEF Forget, memberVars
<1>11. ASSUME NEW c \in Requests, Spend(c) PROVE Shape'
  BY <1>11, <1>c, <1>t, <1>steps, <1>go, SpendCloses, ShapeMoves DEF Spend, keyVars, memberVars
<1>12. ASSUME NEW c \in Requests, SignedIn(c) PROVE Shape'
  <2>1. spent' \in [People -> Nat]
    BY <1>12, <1>c, <1>t DEF SignedIn
  <2> QED BY <1>12, <1>t, <2>1, ShapeMoves DEF SignedIn, keyVars, memberVars
<1>13. ASSUME NEW c \in Requests, RedisFails(c) PROVE Shape'
  <2>1. kept' \subseteq People
    BY <1>13, <1>c, <1>t DEF RedisFails
  <2> QED BY <1>13, <1>t, <1>steps, <1>go, <2>1, ShapeMoves DEF RedisFails, memberVars
<1>14. ASSUME NEW c \in Requests, Fail(c) PROVE Shape'
  BY <1>14, <1>t, ShapeMoves DEF Fail, keyVars, memberVars
<1>15. ASSUME NEW m \in People, Age(m) PROVE Shape'
  <2>1. otp' \in [People -> Seq(Rows)]
    BY <1>15, AgeCloses
  <2>2. inbox' \in [People -> Nat]
    BY <1>15, <1>t, CodesAreNat DEF Age
  <2> QED BY <1>15, <2>1, <2>2 DEF Age, keyVars, memberVars, requestVars, Shape
<1>16. ASSUME NEW m \in People, LoseKey(m) PROVE Shape'
  <2>1. redis' \in [People -> Nat] /\ kept' \subseteq People
    BY <1>16, <1>t, CodesAreNat DEF LoseKey
  <2> QED BY <1>16, <2>1 DEF LoseKey, memberVars, requestVars, Shape
<1>17. ASSUME OtherJoins PROVE Shape'
  <2>0. MemberCount + 1 \in Nat
    BY CountIsNat
  <2>1. others' \subseteq Nat /\ IsFiniteSet(others')
    <3>1. IsFiniteSet(others \cup {MemberCount + 1})
      BY FS_AddElement DEF Shape
    <3> QED BY <1>17, <2>0, <3>1 DEF OtherJoins, Shape
  <2> QED BY <1>17, <2>1 DEF OtherJoins, keyVars, requestVars, Shape
<1>18. ASSUME UNCHANGED vars PROVE Shape'
  BY <1>18 DEF vars, Shape
<1> QED
  BY <1>1, <1>2, <1>3, <1>4, <1>5, <1>6, <1>7, <1>8, <1>9, <1>10, <1>11, <1>12, <1>13, <1>14,
     <1>15, <1>16, <1>17, <1>18
     DEF Next, RequestStep

\* Somebody takes a number that nobody has and that is one more than some earlier
\* count: it is the next one.
LEMMA NextNumber ==
    ASSUME Shape, MembersAreNumbered, NEW n \in Nat, n <= MemberCount, ~CodeTaken(n + 1)
    PROVE  n + 1 = MemberCount + 1
<1>1. MemberCount \in Nat
  BY CountIsNat
<1>2. n + 1 \notin {member[m] : m \in Registered} \cup others
  BY DEF CodeTaken, Registered
<1>3. n + 1 \notin 1 .. MemberCount
  BY <1>2 DEF MembersAreNumbered
<1> QED BY <1>1, <1>3

LEMMA NumberNext ==
    ASSUME Shape, NumberInv, [Next]_vars
    PROVE  NumberInv'
<1>0. MemberCount \in Nat /\ IsFiniteSet(Registered) /\ Cardinality(Registered) \in Nat
      /\ Cardinality(others) \in Nat /\ IsFiniteSet(others)
  BY CountIsNat DEF Shape
<1>c. \A c \in Requests : req[c].count \in Nat /\ req[c].count <= MemberCount
  BY DEF Shape, Carried, NumberInv
<1>same. ASSUME UNCHANGED memberVars
         PROVE  MemberCount' = MemberCount /\ MembersAreNumbered'
  <2>1. Registered' = Registered /\ others' = others /\ member' = member
    BY <1>same DEF memberVars, Registered
  <2> QED BY <2>1 DEF MemberCount, MembersAreNumbered, NumberInv
<1>1. ASSUME UNCHANGED memberVars,
             \A c \in Requests : req'[c].count \in {0, req[c].count, MemberCount}
      PROVE  NumberInv'
  <2>1. \A c \in Requests : req'[c].count <= MemberCount
    BY <1>0, <1>1, <1>c
  <2> QED BY <1>1, <1>same, <2>1 DEF NumberInv
<1>2. ASSUME NEW c \in Requests, Finish(c)
      PROVE  \A d \in Requests : req'[d].count \in {0, req[d].count}
  BY <1>2 DEF Finish, Shape, NoRequest
<1>3. ASSUME NEW c \in Requests, NEW n, req' = [req EXCEPT ![c].count = n]
      PROVE  \A d \in Requests : req'[d].count \in {n, req[d].count}
  BY <1>3 DEF Shape, Carried
<1>4. ASSUME NEW c \in Requests, NEW m \in People, SendOtp(c, m) PROVE NumberInv'
  <2>1. \A d \in Requests : req'[d].count = req[d].count
    BY <1>4 DEF SendOtp, Shape, Carried
  <2> QED BY <1>1, <1>4, <2>1 DEF SendOtp
<1>5. ASSUME NEW c \in Requests, NEW m \in People, NEW k, Verify(c, m, k) PROVE NumberInv'
  <2>1. \A d \in Requests : req'[d].count \in {0, req[d].count}
    BY <1>5 DEF Verify, Shape
  <2> QED BY <1>1, <1>5, <2>1 DEF Verify
<1>6. ASSUME NEW c \in Requests,
             \/ PutRedis(c) \/ Retire(c) \/ Insert(c) \/ Deliver(c) \/ AskRedis(c) \/ AskTable(c)
             \/ Forget(c) \/ Spend(c) \/ SignedIn(c) \/ RedisFails(c) \/ Fail(c)
      PROVE  NumberInv'
  <2>1. req' = req \/ Finish(c)
    <3>1. CASE PutRedis(c) \/ Retire(c) \/ Insert(c) \/ AskRedis(c) \/ Forget(c) \/ Spend(c)
      BY <3>1 DEF PutRedis, Retire, Insert, AskRedis, Forget, Spend
    <3>2. CASE AskTable(c) \/ RedisFails(c)
      BY <3>2 DEF AskTable, RedisFails
    <3>3. CASE Deliver(c)
      BY <3>3 DEF Deliver
    <3>4. CASE SignedIn(c)
      BY <3>4 DEF SignedIn
    <3>5. CASE Fail(c)
      BY <3>5, ZenonT(60) DEF Fail
    <3> QED BY <1>6, <3>1, <3>2, <3>3, <3>4, <3>5
  <2>2. UNCHANGED memberVars
    BY <1>6 DEF PutRedis, Retire, Insert, Deliver, AskRedis, AskTable, Forget, Spend, SignedIn,
                RedisFails, Fail
  <2>3. \A d \in Requests : req'[d].count \in {0, req[d].count}
    BY <1>2, <2>1
  <2> QED BY <1>1, <2>2, <2>3
<1>7. ASSUME NEW c \in Requests, Find(c) PROVE NumberInv'
  <2>1. UNCHANGED memberVars
    BY <1>7 DEF Find, FindMember, FindNamed, FindNameless, FindAccount
  <2>2. \/ Finish(c) \/ req' = [req EXCEPT ![c].count = 0]
        \/ req' = [req EXCEPT ![c].count = MemberCount]
    BY <1>7 DEF Find, FindMember, FindNamed, FindNameless, FindAccount, Proceed
  <2> QED BY <1>1, <1>2, <1>3, <2>1, <2>2
<1>8. ASSUME NEW c \in Requests, Register(c) PROVE NumberInv'
  <2> DEFINE n == req[c].count + 1
  <2>1. PICK m \in People : m = req[c].of
    BY DEF Shape, Carried
  <2>2. CASE m \notin Registered /\ ~CodeTaken(n)
    <3>1. member' = [member EXCEPT ![m] = n] /\ others' = others
          /\ req' = [req EXCEPT ![c].count = 0]
      BY <1>8, <2>1, <2>2 DEF Register, Proceed
    <3>2. n = MemberCount + 1
      BY <1>c, <2>2, NextNumber DEF NumberInv
    <3>3. Registered' = Registered \cup {m}
      BY <1>0, <2>2, <3>1, <3>2 DEF Registered, Shape
    <3>4. {member'[p] : p \in Registered'} = {member[p] : p \in Registered} \cup {n}
      BY <2>2, <3>1, <3>3 DEF Registered, Shape
    <3>5. MemberCount' = MemberCount + 1
      <4>1. Cardinality(Registered \cup {m}) = Cardinality(Registered) + 1
        BY <1>0, <2>2, FS_AddElement
      <4> QED BY <1>0, <3>1, <3>3, <4>1 DEF MemberCount
    <3>6. MembersAreNumbered'
      <4>1. 1 .. MemberCount + 1 = (1 .. MemberCount) \cup {n}
        BY <1>0, <3>2
      <4> QED BY <3>1, <3>4, <3>5, <4>1 DEF NumberInv, MembersAreNumbered
    <3>7. \A d \in Requests : req'[d].count <= MemberCount'
      BY <1>0, <1>3, <1>c, <3>1, <3>5
    <3> QED BY <3>6, <3>7 DEF NumberInv
  <2>3. CASE ~(m \notin Registered /\ ~CodeTaken(n))
    BY <1>1, <1>2, <1>8, <2>1, <2>3 DEF Register, memberVars
  <2> QED BY <2>2, <2>3
<1>9. ASSUME OtherJoins PROVE NumberInv'
  <2> DEFINE n == MemberCount + 1
  <2>1. others' = others \cup {n} /\ member' = member /\ req' = req /\ Registered' = Registered
    BY <1>9 DEF OtherJoins, requestVars, Registered
  <2>2. n \notin others
    BY <1>9 DEF OtherJoins, CodeTaken
  <2>3. MemberCount' = MemberCount + 1
    <3>1. Cardinality(others \cup {n}) = Cardinality(others) + 1
      BY <1>0, <2>2, FS_AddElement
    <3> QED BY <1>0, <2>1, <3>1 DEF MemberCount
  <2>4. MembersAreNumbered'
    <3>1. 1 .. MemberCount + 1 = (1 .. MemberCount) \cup {n}
      BY <1>0
    <3> QED BY <2>1, <2>3, <3>1 DEF NumberInv, MembersAreNumbered
  <2>5. \A d \in Requests : req'[d].count <= MemberCount'
    BY <1>0, <1>c, <2>1, <2>3
  <2> QED BY <2>4, <2>5 DEF NumberInv
<1>10. ASSUME NEW m \in People, Age(m) \/ LoseKey(m) PROVE NumberInv'
  BY <1>1, <1>10 DEF Age, LoseKey, requestVars
<1>11. ASSUME UNCHANGED vars PROVE NumberInv'
  BY <1>1, <1>11 DEF vars, memberVars
<1> QED
  BY <1>4, <1>5, <1>6, <1>7, <1>8, <1>9, <1>10, <1>11 DEF Next, RequestStep

LEMMA InitShape == Init => Shape /\ NumberInv /\ CodeInv
<1> SUFFICES ASSUME Init PROVE Shape /\ NumberInv /\ CodeInv
  OBVIOUS
<1>1. NoRequest \in Carried
  BY SignInAssumption DEF SignInAssumption, NoRequest, Carried, NoCode
<1>2. IsFiniteSet({}) /\ Cardinality({}) = 0
  BY FS_EmptySet
<1>3. Shape
  <2>1. <<>> \in Seq(Rows)
    OBVIOUS
  <2> QED BY <1>1, <1>2, <2>1, CodesAreNat DEF Init, Shape, Steps
<1>4. Registered = {} /\ MemberCount = 0
  <2>1. Registered = {} /\ others = {}
    BY DEF Init, Registered
  <2> QED BY <1>2, <2>1 DEF MemberCount
<1>5. NumberInv
  BY <1>4 DEF Init, NumberInv, MembersAreNumbered, NoRequest
<1>6. CodeInv
  BY DEF Init, CodeInv, Single, Gone, ActiveRows, Own, SenderSteps, EntrySteps
<1> QED BY <1>3, <1>5, <1>6

-----------------------------------------------------------------------------
\* auth.repository.ts and member.repository.ts: the number in a member code is
\* counted by one statement and taken by another, and still members are numbered
\* 1, 2, 3, ..., for any number of people who register side by side, be they
\* followed or not, and whatever fails.
THEOREM MembersNumbered == Spec => []MembersAreNumbered
<1>1. Shape /\ NumberInv /\ [Next]_vars => Shape' /\ NumberInv'
  BY ShapeNext, NumberNext
<1>2. NumberInv => MembersAreNumbered
  BY DEF NumberInv
<1> QED BY InitShape, <1>1, <1>2, PTL DEF Spec

\* otp.service.ts checkValid and consume: after a sign-in was answered its code is
\* not in force in the table, and in Redis only where the deletion of the key has
\* failed, for any number of requests that enter codes side by side and any
\* failures, while codes are asked for one at a time.  (Entries that are under way
\* at once may all be answered; nothing is said of them.)
THEOREM SpentCodesStaySpent ==
    ASSUME OneSender
    PROVE  Spec => []SpentStaysSpent
<1>1. Shape /\ CodeInv /\ [Next]_vars => Shape' /\ CodeInv'
  BY ShapeNext, CodesNext
<1>2. Shape /\ CodeInv => SpentStaysSpent
  <2> SUFFICES ASSUME Shape, CodeInv, NEW m \in People, spent[m] # NoCode
               PROVE  ~InForce(m, spent[m]) /\ (redis[m] = spent[m] => m \in kept)
    BY DEF SpentStaysSpent
  <2>1. spent[m] \notin Live(m) /\ Withdrawn(m, spent[m])
    BY DEF CodeInv, Gone
  <2>2. HasActive(m) => otp[m][Latest(m)].code \in Live(m)
    BY LatestActive DEF Live
  <2> QED BY <2>1, <2>2 DEF InForce, Withdrawn
<1> QED BY InitShape, <1>1, <1>2, PTL DEF Spec

=============================================================================
