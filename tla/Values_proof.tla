---------------------------- MODULE Values_proof ----------------------------
(***************************************************************************)
(* Which value reaches which column, for every statement, every value that *)
(* is passed and every type of row.                                        *)
(*                                                                         *)
(* Params is a fold over the text and DocumentedNumber a recursive         *)
(* function on it.  What they compute is proved by taking a least          *)
(* counterexample (WFMin, as in Heap_proof), the first place of a text     *)
(* where something fails.                                                  *)
(***************************************************************************)
EXTENDS Values, SequenceTheorems, FiniteSetTheorems, TLAPS

-----------------------------------------------------------------------------
(* Least counterexamples *)

Below == {ss \in Nat \X Nat : ss[1] < ss[2]}

\* A set of numbers that is not empty has a smallest number.
LEMMA LeastNumber ==
  ASSUME NEW T \in SUBSET Nat, T # {}
  PROVE  \E n \in T : \A m \in T : n <= m
<1>1. IsWellFoundedOn(Below, Nat)
  BY NatLessThanWellFounded, Zenon DEF OpToRel, Below
<1>2. PICK n \in T : \A m \in T : ~ (<<m, n>> \in Below)
  BY <1>1, WFMin
<1>. SUFFICES ASSUME NEW m \in T PROVE n <= m
  BY <1>2
<1>3. <<m, n>> \notin Below /\ <<m, n>> \in Nat \X Nat
  BY <1>2
<1>. QED
  BY <1>3 DEF Below

-----------------------------------------------------------------------------
(* Params as a function of the length of what was read *)

NoParams == [count |-> 0, name |-> << >>, number |-> << >>]

\* h has the parameters of the tokens of every set in D.
Reads(h, sql, D) ==
    h = [s \in D |-> IF s = {} THEN NoParams
                     ELSE AssignVarNumber(h[s \ {Max(s)}], sql[Max(s)])]

Small(n, k) == {s \in SUBSET (1 .. n) : Cardinality(s) <= k}

LEMMA PartsOfIntervals ==
  ASSUME NEW n \in Nat, NEW s \in SUBSET (1 .. n)
  PROVE  /\ IsFiniteSet(s) /\ Cardinality(s) \in Nat
         /\ Cardinality(1 .. n) \in Nat /\ Cardinality(s) <= Cardinality(1 .. n)
<1>1. 1 \in Int /\ n \in Int
  OBVIOUS
<1>2. IsFiniteSet(1 .. n)
  BY <1>1, FS_Interval
<1> DEFINE I == 1 .. n
<1>3. IsFiniteSet(I) /\ s \in SUBSET I
  BY <1>2
<1> HIDE DEF I
<1>4. IsFiniteSet(s) /\ Cardinality(s) <= Cardinality(I)
  BY <1>3, FS_Subset
<1>5. Cardinality(s) \in Nat /\ Cardinality(I) \in Nat
  BY <1>3, <1>4, FS_CardinalityType
<1>. QED
  BY <1>4, <1>5 DEF I

LEMMA MaxIsIn ==
  ASSUME NEW n \in Nat, NEW s \in SUBSET (1 .. n), s # {}
  PROVE  Max(s) \in s /\ \A x \in s : x <= Max(s)
<1> DEFINE T == {k \in Nat : \A x \in s : x <= k}
<1>1. n \in T
  OBVIOUS
<1>2. PICK k \in T : \A m \in T : k <= m
  BY <1>1, LeastNumber
<1>3. k \in s
  <2>. SUFFICES ASSUME k \notin s PROVE FALSE
    OBVIOUS
  <2>1. \A x \in s : x <= k - 1 /\ x >= 1
    BY <1>2
  <2>2. PICK x \in s : TRUE
    OBVIOUS
  <2>3. k - 1 \in Nat
    BY <1>2, <2>1, <2>2
  <2>4. k - 1 \in T
    BY <2>1, <2>3
  <2>. QED
    BY <1>2, <2>3, <2>4
<1>4. \E x \in s : \A y \in s : x >= y
  BY <1>2, <1>3
<1>5. Max(s) \in s /\ \A y \in s : Max(s) >= y
  BY <1>4 DEF Max
<1>. QED
  BY <1>5

LEMMA SmallerSets ==
  ASSUME NEW n \in Nat, NEW k \in Nat, NEW s \in Small(n, k), s # {}
  PROVE  /\ s \ {Max(s)} \in Small(n, k - 1)
         /\ s \ {Max(s)} \in Small(n, k)
<1>1. s \in SUBSET (1 .. n) /\ Max(s) \in s
  BY MaxIsIn DEF Small
<1>2. IsFiniteSet(s) /\ Cardinality(s) \in Nat
  BY <1>1, PartsOfIntervals
<1>3. Cardinality(s \ {Max(s)}) = Cardinality(s) - 1
  BY <1>1, <1>2, FS_RemoveElement
<1>4. Cardinality(s) <= k /\ s \ {Max(s)} \in SUBSET (1 .. n)
  BY <1>1 DEF Small
<1>5. Cardinality(s) - 1 <= k - 1 /\ Cardinality(s) - 1 <= k
  BY <1>2, <1>4
<1>. QED
  BY <1>3, <1>4, <1>5 DEF Small

LEMMA ReadsExist ==
  ASSUME NEW n \in Nat, NEW sql, NEW k \in Nat
  PROVE  \E h : Reads(h, sql, Small(n, k))
<1> DEFINE Without == {m \in Nat : ~ \E h : Reads(h, sql, Small(n, m))}
<1> SUFFICES ASSUME Without # {} PROVE FALSE
  OBVIOUS
<1>1. PICK m \in Without : \A l \in Without : m <= l
  BY LeastNumber
<1>2. \A s \in SUBSET (1 .. n) : IsFiniteSet(s) /\ Cardinality(s) \in Nat
  BY PartsOfIntervals
<1>3. CASE m = 0
  <2>1. Small(n, 0) = {{}}
    BY <1>2, FS_EmptySet DEF Small
  <2>2. Reads([s \in {{}} |-> NoParams], sql, {{}})
    BY DEF Reads
  <2>. QED
    BY <1>3, <2>1, <2>2
<1>4. CASE m # 0
  <2>1. m - 1 \in Nat /\ ~ (m <= m - 1)
    BY <1>4
  <2>2. PICK h : Reads(h, sql, Small(n, m - 1))
    BY <1>1, <2>1
  <2> DEFINE g == [s \in Small(n, m) |->
                      IF s = {} THEN NoParams
                      ELSE AssignVarNumber(h[s \ {Max(s)}], sql[Max(s)])]
  <2>3. Small(n, m - 1) \subseteq Small(n, m)
    BY <1>2 DEF Small
  <2>4. \A s \in Small(n, m - 1) : g[s] = h[s]
    BY <2>2, <2>3 DEF Reads
  <2>5. \A s \in Small(n, m) : s # {} => g[s \ {Max(s)}] = h[s \ {Max(s)}]
    BY <2>4, SmallerSets
  <2>6. Reads(g, sql, Small(n, m))
    BY <2>5 DEF Reads
  <2>. QED
    BY <2>6
<1>. QED
  BY <1>3, <1>4

\* f has the parameters of the first k tokens of sql, for every k.
ReadsPrefixes(f, sql) ==
    /\ f[0] = NoParams
    /\ \A k \in 1 .. Len(sql) : f[k] = AssignVarNumber(f[k - 1], sql[k])

\* sqlite3_prepare_v2 reads a text from left to right.
LEMMA ParamsUnfolds ==
  ASSUME NEW sql \in Seq(Token)
  PROVE  \E f : ReadsPrefixes(f, sql) /\ Params(sql) = f[Len(sql)]
<1> DEFINE n == Len(sql)
<1>1. n \in Nat /\ DOMAIN sql = 1 .. n
  BY LenProperties
<1> HIDE DEF n
<1> DEFINE D == SUBSET (1 .. n)
<1>2. Params(sql) = (CHOOSE h : Reads(h, sql, D))[1 .. n]
  BY <1>1 DEF Params, FoldLeft, MapThenFoldSet, Reads, NoParams
<1>3. \E h : Reads(h, sql, D)
  <2>1. \A s \in D : Cardinality(s) <= Cardinality(1 .. n) /\ Cardinality(1 .. n) \in Nat
    BY <1>1, PartsOfIntervals
  <2>2. Small(n, Cardinality(1 .. n)) = D /\ Cardinality(1 .. n) \in Nat
    BY <2>1 DEF Small
  <2>3. \E h : Reads(h, sql, Small(n, Cardinality(1 .. n)))
    BY <1>1, <2>2, ReadsExist
  <2>. QED
    BY <2>2, <2>3
<1>4. PICK h : Reads(h, sql, D) /\ Params(sql) = h[1 .. n]
  BY <1>2, <1>3, Zenon
<1> DEFINE f == [k \in 0 .. n |-> h[1 .. k]]
<1>5. f[0] = NoParams
  <2>1. 1 .. 0 = {} /\ {} \in D
    OBVIOUS
  <2>. QED
    BY <1>1, <1>4, <2>1 DEF Reads
<1>6. ASSUME NEW k \in 1 .. n
      PROVE  f[k] = AssignVarNumber(f[k - 1], sql[k])
  <2>1. 1 .. k \in D /\ 1 .. k # {} /\ k - 1 \in 0 .. n
    BY <1>1
  <2>2. Max(1 .. k) = k
    <3>1. k \in Nat /\ k \in 1 .. k
      BY <1>1
    <3>2. \A s \in SUBSET (1 .. k) : s # {} => Max(s) \in s /\ \A x \in s : x <= Max(s)
      BY <3>1, MaxIsIn
    <3>3. Max(1 .. k) \in 1 .. k /\ \A x \in 1 .. k : x <= Max(1 .. k)
      BY <2>1, <3>2
    <3>. QED
      BY <3>1, <3>3
  <2>3. (1 .. k) \ {k} = 1 .. k - 1
    BY <1>1
  <2>4. h[1 .. k] = AssignVarNumber(h[1 .. k - 1], sql[k])
    BY <1>4, <2>1, <2>2, <2>3 DEF Reads
  <2>. QED
    BY <2>1, <2>4
<1>7. ReadsPrefixes(f, sql) /\ Params(sql) = f[Len(sql)]
  BY <1>1, <1>4, <1>5, <1>6 DEF ReadsPrefixes, n
<1>. QED
  BY <1>7


-----------------------------------------------------------------------------
(* The numbers and the names of the parameters *)

LEMMA TokenKinds ==
  ASSUME NEW t \in Token
  PROVE  /\ t = Nameless <=> ~IsName(t) /\ ~IsNumber(t)
         /\ IsName(t) => t # Nameless /\ ~IsNumber(t) /\ t.of \in Key /\ t.of \notin Nat
         /\ IsNumber(t) => t # Nameless /\ t = Numbered(t.of) /\ t.of \in Nat /\ t.of >= 1
<1>1. CASE t \in [sign : {"?"}, of : Nat]
  BY <1>1 DEF IsName, IsNumber, Nameless, Numbered
<1>2. CASE t \in [sign : {":", "@", "$"}, of : Key]
  BY <1>2, KeysAreNames DEF IsName, IsNumber, Nameless
<1>. QED
  BY <1>1, <1>2 DEF Token

LEMMA NamelessIsToken == NoName = Nameless /\ Nameless \in Token /\ ~IsName(Nameless) /\ ~IsNumber(Nameless)
  BY DEF Nameless, NoName, Token, IsName, IsNumber

\* What the first k tokens of sql leave in p.
Typed(p, k) ==
    /\ p.count \in Nat
    /\ p.name \in [1 .. p.count -> Token]
    /\ p.number \in Seq(Nat) /\ Len(p.number) = k
    /\ \A j \in 1 .. k : p.number[j] \in 1 .. p.count

\* A number has the name it got first, and each name has one number.
NamesKept(p, sql, k) ==
    /\ \A j \in 1 .. k : /\ IsName(sql[j]) => p.name[p.number[j]] = sql[j]
                         /\ sql[j] # Nameless => p.name[p.number[j]] # Nameless
    /\ \A n \in 1 .. p.count :
          /\ p.name[n] # Nameless =>
                \E j \in 1 .. k : sql[j] = p.name[n] /\ p.number[j] = n
          /\ p.name[n] = Nameless => \E j \in 1 .. k : ~IsName(sql[j])
    /\ \A m, n \in 1 .. p.count : IsName(p.name[m]) /\ p.name[m] = p.name[n] => m = n

\* n is the number after those of the first j - 1 tokens.
IsNext(number, j, n) ==
    /\ \A i \in 1 .. j - 1 : number[i] < n
    /\ n = 1 \/ \E i \in 1 .. j - 1 : number[i] = n - 1

NumbersGiven(p, sql, k) ==
    /\ \A j \in 1 .. k : IsNumber(sql[j]) => p.number[j] = sql[j].of
    /\ \A j \in 1 .. k :
          /\ ~IsNumber(sql[j])
          /\ IsName(sql[j]) => \A i \in 1 .. j - 1 : sql[i] # sql[j]
          => IsNext(p.number, j, p.number[j])
    /\ p.count # 0 => \E j \in 1 .. k : p.number[j] = p.count

Numbering(p, sql, k) == Typed(p, k) /\ NamesKept(p, sql, k) /\ NumbersGiven(p, sql, k)

LEMMA NothingRead == \A sql : Numbering(NoParams, sql, 0)
  BY EmptySeq DEF Numbering, Typed, NamesKept, NumbersGiven, NoParams

\* The number of the next token: one there is, one that is counted up to, or
\* the one after all of them.
LEMMA VarNumberFacts ==
  ASSUME NEW sql, NEW k \in Nat, NEW p, Typed(p, k), NamesKept(p, sql, k), NEW t \in Token
  PROVE  /\ VarNumber(p, t) \in Nat /\ VarNumber(p, t) >= 1
         /\ IsNumber(t) => VarNumber(p, t) = t.of
         /\ t = Nameless => VarNumber(p, t) = p.count + 1
         /\ IsName(t) => \/ /\ VarNumber(p, t) \in 1 .. p.count
                            /\ p.name[VarNumber(p, t)] = t
                         \/ /\ VarNumber(p, t) = p.count + 1
                            /\ \A n \in 1 .. p.count : p.name[n] # t
<1>1. p.count \in Nat /\ DOMAIN p.name = 1 .. p.count
  BY DEF Typed
<1>2. CASE t = Nameless
  BY <1>1, <1>2, TokenKinds DEF VarNumber
<1>3. CASE IsNumber(t)
  BY <1>3, TokenKinds DEF VarNumber
<1>4. CASE IsName(t)
  <2>1. t # Nameless /\ ~IsNumber(t)
    BY <1>4, TokenKinds
  <2>2. CASE t \in Range(p.name)
    <3>1. \E i \in 1 .. p.count : p.name[i] = t
      BY <1>1, <2>2 DEF Range
    <3> DEFINE x == CHOOSE i \in 1 .. p.count : p.name[i] = t
    <3>2. x \in 1 .. p.count /\ p.name[x] = t
      BY <3>1
    <3>3. VarNumber(p, t) = x
      BY <2>1, <2>2 DEF VarNumber
    <3>. QED
      BY <1>1, <2>1, <3>2, <3>3
  <2>3. CASE t \notin Range(p.name)
    BY <1>1, <2>1, <2>3 DEF VarNumber, Range
  <2>. QED
    BY <2>2, <2>3
<1>. QED
  BY <1>2, <1>3, <1>4, TokenKinds

\* What one token adds.
LEMMA AssignFacts ==
  ASSUME NEW p, NEW k \in Nat, Typed(p, k), NEW t \in Token,
         NEW x, x = VarNumber(p, t), x \in Nat, x >= 1,
         NEW q, q = AssignVarNumber(p, t)
  PROVE  /\ q.count \in Nat /\ q.count >= p.count /\ x \in 1 .. q.count
         /\ q.count = IF x > p.count THEN x ELSE p.count
         /\ DOMAIN q.name = 1 .. q.count
         /\ \A i \in 1 .. q.count :
               q.name[i] = IF i <= p.count /\ p.name[i] # Nameless THEN p.name[i]
                           ELSE IF i = x THEN t ELSE Nameless
         /\ q.number \in Seq(Nat) /\ Len(q.number) = k + 1
         /\ \A j \in 1 .. k : q.number[j] = p.number[j]
         /\ q.number[k + 1] = x
<1>1. /\ q.count = (IF x > p.count THEN x ELSE p.count)
      /\ q.name = [i \in 1 .. q.count |->
                      IF i = x /\ (IF i <= p.count THEN p.name[i] ELSE Nameless) = Nameless
                      THEN t ELSE (IF i <= p.count THEN p.name[i] ELSE Nameless)]
      /\ q.number = Append(p.number, x)
  BY NamelessIsToken DEF AssignVarNumber
<1>2. p.count \in Nat /\ p.number \in Seq(Nat) /\ Len(p.number) = k
  BY DEF Typed
<1>3. q.count \in Nat /\ q.count >= p.count /\ x \in 1 .. q.count
  BY <1>1, <1>2
<1>4. /\ q.number \in Seq(Nat) /\ Len(q.number) = k + 1
      /\ \A j \in 1 .. k : q.number[j] = p.number[j]
      /\ q.number[k + 1] = x
  BY <1>1, <1>2
<1>5. \A i \in 1 .. q.count :
               q.name[i] = IF i <= p.count /\ p.name[i] # Nameless THEN p.name[i]
                           ELSE IF i = x THEN t ELSE Nameless
  BY <1>1
<1>. QED
  BY <1>1, <1>3, <1>4, <1>5


\* The next token keeps to it.
LEMMA NextToken ==
  ASSUME NEW sql \in Seq(Token), NEW k \in 0 .. Len(sql) - 1, NEW p, Numbering(p, sql, k)
  PROVE  Numbering(AssignVarNumber(p, sql[k + 1]), sql, k + 1)
<1> DEFINE t == sql[k + 1]
           x == VarNumber(p, t)
           q == AssignVarNumber(p, t)
<1>1. t \in Token /\ k \in Nat
  BY ElementOfSeq, LenProperties
<1>2. Typed(p, k) /\ NamesKept(p, sql, k) /\ NumbersGiven(p, sql, k)
  BY DEF Numbering
<1>3. /\ x \in Nat /\ x >= 1
      /\ IsNumber(t) => x = t.of
      /\ t = Nameless => x = p.count + 1
      /\ IsName(t) => \/ x \in 1 .. p.count /\ p.name[x] = t
                      \/ x = p.count + 1 /\ \A n \in 1 .. p.count : p.name[n] # t
  BY <1>1, <1>2, VarNumberFacts
<1>4. /\ q.count \in Nat /\ q.count >= p.count /\ x \in 1 .. q.count
      /\ q.count = IF x > p.count THEN x ELSE p.count
      /\ DOMAIN q.name = 1 .. q.count
      /\ \A i \in 1 .. q.count :
            q.name[i] = IF i <= p.count /\ p.name[i] # Nameless THEN p.name[i]
                        ELSE IF i = x THEN t ELSE Nameless
      /\ q.number \in Seq(Nat) /\ Len(q.number) = k + 1
      /\ \A j \in 1 .. k : q.number[j] = p.number[j]
      /\ q.number[k + 1] = x
  BY <1>1, <1>2, <1>3, AssignFacts
<1>5. \E g : q.name = [i \in 1 .. q.count |-> g[i]]
  <2>1. q.name = [i \in 1 .. q.count |->
                      IF i = x /\ (IF i <= p.count THEN p.name[i] ELSE NoName) = NoName
                      THEN t ELSE (IF i <= p.count THEN p.name[i] ELSE NoName)]
    BY DEF AssignVarNumber
  <2>2. q.name = [i \in 1 .. q.count |-> q.name[i]]
    BY <2>1
  <2>. QED
    BY <2>2
<1>6. /\ p.count \in Nat /\ p.name \in [1 .. p.count -> Token]
      /\ \A j \in 1 .. k : p.number[j] \in 1 .. p.count
  BY <1>2 DEF Typed
<1> HIDE DEF t, x, q
<1>7. /\ t = Nameless <=> ~IsName(t) /\ ~IsNumber(t)
      /\ IsName(t) => t # Nameless /\ ~IsNumber(t)
      /\ IsNumber(t) => t # Nameless
      /\ ~IsName(Nameless)
  BY <1>1, TokenKinds, NamelessIsToken
<1>8. Typed(q, k + 1)
  <2>1. ASSUME NEW i \in 1 .. q.count PROVE q.name[i] \in Token
    <3>1. CASE i <= p.count /\ p.name[i] # Nameless
      <4>1. i \in 1 .. p.count /\ q.name[i] = p.name[i]
        BY <1>4, <1>6, <3>1
      <4>. QED
        BY <1>6, <4>1
    <3>2. CASE ~(i <= p.count /\ p.name[i] # Nameless)
      <4>1. q.name[i] = t \/ q.name[i] = Nameless
        BY <1>4, <3>2
      <4>. QED
        BY <1>1, <4>1, NamelessIsToken
    <3>. QED
      BY <3>1, <3>2
  <2>2. q.name \in [1 .. q.count -> Token]
    BY <1>5, <2>1
  <2>3. ASSUME NEW j \in 1 .. k + 1 PROVE q.number[j] \in 1 .. q.count
    <3>1. CASE j = k + 1
      BY <1>4, <3>1
    <3>2. CASE j \in 1 .. k
      <4>1. q.number[j] = p.number[j] /\ p.number[j] \in 1 .. p.count
        BY <1>4, <1>6, <3>2
      <4>. QED
        BY <1>4, <1>6, <4>1
    <3>. QED
      BY <1>1, <3>1, <3>2
  <2>. QED
    BY <1>4, <2>2, <2>3 DEF Typed
<1>9. /\ IsName(t) => q.name[x] = t
      /\ t # Nameless => q.name[x] # Nameless
  BY <1>3, <1>4, <1>6, <1>7
<1>10. \A n \in 1 .. p.count : p.name[n] # Nameless => q.name[n] = p.name[n]
  BY <1>4, <1>6
<1>11. \A n \in 1 .. q.count : q.name[n] # Nameless =>
          \/ n \in 1 .. p.count /\ p.name[n] = q.name[n]
          \/ n = x /\ q.name[n] = t
  BY <1>4, <1>6
<1>12. NamesKept(q, sql, k + 1)
  <2>1. ASSUME NEW j \in 1 .. k + 1
        PROVE  /\ IsName(sql[j]) => q.name[q.number[j]] = sql[j]
               /\ sql[j] # Nameless => q.name[q.number[j]] # Nameless
    <3>1. CASE j = k + 1
      BY <1>4, <1>9, <3>1 DEF t
    <3>2. CASE j \in 1 .. k
      <4>1. /\ q.number[j] = p.number[j] /\ p.number[j] \in 1 .. p.count
            /\ IsName(sql[j]) => p.name[p.number[j]] = sql[j]
            /\ sql[j] # Nameless => p.name[p.number[j]] # Nameless
        BY <1>2, <1>4, <1>6, <3>2 DEF NamesKept
      <4>2. IsName(sql[j]) => sql[j] # Nameless
        BY <1>7
      <4>. QED
        BY <1>10, <4>1, <4>2
    <3>. QED
      BY <1>1, <3>1, <3>2
  <2>2. ASSUME NEW n \in 1 .. q.count, q.name[n] # Nameless
        PROVE  \E j \in 1 .. k + 1 : sql[j] = q.name[n] /\ q.number[j] = n
    <3>1. CASE n \in 1 .. p.count /\ p.name[n] = q.name[n]
      <4>1. PICK j \in 1 .. k : sql[j] = p.name[n] /\ p.number[j] = n
        BY <1>2, <2>2, <3>1 DEF NamesKept
      <4>2. j \in 1 .. k + 1 /\ q.number[j] = n
        BY SMTT(30), <1>1, <1>4, <4>1
      <4>. QED
        BY <3>1, <4>1, <4>2
    <3>2. CASE n = x /\ q.name[n] = t
      <4>1. k + 1 \in 1 .. k + 1
        BY <1>1
      <4>. QED
        BY <1>4, <3>2, <4>1 DEF t
    <3>. QED
      BY <1>11, <2>2, <3>1, <3>2
  <2>3. ASSUME NEW n \in 1 .. q.count, q.name[n] = Nameless
        PROVE  \E j \in 1 .. k + 1 : ~IsName(sql[j])
    <3>1. CASE ~IsName(t)
      <4>1. k + 1 \in 1 .. k + 1
        BY <1>1
      <4>. QED
        BY <3>1, <4>1 DEF t
    <3>2. CASE IsName(t)
      <4>1. x <= p.count + 1 /\ q.count <= p.count + 1
        BY <1>3, <1>4, <1>6, <3>2
      <4>2. n # x
        BY <1>9, <2>3, <1>7, <3>2
      <4>3. n \in 1 .. p.count
        BY <1>3, <1>4, <1>6, <3>2, <4>1, <4>2
      <4>4. p.name[n] = Nameless
        BY <1>10, <2>3, <4>3
      <4>5. PICK j \in 1 .. k : ~IsName(sql[j])
        BY <1>2, <4>3, <4>4 DEF NamesKept
      <4>6. j \in 1 .. k + 1
        BY <1>1
      <4>. QED
        BY <4>5, <4>6
    <3>. QED
      BY <3>1, <3>2
  <2>4. ASSUME NEW m \in 1 .. q.count, NEW n \in 1 .. q.count,
               IsName(q.name[m]), q.name[m] = q.name[n]
        PROVE  m = n
    <3>1. q.name[m] # Nameless /\ q.name[n] # Nameless
      BY <1>7, <2>4
    <3>2. CASE m \in 1 .. p.count /\ p.name[m] = q.name[m] /\ n \in 1 .. p.count /\ p.name[n] = q.name[n]
      BY <1>2, <2>4, <3>2 DEF NamesKept
    <3>3. CASE m = x /\ n = x
      BY <3>3
    <3>4. CASE m = x /\ q.name[m] = t /\ n \in 1 .. p.count /\ p.name[n] = q.name[n]
      <4>1. x \in 1 .. p.count /\ p.name[x] = t
        BY <1>3, <2>4, <3>4
      <4>. QED
        BY <1>2, <2>4, <3>4, <4>1 DEF NamesKept
    <3>5. CASE n = x /\ q.name[n] = t /\ m \in 1 .. p.count /\ p.name[m] = q.name[m]
      <4>1. x \in 1 .. p.count /\ p.name[x] = t
        BY <1>3, <2>4, <3>5
      <4>. QED
        BY <1>2, <2>4, <3>5, <4>1 DEF NamesKept
    <3>. QED
      BY <1>11, <3>1, <3>2, <3>3, <3>4, <3>5
  <2>. QED
    BY <2>1, <2>2, <2>3, <2>4 DEF NamesKept
<1>13. NumbersGiven(q, sql, k + 1)
  <2>1. ASSUME NEW j \in 1 .. k + 1, IsNumber(sql[j])
        PROVE  q.number[j] = sql[j].of
    <3>1. CASE j = k + 1
      BY <1>3, <1>4, <2>1, <3>1 DEF t
    <3>2. CASE j \in 1 .. k
      BY <1>2, <1>4, <2>1, <3>2 DEF NumbersGiven
    <3>. QED
      BY <1>1, <3>1, <3>2
  <2>2. ASSUME NEW j \in 1 .. k + 1, ~IsNumber(sql[j]),
               IsName(sql[j]) => \A i \in 1 .. j - 1 : sql[i] # sql[j]
        PROVE  IsNext(q.number, j, q.number[j])
    <3>1. CASE j = k + 1
      <4>1. t = sql[j] /\ j - 1 = k
        BY <1>1, <3>1 DEF t
      <4>2. x = p.count + 1
        <5>1. CASE IsName(t)
          <6>1. \A n \in 1 .. p.count : p.name[n] # t
            <7>. SUFFICES ASSUME NEW n \in 1 .. p.count, p.name[n] = t PROVE FALSE
              OBVIOUS
            <7>1. PICK i \in 1 .. k : sql[i] = t
              BY <1>2, <1>7, <5>1 DEF NamesKept
            <7>. QED
              BY <2>2, <4>1, <5>1, <7>1
          <6>. QED
            BY <1>3, <5>1, <6>1
        <5>2. CASE ~IsName(t)
          BY <1>3, <1>7, <2>2, <4>1, <5>2
        <5>. QED
          BY <5>1, <5>2
      <4>3. \A i \in 1 .. k : q.number[i] = p.number[i] /\ p.number[i] < p.count + 1
        BY SMTT(30), <1>4, <1>6
      <4>4. p.count = 0 => x = 1
        BY <4>2
      <4>5. p.count # 0 => \E i \in 1 .. k : q.number[i] = x - 1
        <5>. SUFFICES ASSUME p.count # 0 PROVE \E i \in 1 .. k : q.number[i] = x - 1
          OBVIOUS
        <5>1. PICK i \in 1 .. k : p.number[i] = p.count
          BY <1>2 DEF NumbersGiven
        <5>. QED
          BY <1>6, <4>2, <4>3, <5>1
      <4>. QED
        BY <1>4, <3>1, <4>1, <4>2, <4>3, <4>4, <4>5 DEF IsNext
    <3>2. CASE j \in 1 .. k
      <4>1. IsNext(p.number, j, p.number[j])
        BY <1>2, <2>2, <3>2 DEF NumbersGiven
      <4>2. \A i \in 1 .. j : i \in 1 .. k /\ q.number[i] = p.number[i]
        BY <1>1, <1>4, <3>2
      <4>3. j \in 1 .. j /\ \A i \in 1 .. j - 1 : i \in 1 .. j
        BY <3>2
      <4>. QED
        BY <4>1, <4>2, <4>3 DEF IsNext
    <3>. QED
      BY <1>1, <3>1, <3>2
  <2>3. \E j \in 1 .. k + 1 : q.number[j] = q.count
    <3>1. CASE q.count = x
      <4>1. k + 1 \in 1 .. k + 1
        BY <1>1
      <4>. QED
        BY <1>4, <3>1, <4>1
    <3>2. CASE q.count # x
      <4>1. q.count = p.count /\ p.count # 0
        BY <1>3, <1>4, <1>6, <3>2
      <4>2. PICK j \in 1 .. k : p.number[j] = p.count
        BY <1>2, <4>1 DEF NumbersGiven
      <4>3. j \in 1 .. k + 1 /\ q.number[j] = p.number[j]
        BY <1>1, <1>4
      <4>. QED
        BY <4>1, <4>2, <4>3
    <3>. QED
      BY <3>1, <3>2
  <2>. QED
    BY <2>1, <2>2, <2>3 DEF NumbersGiven
<1>. QED
  BY <1>8, <1>12, <1>13 DEF Numbering, q, t

\* So it is with all of a text.
LEMMA ParamsNumbering ==
  ASSUME NEW sql \in Seq(Token)
  PROVE  Numbering(Params(sql), sql, Len(sql))
<1>1. Len(sql) \in Nat
  BY LenProperties
<1>2. PICK f : ReadsPrefixes(f, sql) /\ Params(sql) = f[Len(sql)]
  BY ParamsUnfolds
<1> DEFINE T == {k \in 0 .. Len(sql) : ~Numbering(f[k], sql, k)}
<1>3. T = {}
  <2>. SUFFICES ASSUME T # {} PROVE FALSE
    OBVIOUS
  <2>1. T \in SUBSET Nat
    BY <1>1
  <2> HIDE DEF T
  <2>2. PICK k \in T : \A m \in T : k <= m
    BY <2>1, LeastNumber
  <2> USE DEF T
  <2>3. CASE k = 0
    BY <1>2, <2>2, <2>3, NothingRead DEF ReadsPrefixes
  <2>4. CASE k # 0
    <3>1. k - 1 \in 0 .. Len(sql) - 1 /\ k - 1 \in 0 .. Len(sql) /\ ~(k <= k - 1) /\ k \in 1 .. Len(sql)
      BY <1>1, <2>2, <2>4
    <3>2. Numbering(f[k - 1], sql, k - 1)
      BY <2>2, <3>1
    <3>3. Numbering(AssignVarNumber(f[k - 1], sql[(k - 1) + 1]), sql, (k - 1) + 1)
      BY <3>1, <3>2, NextToken
    <3>4. f[k] = AssignVarNumber(f[k - 1], sql[k])
      BY <1>2, <3>1 DEF ReadsPrefixes
    <3>5. (k - 1) + 1 = k
      BY <3>1
    <3>6. Numbering(f[k], sql, k)
      BY <3>3, <3>4, <3>5
    <3>. QED
      BY <2>2, <3>6
  <2>. QED
    BY <2>3, <2>4
<1>4. Len(sql) \in 0 .. Len(sql)
  BY <1>1
<1>. QED
  BY <1>2, <1>3, <1>4


-----------------------------------------------------------------------------
(* The documented numbers are the ones the parser gives *)

Before(sql, i) == {j \in 1 .. i - 1 : IsName(sql[i]) /\ sql[j] = sql[i]}

Largest(number, i) ==
    CHOOSE n \in {0} \cup {number[j] : j \in 1 .. i - 1} : \A j \in 1 .. i - 1 : number[j] <= n

NumberBy(number, sql, i) ==
    IF IsNumber(sql[i]) THEN sql[i].of
    ELSE IF Before(sql, i) # {} THEN number[CHOOSE j \in Before(sql, i) : TRUE]
    ELSE 1 + Largest(number, i)

IsDocumented(number, sql) == number = [i \in DOMAIN sql |-> NumberBy(number, sql, i)]

\* The number before the next one is the largest.
LEMMA NextIsAfterLargest ==
  ASSUME NEW i \in Nat \ {0}, NEW number, \A j \in 1 .. i - 1 : number[j] \in Nat /\ number[j] >= 1,
         NEW n \in Nat, n >= 1, IsNext(number, i, n)
  PROVE  n = 1 + Largest(number, i)
<1> DEFINE S == {0} \cup {number[j] : j \in 1 .. i - 1}
           IsLargest(l) == \A j \in 1 .. i - 1 : number[j] <= l
<1>1. n - 1 \in S /\ IsLargest(n - 1)
  BY DEF IsNext
<1>2. \A l \in S : IsLargest(l) => l = n - 1
  <2>. SUFFICES ASSUME NEW l \in S, IsLargest(l) PROVE l = n - 1
    OBVIOUS
  <2>1. CASE n = 1
    <3>1. \A j \in 1 .. i - 1 : FALSE
      BY <2>1 DEF IsNext
    <3>. QED
      BY <2>1, <3>1
  <2>2. CASE n # 1
    <3>1. PICK j \in 1 .. i - 1 : number[j] = n - 1
      BY <2>2 DEF IsNext
    <3>2. n - 1 <= l
      BY <3>1
    <3>3. PICK m \in 1 .. i - 1 : l = number[m]
      <4>1. l # 0
        BY <2>2, <3>2
      <4>. QED
        BY <4>1
    <3>4. l < n /\ l \in Nat
      BY <3>3 DEF IsNext
    <3>. QED
      BY <3>2, <3>4
  <2>. QED
    BY <2>1, <2>2
<1>3. Largest(number, i) = CHOOSE l \in S : IsLargest(l)
  BY DEF Largest
<1> HIDE DEF S, IsLargest
<1>4. (CHOOSE l \in S : IsLargest(l)) = n - 1
  BY <1>1, <1>2
<1>5. Largest(number, i) = n - 1
  BY <1>3, <1>4
<1>. QED
  BY <1>5

\* The parser's numbers are as documented.
LEMMA NumbersAreDocumented ==
  ASSUME NEW sql \in Seq(Token), NEW p, Numbering(p, sql, Len(sql)), NEW i \in 1 .. Len(sql)
  PROVE  p.number[i] = NumberBy(p.number, sql, i)
<1>1. /\ Typed(p, Len(sql)) /\ NamesKept(p, sql, Len(sql)) /\ NumbersGiven(p, sql, Len(sql))
      /\ sql[i] \in Token
  BY ElementOfSeq DEF Numbering
<1>2. CASE IsNumber(sql[i])
  BY <1>1, <1>2 DEF NumbersGiven, NumberBy
<1>3. CASE ~IsNumber(sql[i]) /\ Before(sql, i) # {}
  <2> DEFINE j == CHOOSE j \in Before(sql, i) : TRUE
  <2>1. j \in Before(sql, i)
    BY <1>3
  <2>2. j \in 1 .. Len(sql) /\ IsName(sql[j]) /\ sql[j] = sql[i]
    BY <2>1 DEF Before
  <2>3. p.name[p.number[j]] = sql[j] /\ p.name[p.number[i]] = sql[i]
    BY <1>1, <2>2 DEF NamesKept
  <2>4. p.number[j] \in 1 .. p.count /\ p.number[i] \in 1 .. p.count
    BY <1>1, <2>2 DEF Typed
  <2>5. p.number[j] = p.number[i]
    BY <1>1, <2>2, <2>3, <2>4 DEF NamesKept
  <2>. QED
    BY <1>3, <2>5 DEF NumberBy
<1>4. CASE ~IsNumber(sql[i]) /\ Before(sql, i) = {}
  <2>1. IsName(sql[i]) => \A j \in 1 .. i - 1 : sql[j] # sql[i]
    BY <1>4 DEF Before
  <2>2. IsNext(p.number, i, p.number[i])
    BY <1>1, <1>4, <2>1 DEF NumbersGiven
  <2>3. \A j \in 1 .. Len(sql) : p.number[j] \in Nat /\ p.number[j] >= 1
    BY <1>1 DEF Typed
  <2>4. i \in Nat \ {0} /\ \A j \in 1 .. i - 1 : p.number[j] \in Nat /\ p.number[j] >= 1
    BY <2>3, LenProperties
  <2>5. p.number[i] = 1 + Largest(p.number, i)
    BY <2>2, <2>3, <2>4, NextIsAfterLargest
  <2>. QED
    BY <1>4, <2>5 DEF NumberBy
<1>. QED
  BY <1>2, <1>3, <1>4

\* Numbers that agree before i agree at i.
LEMMA NumberByBefore ==
  ASSUME NEW sql \in Seq(Token), NEW i \in 1 .. Len(sql), NEW d, NEW e,
         \A j \in 1 .. i - 1 : d[j] = e[j]
  PROVE  NumberBy(d, sql, i) = NumberBy(e, sql, i)
<1>1. Before(sql, i) # {} =>
         d[CHOOSE j \in Before(sql, i) : TRUE] = e[CHOOSE j \in Before(sql, i) : TRUE]
  <2>. SUFFICES ASSUME Before(sql, i) # {}
                PROVE  (CHOOSE j \in Before(sql, i) : TRUE) \in 1 .. i - 1
    OBVIOUS
  <2>1. (CHOOSE j \in Before(sql, i) : TRUE) \in Before(sql, i)
    OBVIOUS
  <2>. QED
    BY <2>1 DEF Before
<1>2. Largest(d, i) = Largest(e, i)
  <2>1. {d[j] : j \in 1 .. i - 1} = {e[j] : j \in 1 .. i - 1}
    OBVIOUS
  <2>2. \A n : (\A j \in 1 .. i - 1 : d[j] <= n) <=> (\A j \in 1 .. i - 1 : e[j] <= n)
    OBVIOUS
  <2>. QED
    BY <2>1, <2>2, Zenon DEF Largest
<1>. QED
  BY <1>1, <1>2 DEF NumberBy

\* DocumentedNumber and sqlite3_prepare_v2 number the tokens alike.
LEMMA DocumentedIsGiven ==
  ASSUME NEW sql \in Seq(Token), NEW i \in 1 .. Len(sql)
  PROVE  DocumentedNumber(sql)[i] = Params(sql).number[i]
<1>1. Len(sql) \in Nat /\ DOMAIN sql = 1 .. Len(sql)
  BY LenProperties
<1> DEFINE p == Params(sql)
<1>2. \A j \in 1 .. Len(sql) : p.number[j] = NumberBy(p.number, sql, j)
  BY ParamsNumbering, NumbersAreDocumented
<1> HIDE DEF p
<1> DEFINE given == [j \in DOMAIN sql |-> p.number[j]]
<1>3. IsDocumented(given, sql)
  <2>1. \A j \in 1 .. Len(sql) : NumberBy(given, sql, j) = NumberBy(p.number, sql, j)
    <3>. SUFFICES ASSUME NEW j \in 1 .. Len(sql)
                  PROVE  NumberBy(given, sql, j) = NumberBy(p.number, sql, j)
      OBVIOUS
    <3>1. \A m \in 1 .. j - 1 : given[m] = p.number[m]
      BY <1>1
    <3> HIDE DEF given
    <3>. QED
      BY <3>1, NumberByBefore
  <2>. QED
    BY <1>1, <1>2, <2>1 DEF IsDocumented
<1>4. DocumentedNumber(sql) = CHOOSE d : IsDocumented(d, sql)
  BY DEF DocumentedNumber, IsDocumented, NumberBy, Before, Largest
<1>5. PICK d : IsDocumented(d, sql) /\ DocumentedNumber(sql) = d
  <2> HIDE DEF given
  <2>. QED
    BY <1>3, <1>4, Zenon
<1> DEFINE T == {j \in 1 .. Len(sql) : d[j] # p.number[j]}
<1>6. T = {}
  <2>. SUFFICES ASSUME T # {} PROVE FALSE
    OBVIOUS
  <2>1. T \in SUBSET Nat
    BY <1>1
  <2> HIDE DEF T
  <2>2. PICK k \in T : \A m \in T : k <= m
    BY <2>1, LeastNumber
  <2> USE DEF T
  <2>3. k \in 1 .. Len(sql) /\ \A m \in 1 .. k - 1 : d[m] = p.number[m]
    BY <1>1, <2>2
  <2>4. NumberBy(d, sql, k) = NumberBy(p.number, sql, k)
    BY <2>3, NumberByBefore
  <2>5. d[k] = NumberBy(d, sql, k)
    BY <1>1, <1>5, <2>3 DEF IsDocumented
  <2>. QED
    BY <1>2, <2>2, <2>4, <2>5
<1>. QED
  BY <1>5, <1>6 DEF p


-----------------------------------------------------------------------------
(* Values, as they are passed, as they are remembered and as they are bound *)

Collection == {"tuple", "list", "dict"}

\* No number is a name in a dict, and indices are counted from 1.
IsShaped(v) ==
    /\ v.type = "dict" => DOMAIN v.of \cap Nat = {}
    /\ v.type \in {"tuple", "list"} => Len(v.of) \in Nat /\ DOMAIN v.of = 1 .. Len(v.of)

\* call.values has the items of the argument, each with its present content.
LEMMA CopyFacts ==
  ASSUME NEW values \in Arguments, NEW cv, cv = CopyAll(values)
  PROVE  /\ cv.type = values.type
         /\ values.type \in Collection =>
               /\ DOMAIN cv.of = DOMAIN values.of
               /\ \A i \in DOMAIN values.of : cv.of[i] = Copy(values.of[i])
         /\ values.type \notin Collection => cv = Copy(values)
         /\ IsShaped(cv)
<1>1. CASE values.type \in Collection
  <2>1. cv = [values EXCEPT !.of = [i \in DOMAIN values.of |-> Copy(values.of[i])]]
    BY <1>1 DEF CopyAll, Collection
  <2>2. values = [type |-> values.type, of |-> values.of]
    BY <1>1, ArgumentsAreValues DEF Collection
  <2> DEFINE items == [i \in DOMAIN values.of |-> Copy(values.of[i])]
  <2>3. cv.type = values.type /\ cv.of = items
    BY <2>1, <2>2
  <2>4. DOMAIN items = DOMAIN values.of /\ \A i \in DOMAIN values.of : items[i] = Copy(values.of[i])
    OBVIOUS
  <2>5. ASSUME values.type \in {"tuple", "list"}
        PROVE  Len(items) \in Nat /\ DOMAIN items = 1 .. Len(items)
    <3>1. Len(values.of) \in Nat /\ DOMAIN values.of = 1 .. Len(values.of)
      BY <2>5, ArgumentsAreValues
    <3>2. PICK n \in Nat : DOMAIN values.of = 1 .. n
      BY <3>1
    <3>3. items = [i \in 1 .. n |-> Copy(values.of[i])]
      BY <3>2
    <3>4. Len(items) = n
      BY <3>3
    <3>. QED
      BY <2>4, <3>2, <3>4
  <2>6. values.type = "dict" => DOMAIN items \cap Nat = {}
    BY <2>4, ArgumentsAreValues, KeysAreNames
  <2> HIDE DEF items
  <2>. QED
    BY <1>1, <2>3, <2>4, <2>5, <2>6 DEF IsShaped, Collection
<1>2. CASE values.type \notin Collection
  BY <1>2 DEF CopyAll, Collection, Copy, IsShaped
<1>. QED
  BY <1>1, <1>2

LEMMA CopyIsAsSupported ==
  ASSUME NEW v
  PROVE  Unsupported(Copy(v)) <=> Unsupported(v)
BY DEF Copy, Unsupported

\* The copy has, for each parameter, the copy of what the argument has.
LEMMA CopyCommutes ==
  ASSUME NEW values \in Arguments, NEW cv, cv = CopyAll(values), NEW p, NEW n
  PROVE  /\ ~Unsupported(ValueFor(p, values, n)) <=> ~Unsupported(ValueFor(p, cv, n))
         /\ ~Unsupported(ValueFor(p, values, n)) =>
               ValueFor(p, cv, n) = Copy(ValueFor(p, values, n))
<1>0. Copy(Missing) = Missing /\ Copy(Skipped) = Skipped
  BY DEF Copy, Missing, Skipped, NoneValue
<1>1. /\ cv.type = values.type
      /\ values.type \in Collection =>
               /\ DOMAIN cv.of = DOMAIN values.of
               /\ \A i \in DOMAIN values.of : cv.of[i] = Copy(values.of[i])
      /\ values.type \notin Collection => cv = Copy(values)
  BY CopyFacts
<1>2. ASSUME values.type = "dict"
      PROVE  FromDict(p, cv, n) = Copy(FromDict(p, values, n))
  BY <1>0, <1>1, <1>2 DEF FromDict, Collection
<1>3. ASSUME values.type \in {"tuple", "list"}
      PROVE  FromItems(p, cv, n) = Copy(FromItems(p, values, n))
  BY <1>0, <1>1, <1>3 DEF FromItems, Collection
<1>4. CASE values.type = "dict"
  <2>1. Unsupported(values) /\ Unsupported(cv)
    BY <1>1, <1>4 DEF Unsupported
  <2>2. p.name[1] # NoName /\ IsName(p.name[1]) => ValueFor(p, cv, n) = Copy(ValueFor(p, values, n))
    BY <1>1, <1>2, <1>4 DEF ValueFor
  <2>3. ~ (p.name[1] # NoName /\ IsName(p.name[1])) =>
           Unsupported(ValueFor(p, cv, n)) /\ Unsupported(ValueFor(p, values, n))
    BY <1>1, <1>4, <2>1 DEF ValueFor, Unsupported, Missing
  <2>. QED
    BY <2>2, <2>3, CopyIsAsSupported
<1>5. CASE values.type # "dict"
  <2>1. ValueFor(p, cv, n) = Copy(ValueFor(p, values, n))
    BY <1>0, <1>1, <1>3, <1>5 DEF ValueFor, Collection
  <2>. QED
    BY <2>1, CopyIsAsSupported
<1>. QED
  BY <1>4, <1>5

\* What is found for a parameter is an item, or one of the values of execute.
LEMMA FoundIsItem ==
  ASSUME NEW values \in Arguments, NEW p, NEW n
  PROVE  IsItem(ValueFor(p, values, n))
<1>1. /\ IsItem(values)
      /\ values.type \in Collection => \A i \in DOMAIN values.of : IsItem(values.of[i])
  BY ArgumentsAreValues DEF Collection
<1>2. IsItem(Missing) /\ IsItem(Skipped)
  BY DEF IsItem, Missing, Skipped, NoneValue
<1>. QED
  BY <1>1, <1>2 DEF ValueFor, FromDict, FromItems, Collection

LEMMA Remainder ==
  ASSUME NEW n \in Int, NEW l \in Nat, l > 0
  PROVE  /\ (n + l) % (2 * l) \in 0 .. (2 * l) - 1
         /\ (((n + l) % (2 * l)) - l - n) % (2 * l) = 0
<1>1. 2 * l \in Nat /\ 2 * l > 0 /\ n + l \in Int
  OBVIOUS
<1>2. (n + l) % (2 * l) \in 0 .. (2 * l) - 1
  BY <1>1
<1>3. (((n + l) % (2 * l)) - l - n) % (2 * l) = 0
  OBVIOUS
<1>. QED
  BY <1>2, <1>3

\* A C int is the number it is made from, up to a multiple of 2 * IntLimit.
LEMMA Int32Facts ==
  ASSUME NEW n \in Int
  PROVE  /\ Int32(n) \in -IntLimit .. IntLimit - 1
         /\ (Int32(n) - n) % (2 * IntLimit) = 0
<1>1. IntLimit \in Nat /\ IntLimit > 0
  BY LimitsAreOrdered
<1>2. PICK r : r = (n + IntLimit) % (2 * IntLimit)
  OBVIOUS
<1>3. r \in 0 .. (2 * IntLimit) - 1 /\ (r - IntLimit - n) % (2 * IntLimit) = 0
  BY <1>1, <1>2, Remainder
<1>4. Int32(n) = r - IntLimit
  BY <1>2 DEF Int32
<1>. QED
  BY <1>1, <1>3, <1>4

\* A column shows the value that was just bound.
LEMMA BoundShows ==
  ASSUME NEW v, IsItem(v), ~Unsupported(v)
  PROVE  /\ Shows(ColumnValue(Bound(v)), Copy(v))
         /\ Bound(v).type \in {"None", "int", "str", "float", "bytes", "pointer"}
         /\ Bound(v).type = "pointer" => Bound(v).to \in Array
<1>1. CASE v.type = "int"
  <2>1. v.of \in Int
    BY <1>1 DEF IsItem
  <2>2. Bound(v) = [type |-> "int", of |-> Int32(v.of)]
    BY <1>1 DEF Bound
  <2>3. ColumnValue(Bound(v)) = [type |-> "int", of |-> Int32(v.of)] /\ Copy(v) = v
    BY <1>1, <2>2 DEF ColumnValue, Copy
  <2>. QED
    BY <1>1, <2>1, <2>2, <2>3, Int32Facts DEF Shows
<1>2. CASE v.type = "bytearray"
  BY <1>2 DEF Bound, ColumnValue, Copy, Shows, IsItem
<1>3. CASE v.type \in {"None", "str", "float", "bytes"}
  BY <1>3 DEF Bound, ColumnValue, Copy, Shows
<1>. QED
  BY <1>1, <1>2, <1>3 DEF Unsupported


-----------------------------------------------------------------------------
(* bindParameters finds what belongs to a parameter *)

LEMMA SqlFacts ==
  ASSUME NEW sql \in Sqls
  PROVE  /\ sql \in Seq(Token) /\ sql # << >>
         /\ Len(sql) \in Nat /\ Len(sql) >= 1 /\ DOMAIN sql = 1 .. Len(sql)
         /\ \A i \in 1 .. Len(sql) : sql[i] \in Token
<1>1. sql \in Seq(Token) /\ sql # << >>
  BY SqlsAreTexts
<1>2. Len(sql) \in Nat /\ DOMAIN sql = 1 .. Len(sql) /\ Len(sql) # 0
  BY <1>1, LenProperties, EmptySeq
<1>. QED
  BY <1>1, <1>2, ElementOfSeq

\* There is a parameter with number 1, and it has the name of a token.
LEMMA FirstParameter ==
  ASSUME NEW sql \in Sqls, NEW p, Numbering(p, sql, Len(sql))
  PROVE  /\ p.count \in Nat /\ p.count >= 1
         /\ \A n \in 1 .. p.count : p.name[n] \in Token
         /\ \A j \in 1 .. Len(sql) : p.number[j] \in 1 .. p.count
<1>1. Typed(p, Len(sql))
  BY DEF Numbering
<1>2. p.number[1] \in 1 .. p.count
  BY <1>1, SqlFacts DEF Typed
<1>. QED
  BY <1>1, <1>2 DEF Typed

\* With a dict, the value is under the one name the number has.
LEMMA NamedPlace ==
  ASSUME NEW c, c.sql \in Sqls, IsShaped(c.values), NEW i \in 1 .. Len(c.sql),
         NEW p, p = Params(c.sql), NEW n, n = p.number[i],
         c.values.type = "dict", FromDict(p, c.values, n) # Missing
  PROVE  /\ p.name[n].of \in DOMAIN c.values.of
         /\ Place(c, i) = p.name[n].of
         /\ FromDict(p, c.values, n) = c.values.of[p.name[n].of]
<1>1. PICK sql \in Sqls : sql = c.sql
  OBVIOUS
<1>2. Numbering(p, sql, Len(sql))
  BY <1>1, SqlFacts, ParamsNumbering
<1>3. n \in 1 .. p.count /\ p.name[n] \in Token
  BY <1>1, <1>2, FirstParameter
<1>4. /\ p.name[n] # Nameless /\ p.name[n].of \in DOMAIN c.values.of
      /\ FromDict(p, c.values, n) = c.values.of[p.name[n].of]
  BY NamelessIsToken DEF FromDict
<1>5. IsName(p.name[n])
  BY <1>3, <1>4, TokenKinds DEF IsShaped
<1>6. PICK j \in 1 .. Len(sql) : sql[j] = p.name[n] /\ p.number[j] = n
  BY <1>2, <1>3, <1>4 DEF Numbering, NamesKept
<1>7. PICK number : number = DocumentedNumber(sql)
  OBVIOUS
<1>8. \A k \in 1 .. Len(sql) : number[k] = p.number[k]
  BY <1>1, <1>7, SqlFacts, DocumentedIsGiven
<1> DEFINE Ks == {k \in DOMAIN sql : IsName(sql[k]) /\ number[k] = number[i]}
           names == {sql[k].of : k \in Ks}
<1>9. j \in Ks
  BY <1>1, <1>5, <1>6, <1>8, SqlFacts
<1>10. \A k \in Ks : sql[k].of = p.name[n].of
  <2>. SUFFICES ASSUME NEW k \in Ks PROVE sql[k].of = p.name[n].of
    OBVIOUS
  <2>1. k \in 1 .. Len(sql) /\ IsName(sql[k]) /\ p.number[k] = n
    BY <1>1, <1>8, SqlFacts
  <2>2. p.name[n] = sql[k]
    BY <1>2, <2>1 DEF Numbering, NamesKept
  <2>. QED
    BY <2>2
<1> HIDE DEF Ks
<1>11. names = {p.name[n].of}
  BY <1>6, <1>9, <1>10
<1>12. Place(c, i) = IF names = {} THEN 0 ELSE CHOOSE name \in names : TRUE
  BY <1>1, <1>7 DEF Place, Ks
<1>13. (CHOOSE name \in names : TRUE) = p.name[n].of
  BY <1>11
<1>. QED
  BY <1>4, <1>11, <1>12, <1>13

\* The value a parameter is bound to is the one in its place.
LEMMA PlaceHasIt ==
  ASSUME NEW c, c.sql \in Sqls, IsShaped(c.values), NEW i \in 1 .. Len(c.sql),
         NEW p, p = Params(c.sql), NEW n, n = p.number[i],
         ~Unsupported(ValueFor(p, c.values, n))
  PROVE  \/ LeftOut(c.sql, i)
         \/ IsGiven(c, i) /\ Given(c, i) = ValueFor(p, c.values, n)
<1>1. PICK sql \in Sqls : sql = c.sql
  OBVIOUS
<1>2. Numbering(p, sql, Len(sql))
  BY <1>1, SqlFacts, ParamsNumbering
<1>3. n \in 1 .. p.count /\ 1 \in 1 .. p.count /\ p.name[n] \in Token /\ p.name[1] \in Token
  BY <1>1, <1>2, FirstParameter
<1>4. Unsupported(Missing)
  BY DEF Unsupported, Missing
<1>5. CASE p.name[1] # NoName /\ IsName(p.name[1])
  <2>1. c.values.type = "dict" /\ ValueFor(p, c.values, n) = FromDict(p, c.values, n)
    BY <1>4, <1>5 DEF ValueFor
  <2>2. FromDict(p, c.values, n) # Missing
    BY <1>4, <2>1
  <2>3. /\ Place(c, i) \in DOMAIN c.values.of
        /\ c.values.of[Place(c, i)] = ValueFor(p, c.values, n)
    BY <2>1, <2>2, NamedPlace
  <2>. QED
    BY <2>1, <2>3 DEF IsGiven, Given
<1>6. CASE ~ (p.name[1] # NoName /\ IsName(p.name[1])) /\ c.values.type \in {"tuple", "list"}
  <2>1. ValueFor(p, c.values, n) = FromItems(p, c.values, n)
    BY <1>6 DEF ValueFor
  <2>2. Place(c, i) = n
    <3>1. DocumentedNumber(sql)[i] = n
      BY <1>1, SqlFacts, DocumentedIsGiven
    <3>. QED
      BY <1>1, <1>6, <3>1 DEF Place
  <2>3. CASE p.name[1] # NoName /\ p.name[n] = NoName
    <3>1. sql[i] = Nameless
      BY <1>1, <1>2, <2>3, NamelessIsToken DEF Numbering, NamesKept
    <3>2. PICK j \in 1 .. Len(sql) : sql[j] = p.name[1] /\ p.number[j] = 1
      BY <1>2, <1>3, <2>3, NamelessIsToken DEF Numbering, NamesKept
    <3>3. IsNumber(sql[j]) /\ sql[j] \in Token
      BY <1>3, <1>6, <2>3, <3>2, TokenKinds, NamelessIsToken
    <3>4. sql[j].of = 1
      BY <1>2, <3>2, <3>3 DEF Numbering, NumbersGiven
    <3>5. sql[j] = Numbered(1)
      BY <3>3, <3>4, TokenKinds
    <3>6. Numbered(1) \in Range(sql)
      BY <3>2, <3>5, SqlFacts DEF Range
    <3>. QED
      BY <1>1, <3>1, <3>6 DEF LeftOut
  <2>4. CASE ~ (p.name[1] # NoName /\ p.name[n] = NoName)
    <3>1. IndexOf(p, n) \in DOMAIN c.values.of /\ FromItems(p, c.values, n) = c.values.of[IndexOf(p, n)]
      BY <1>4, <2>1, <2>4 DEF FromItems
    <3>2. IndexOf(p, n) = n
      <4>1. CASE p.name[1] = NoName
        BY <4>1 DEF IndexOf
      <4>2. CASE p.name[1] # NoName
        <5>1. PICK j \in 1 .. Len(sql) : sql[j] = p.name[n] /\ p.number[j] = n
          BY <1>2, <1>3, <2>4, <4>2, NamelessIsToken DEF Numbering, NamesKept
        <5>2. IsNumber(p.name[n])
          <6>1. 0 \notin DOMAIN c.values.of
            <7>1. DOMAIN c.values.of = 1 .. Len(c.values.of)
              BY <1>6 DEF IsShaped
            <7>. QED
              BY <7>1
          <6>2. ~ IsNumber(p.name[n]) => IndexOf(p, n) = 0
            BY <4>2 DEF IndexOf
          <6>. QED
            BY <3>1, <6>1, <6>2
        <5>3. p.name[n].of = n
          BY <1>2, <5>1, <5>2 DEF Numbering, NumbersGiven
        <5>. QED
          BY <4>2, <5>2, <5>3 DEF IndexOf
      <4>. QED
        BY <4>1, <4>2
    <3>. QED
      BY <1>6, <2>1, <2>2, <3>1, <3>2 DEF IsGiven, Given
  <2>. QED
    BY <2>3, <2>4
<1>7. CASE ~ (p.name[1] # NoName /\ IsName(p.name[1])) /\ c.values.type \notin {"tuple", "list"}
  <2>1. ValueFor(p, c.values, n) = c.values
    BY <1>4, <1>7 DEF ValueFor
  <2>2. c.values.type # "dict"
    BY <2>1 DEF Unsupported
  <2>. QED
    BY <1>7, <2>1, <2>2 DEF IsGiven, Given
<1>. QED
  BY <1>5, <1>6, <1>7


-----------------------------------------------------------------------------
(* A call as documented is not refused *)

LEMMA ItemsSuffice ==
  ASSUME NEW c, c.sql \in Sqls, NEW p, p = Params(c.sql),
         \A i \in DOMAIN c.sql : ~IsName(c.sql[i]),
         c.values.type \in {"tuple", "list"}, IsShaped(c.values),
         \A i \in DOMAIN c.sql : DocumentedNumber(c.sql)[i] <= Len(c.values.of),
         \A i \in DOMAIN c.values.of : ~Unsupported(c.values.of[i]),
         NEW n \in 1 .. p.count
  PROVE  ~Unsupported(ValueFor(p, c.values, n))
<1>1. PICK sql \in Sqls : sql = c.sql
  OBVIOUS
<1>2. Numbering(p, sql, Len(sql))
  BY <1>1, SqlFacts, ParamsNumbering
<1>3. p.count \in Nat /\ p.count >= 1 /\ 1 \in 1 .. p.count /\ p.name[n] \in Token /\ p.name[1] \in Token
  BY <1>2, FirstParameter
<1>4. \A m \in 1 .. p.count : p.name[m] # Nameless => ~IsName(p.name[m])
  BY <1>1, <1>2, SqlFacts DEF Numbering, NamesKept
<1>5. ValueFor(p, c.values, n) = FromItems(p, c.values, n)
  BY <1>3, <1>4, NamelessIsToken DEF ValueFor
<1>6. ~Unsupported(Skipped)
  BY DEF Unsupported, Skipped, NoneValue
<1>7. n \in DOMAIN c.values.of
  <2>1. PICK j \in 1 .. Len(sql) : p.number[j] = p.count
    BY <1>2, <1>3 DEF Numbering, NumbersGiven
  <2>2. DocumentedNumber(sql)[j] = p.count
    BY <1>1, <2>1, SqlFacts, DocumentedIsGiven
  <2>3. p.count <= Len(c.values.of)
    BY <1>1, <2>2, SqlFacts
  <2>. QED
    BY <1>3, <2>3 DEF IsShaped
<1>8. CASE p.name[1] # NoName /\ p.name[n] = NoName
  BY <1>5, <1>6, <1>8 DEF FromItems
<1>9. CASE ~ (p.name[1] # NoName /\ p.name[n] = NoName)
  <2>1. IndexOf(p, n) = n
    <3>1. CASE p.name[1] = NoName
      BY <3>1 DEF IndexOf
    <3>2. CASE p.name[1] # NoName
      <4>1. p.name[n] # Nameless
        BY <1>9, <3>2, NamelessIsToken
      <4>2. PICK j \in 1 .. Len(sql) : sql[j] = p.name[n] /\ p.number[j] = n
        BY <1>2, <4>1 DEF Numbering, NamesKept
      <4>3. IsNumber(p.name[n])
        BY <1>3, <1>4, <4>1, TokenKinds
      <4>4. p.name[n].of = n
        BY <1>2, <4>2, <4>3 DEF Numbering, NumbersGiven
      <4>. QED
        BY <3>2, <4>3, <4>4 DEF IndexOf
    <3>. QED
      BY <3>1, <3>2
  <2>. QED
    BY <1>5, <1>7, <1>9, <2>1 DEF FromItems
<1>. QED
  BY <1>8, <1>9

LEMMA NamesSuffice ==
  ASSUME NEW c, c.sql \in Sqls, NEW p, p = Params(c.sql),
         \A i \in DOMAIN c.sql : IsName(c.sql[i]),
         c.values.type = "dict",
         \A i \in DOMAIN c.sql : c.sql[i].of \in DOMAIN c.values.of,
         \A i \in DOMAIN c.values.of : ~Unsupported(c.values.of[i]),
         NEW n \in 1 .. p.count
  PROVE  ~Unsupported(ValueFor(p, c.values, n))
<1>1. PICK sql \in Sqls : sql = c.sql
  OBVIOUS
<1>2. Numbering(p, sql, Len(sql))
  BY <1>1, SqlFacts, ParamsNumbering
<1>3. p.count \in Nat /\ 1 \in 1 .. p.count
  BY <1>2, FirstParameter
<1>4. \A m \in 1 .. p.count :
         /\ p.name[m] # Nameless
         /\ \E j \in 1 .. Len(sql) : sql[j] = p.name[m]
  BY <1>1, <1>2, SqlFacts DEF Numbering, NamesKept
<1>5. p.name[1] # NoName /\ IsName(p.name[1])
  BY <1>1, <1>3, <1>4, SqlFacts, NamelessIsToken
<1>6. p.name[n] # NoName /\ p.name[n].of \in DOMAIN c.values.of
  BY <1>1, <1>4, SqlFacts, NamelessIsToken
<1>7. ValueFor(p, c.values, n) = c.values.of[p.name[n].of]
  BY <1>5, <1>6 DEF ValueFor, FromDict
<1>. QED
  BY <1>6, <1>7

LEMMA OneValueSuffices ==
  ASSUME NEW c, c.sql \in Sqls, NEW p, p = Params(c.sql),
         c.sql = <<Nameless>>, ~Unsupported(c.values),
         NEW n \in 1 .. p.count
  PROVE  ~Unsupported(ValueFor(p, c.values, n))
<1>1. PICK sql \in Sqls : sql = c.sql
  OBVIOUS
<1>2. Numbering(p, sql, Len(sql))
  BY <1>1, SqlFacts, ParamsNumbering
<1>3. Len(sql) = 1 /\ sql[1] = Nameless
  BY <1>1
<1>4. p.count = 1
  <2>1. IsNext(p.number, 1, p.number[1]) /\ (p.count # 0 => p.number[1] = p.count)
    BY <1>2, <1>3, NamelessIsToken DEF Numbering, NumbersGiven
  <2>2. p.count # 0
    BY <1>2, FirstParameter
  <2>. QED
    BY <2>1, <2>2 DEF IsNext
<1>5. p.name[1] = NoName
  <2>1. p.name[1] # Nameless => \E j \in 1 .. Len(sql) : sql[j] = p.name[1]
    BY <1>2, <1>4 DEF Numbering, NamesKept
  <2>. QED
    BY <1>3, <2>1, NamelessIsToken
<1>6. SingleValue(p) /\ c.values.type \notin {"tuple", "list"}
  BY <1>4, <1>5 DEF SingleValue, Unsupported
<1>7. ValueFor(p, c.values, n) = c.values
  BY <1>5, <1>6 DEF ValueFor
<1>. QED
  BY <1>7

LEMMA WellCalledBinds ==
  ASSUME NEW c, c.sql \in Sqls, IsShaped(c.values), WellCalled(c)
  PROVE  Binds(Params(c.sql), c.values)
<1>1. PICK p : p = Params(c.sql)
  OBVIOUS
<1>2. SUFFICES ASSUME NEW n \in 1 .. p.count PROVE ~Unsupported(ValueFor(p, c.values, n))
  BY <1>1 DEF Binds
<1>3. CASE /\ \A i \in DOMAIN c.sql : ~IsName(c.sql[i])
           /\ c.values.type \in {"tuple", "list"}
           /\ \A i \in DOMAIN c.sql : DocumentedNumber(c.sql)[i] <= Len(c.values.of)
           /\ \A i \in DOMAIN c.values.of : ~Unsupported(c.values.of[i])
  BY <1>1, <1>3, ItemsSuffice
<1>4. CASE /\ \A i \in DOMAIN c.sql : IsName(c.sql[i])
           /\ c.values.type = "dict"
           /\ \A i \in DOMAIN c.sql : c.sql[i].of \in DOMAIN c.values.of
           /\ \A i \in DOMAIN c.values.of : ~Unsupported(c.values.of[i])
  BY <1>1, <1>4, NamesSuffice
<1>5. CASE c.sql = <<Nameless>> /\ ~Unsupported(c.values)
  BY <1>1, <1>5, OneValueSuffices
<1>. QED
  BY <1>3, <1>4, <1>5 DEF WellCalled


-----------------------------------------------------------------------------
(* The inductive invariant *)

CallOK ==
    /\ call = [sql |-> call.sql, values |-> call.values, raised |-> call.raised,
               touched |-> call.touched]
    /\ call.raised \in BOOLEAN /\ call.touched \in BOOLEAN

\* Every column of the statement, looked at now, shows its value of execute.
BoundAsGiven ==
    rc # "OK" =>
        /\ stmt.sql \in Sqls /\ call.sql = stmt.sql /\ IsShaped(call.values)
        /\ DOMAIN stmt.bound = 1 .. Params(stmt.sql).count
        /\ \A n \in 1 .. Params(stmt.sql).count :
              /\ ~Unsupported(ValueFor(Params(stmt.sql), call.values, n))
              /\ stmt.bound[n].type = "pointer" => stmt.bound[n].to \in Array
              /\ ~call.touched => Shows(ColumnValue(stmt.bound[n]),
                                        ValueFor(Params(stmt.sql), call.values, n))

Inv ==
    /\ TypeOK
    /\ CallOK
    /\ BoundAsGiven
    /\ RowsShowWhatWasGiven
    /\ RaisesOnlyWithReason

LEMMA InvHoldsInitially ==
  ASSUME Init
  PROVE  Inv
<1>1. TypeOK
  BY RowTypesExist, BoundsAreNumbers DEF Init, TypeOK, NoStmt, NoRow
<1>2. CallOK /\ BoundAsGiven
  BY DEF Init, CallOK, BoundAsGiven, NoCall
<1>3. RowsShowWhatWasGiven /\ RaisesOnlyWithReason
  BY DEF Init, RowsShowWhatWasGiven, RaisesOnlyWithReason, NoRow, NoCall
<1>. QED
  BY <1>1, <1>2, <1>3 DEF Inv

LEMMA SetRowTypeKeepsInv ==
  ASSUME Inv, NEW t \in RowTypes, SetRowType(t)
  PROVE  Inv'
<1>1. TypeOK'
  BY DEF Inv, SetRowType, TypeOK
<1>2. CallOK' /\ BoundAsGiven'
  BY DEF Inv, SetRowType, CallOK, BoundAsGiven, ColumnValue
<1>3. RowsShowWhatWasGiven' /\ RaisesOnlyWithReason'
  BY DEF Inv, SetRowType, RowsShowWhatWasGiven, RaisesOnlyWithReason
<1>. QED
  BY <1>1, <1>2, <1>3 DEF Inv


LEMMA NewCursorKeepsInv ==
  ASSUME Inv, NewCursor
  PROVE  Inv'
<1>1. TypeOK'
  BY DEF Inv, NewCursor, TypeOK, NoStmt, NoRow
<1>2. CallOK' /\ BoundAsGiven'
  BY DEF Inv, NewCursor, CallOK, BoundAsGiven, NoCall
<1>3. RowsShowWhatWasGiven' /\ RaisesOnlyWithReason'
  BY DEF NewCursor, RowsShowWhatWasGiven, RaisesOnlyWithReason, NoRow, NoCall
<1>. QED
  BY <1>1, <1>2, <1>3 DEF Inv

LEMMA CloseKeepsInv ==
  ASSUME Inv, Close
  PROVE  Inv'
<1>1. TypeOK'
  BY DEF Inv, Close, TypeOK, NoStmt
<1>2. CallOK' /\ BoundAsGiven'
  BY DEF Inv, Close, CallOK, BoundAsGiven
<1>3. RowsShowWhatWasGiven' /\ RaisesOnlyWithReason'
  BY DEF Inv, Close, RowsShowWhatWasGiven, RaisesOnlyWithReason
<1>. QED
  BY <1>1, <1>2, <1>3 DEF Inv

LEMMA ExecuteRaisesKeepsInv ==
  ASSUME Inv, executes < MaxExecutes, NEW sql \in Sqls, NEW values \in Arguments,
         ExecuteRaises(sql, values)
  PROVE  Inv'
<1>1. TypeOK'
  BY BoundsAreNumbers DEF Inv, ExecuteRaises, TypeOK, NoStmt
<1>2. CallOK' /\ BoundAsGiven'
  BY DEF ExecuteRaises, CallOK, BoundAsGiven
<1>3. RowsShowWhatWasGiven'
  BY DEF Inv, ExecuteRaises, RowsShowWhatWasGiven
<1>4. RaisesOnlyWithReason'
  <2>1. PICK cv : cv = CopyAll(values)
    OBVIOUS
  <2>2. PICK c : c = [sql |-> sql, values |-> cv, raised |-> TRUE, touched |-> FALSE]
    OBVIOUS
  <2>3. c.sql = sql /\ c.values = cv /\ call' = c
    BY <2>1, <2>2 DEF ExecuteRaises
  <2>4. ~Binds(Params(sql), cv)
    <3>1. ~Binds(Params(sql), values)
      BY DEF ExecuteRaises
    <3>. QED
      BY <2>1, <3>1, CopyCommutes DEF Binds
  <2>5. IsShaped(cv)
    BY <2>1, CopyFacts
  <2>6. ~WellCalled(c)
    BY <2>3, <2>4, <2>5, WellCalledBinds
  <2>. QED
    BY <2>3, <2>6 DEF RaisesOnlyWithReason
<1>. QED
  BY <1>1, <1>2, <1>3, <1>4 DEF Inv

LEMMA ExecuteStepsKeepsInv ==
  ASSUME Inv, executes < MaxExecutes, NEW sql \in Sqls, NEW values \in Arguments,
         ExecuteSteps(sql, values)
  PROVE  Inv'
<1>1. PICK p : p = Params(sql)
  OBVIOUS
<1>2. PICK cv : cv = CopyAll(values)
  OBVIOUS
<1>3. \A n \in 1 .. p.count : ~Unsupported(ValueFor(p, values, n))
  BY <1>1 DEF ExecuteSteps, Binds
<1>4. /\ stmt' = [sql |-> sql, bound |-> [i \in 1 .. p.count |-> Bound(ValueFor(p, values, i))]]
      /\ rc' \in {"ROW", "DONE"} /\ executes' = executes + 1
      /\ call' = [sql |-> sql, values |-> cv, raised |-> FALSE, touched |-> FALSE]
      /\ UNCHANGED <<row_type, rowfactory, row, array>>
  BY <1>1, <1>2 DEF ExecuteSteps
<1>5. /\ stmt'.sql = sql /\ DOMAIN stmt'.bound = 1 .. p.count
      /\ \A n \in 1 .. p.count : stmt'.bound[n] = Bound(ValueFor(p, values, n))
  BY <1>4
<1>6. \A n \in 1 .. p.count :
         /\ stmt'.bound[n].type \in {"None", "int", "str", "float", "bytes", "pointer"}
         /\ stmt'.bound[n].type = "pointer" => stmt'.bound[n].to \in Array
         /\ ~Unsupported(ValueFor(p, cv, n))
         /\ Shows(ColumnValue(Bound(ValueFor(p, values, n))), ValueFor(p, cv, n))
  <2>. SUFFICES ASSUME NEW n \in 1 .. p.count
                PROVE  /\ stmt'.bound[n].type \in {"None", "int", "str", "float", "bytes", "pointer"}
                       /\ stmt'.bound[n].type = "pointer" => stmt'.bound[n].to \in Array
                       /\ ~Unsupported(ValueFor(p, cv, n))
                       /\ Shows(ColumnValue(Bound(ValueFor(p, values, n))), ValueFor(p, cv, n))
    OBVIOUS
  <2>1. PICK v : v = ValueFor(p, values, n)
    OBVIOUS
  <2>2. IsItem(v) /\ ~Unsupported(v)
    BY <1>3, <2>1, FoundIsItem
  <2>3. ~Unsupported(ValueFor(p, cv, n)) /\ ValueFor(p, cv, n) = Copy(v)
    BY <1>2, <2>1, <2>2, CopyCommutes
  <2>4. /\ Shows(ColumnValue(Bound(v)), Copy(v))
        /\ Bound(v).type \in {"None", "int", "str", "float", "bytes", "pointer"}
        /\ Bound(v).type = "pointer" => Bound(v).to \in Array
    BY <2>2, BoundShows
  <2>5. stmt'.bound[n] = Bound(v)
    BY <1>5, <2>1
  <2>. QED
    BY <2>1, <2>3, <2>4, <2>5
<1>7. TypeOK'
  <2>1. stmt' # NoStmt
    BY <1>4, SqlFacts DEF NoStmt
  <2>2. /\ {row_type', rowfactory'} \subseteq RowTypes
        /\ row'.type \in RowTypes \cup {"none"}
        /\ array' \in [Array -> [block : 0 .. MaxMoves, bytes : Bytes]]
    BY <1>4 DEF Inv, TypeOK
  <2>3. executes' \in 0 .. MaxExecutes
    BY <1>4, BoundsAreNumbers DEF Inv, TypeOK
  <2>4. /\ DOMAIN stmt'.bound = 1 .. Params(stmt'.sql).count
        /\ \A n \in DOMAIN stmt'.bound :
              stmt'.bound[n].type \in {"None", "int", "str", "float", "bytes", "pointer"}
    BY <1>1, <1>5, <1>6
  <2>. QED
    BY <1>4, <1>5, <2>1, <2>2, <2>3, <2>4 DEF TypeOK
<1>8. CallOK'
  BY <1>4 DEF CallOK
<1>9. BoundAsGiven'
  <2>1. \A n \in 1 .. p.count : ColumnValue(stmt.bound[n])' = ColumnValue(Bound(ValueFor(p, values, n)))
    BY <1>4, <1>5 DEF ColumnValue
  <2>2. IsShaped(cv)
    BY <1>2, CopyFacts
  <2>3. call'.values = cv /\ call'.sql = sql
    BY <1>4
  <2>. QED
    BY <1>1, <1>5, <1>6, <2>1, <2>2, <2>3 DEF BoundAsGiven
<1>10. RowsShowWhatWasGiven' /\ RaisesOnlyWithReason'
  BY <1>4 DEF Inv, RowsShowWhatWasGiven, RaisesOnlyWithReason
<1>. QED
  BY <1>7, <1>8, <1>9, <1>10 DEF Inv


\* The program changes a bytearray, in its place or by moving it.
LEMMA ChangeKeepsInv ==
  ASSUME Inv, NEW a \in Array,
         array' \in [Array -> [block : 0 .. MaxMoves, bytes : Bytes]],
         \A other \in Array \ {a} : array'[other] = array[other],
         call' = [call EXCEPT !.touched = @ \/ IsBound(a)],
         UNCHANGED <<row_type, rowfactory, stmt, rc, row, executes>>
  PROVE  Inv'
<1>1. TypeOK'
  BY DEF Inv, TypeOK
<1>2. /\ call' = [sql |-> call.sql, values |-> call.values, raised |-> call.raised,
                  touched |-> call.touched \/ IsBound(a)]
      /\ call.touched \in BOOLEAN /\ call.raised \in BOOLEAN
  BY DEF Inv, CallOK
<1>3. CallOK'
  BY <1>2 DEF CallOK
<1>4. BoundAsGiven'
  <2>1. CASE IsBound(a) \/ call.touched
    <3>1. call'.touched /\ call'.sql = call.sql /\ call'.values = call.values
      BY <1>2, <2>1
    <3>. QED
      BY <3>1 DEF Inv, BoundAsGiven
  <2>2. CASE ~IsBound(a) /\ ~call.touched
    <3>1. call'.sql = call.sql /\ call'.values = call.values
      BY <1>2
    <3>2. ASSUME rc # "OK", NEW n \in 1 .. Params(stmt.sql).count
          PROVE  ColumnValue(stmt.bound[n])' = ColumnValue(stmt.bound[n])
      <4>1. n \in DOMAIN stmt.bound
        BY <3>2 DEF Inv, BoundAsGiven
      <4>2. stmt.bound[n].type = "pointer" => stmt.bound[n].to \in Array \ {a}
        BY <2>2, <3>2, <4>1 DEF Inv, BoundAsGiven, IsBound
      <4>. QED
        BY <4>2 DEF ColumnValue
    <3>. QED
      BY <2>2, <3>1, <3>2 DEF Inv, BoundAsGiven
  <2>. QED
    BY <2>1, <2>2
<1>5. RowsShowWhatWasGiven'
  BY DEF Inv, RowsShowWhatWasGiven
<1>6. RaisesOnlyWithReason'
  <2>1. PICK c : c = call
    OBVIOUS
  <2>2. PICK d : d = call'
    OBVIOUS
  <2>3. c.sql = d.sql /\ c.values = d.values /\ c.raised = d.raised
    BY <1>2, <2>1, <2>2
  <2>4. WellCalled(d) => WellCalled(c)
    BY <2>3 DEF WellCalled
  <2>. QED
    BY <2>1, <2>2, <2>3, <2>4 DEF Inv, RaisesOnlyWithReason
<1>. QED
  BY <1>1, <1>3, <1>4, <1>5, <1>6 DEF Inv

LEMMA AssignKeepsInv ==
  ASSUME Inv, NEW a \in Array, NEW bytes \in Bytes, Assign(a, bytes)
  PROVE  Inv'
<1>1. array' = [array EXCEPT ![a].bytes = bytes]
  BY DEF Assign
<1>2. array \in [Array -> [block : 0 .. MaxMoves, bytes : Bytes]]
  BY DEF Inv, TypeOK
<1>3. /\ array' \in [Array -> [block : 0 .. MaxMoves, bytes : Bytes]]
      /\ \A other \in Array \ {a} : array'[other] = array[other]
  BY <1>1, <1>2
<1>. QED
  BY <1>3, ChangeKeepsInv DEF Assign

LEMMA ExtendKeepsInv ==
  ASSUME Inv, NEW a \in Array, Extend(a)
  PROVE  Inv'
<1>1. PICK bytes \in Bytes : array' = [array EXCEPT ![a] = [block |-> @.block + 1, bytes |-> bytes]]
  BY DEF Extend
<1>2. array \in [Array -> [block : 0 .. MaxMoves, bytes : Bytes]] /\ array[a].block < MaxMoves
  BY DEF Inv, TypeOK, Extend
<1>3. array[a].block + 1 \in 0 .. MaxMoves
  BY <1>2, BoundsAreNumbers
<1>4. /\ array' \in [Array -> [block : 0 .. MaxMoves, bytes : Bytes]]
      /\ \A other \in Array \ {a} : array'[other] = array[other]
  BY <1>1, <1>2, <1>3
<1>. QED
  BY <1>4, ChangeKeepsInv DEF Extend

\* A row shows what its statement does when it is built.
LEMMA BuiltRowShows ==
  ASSUME Inv, rc = "ROW", ~call.touched, NEW r, r = BuiltRow, NEW i \in 1 .. Len(stmt.sql)
  PROVE  /\ r.call.sql = stmt.sql
         /\ LeftOut(r.call.sql, i) \/ ColumnShowsItsValue(r, i)
<1>1. PICK sql \in Sqls : sql = stmt.sql
  BY DEF Inv, BoundAsGiven
<1>2. PICK c : c = call
  OBVIOUS
<1>3. c.sql = sql /\ IsShaped(c.values)
  BY <1>1, <1>2 DEF Inv, BoundAsGiven
<1>4. PICK p : p = Params(sql)
  OBVIOUS
<1>5. PICK n : n = p.number[i]
  OBVIOUS
<1>6. n \in 1 .. p.count
  BY <1>1, <1>4, <1>5, SqlFacts, ParamsNumbering, FirstParameter
<1>7. PICK v : v = ValueFor(p, c.values, n)
  OBVIOUS
<1>8. ~Unsupported(v) /\ Shows(ColumnValue(stmt.bound[n]), v)
  BY <1>1, <1>2, <1>4, <1>6, <1>7 DEF Inv, BoundAsGiven
<1>9. Column(i) = ColumnValue(stmt.bound[n])
  BY <1>1, <1>4, <1>5 DEF Column
<1>10. LeftOut(sql, i) \/ (IsGiven(c, i) /\ Given(c, i) = v)
  BY <1>1, <1>3, <1>4, <1>5, <1>7, <1>8, PlaceHasIt
<1>11. r.call = c /\ r.type = rowfactory
  BY <1>2 DEF BuiltRow
<1>12. Len(sql) \in Nat /\ DOMAIN sql = 1 .. Len(sql) /\ i \in 1 .. Len(sql)
  BY <1>1, SqlFacts
<1>13. r.call = c /\ r.call.sql = sql /\ (r.type = "dict" <=> rowfactory = "dict")
  BY <1>3, <1>11
<1>14. CASE rowfactory = "dict"
  <2>1. r.of = [name \in Range(sql) |-> Column(LastColumn(name))]
    BY <1>1, <1>14 DEF BuiltRow
  <2>2. CASE \E j \in i + 1 .. Len(sql) : sql[j] = sql[i]
    <3>1. ColumnShowsItsValue(r, i)
      BY <1>13, <1>14, <2>2, Zenon DEF ColumnShowsItsValue
    <3>. QED
      BY <1>1, <1>13, <3>1
  <2>3. CASE ~ \E j \in i + 1 .. Len(sql) : sql[j] = sql[i]
    <3>1. \A j \in DOMAIN sql : sql[j] = sql[i] => i >= j
      BY <1>12, <2>3
    <3>2. \A k \in DOMAIN sql :
            sql[k] = sql[i] /\ (\A j \in DOMAIN sql : sql[j] = sql[i] => k >= j) => k = i
      BY <1>12, <3>1
    <3>3. LastColumn(sql[i]) = i
      BY <1>1, <1>12, <3>1, <3>2 DEF LastColumn
    <3>4. sql[i] \in Range(sql)
      BY <1>12 DEF Range
    <3>5. r.of[sql[i]] = Column(i)
      BY <2>1, <3>3, <3>4
    <3>6. IsGiven(c, i) /\ Given(c, i) = v => ColumnShowsItsValue(r, i)
      BY <1>8, <1>9, <1>13, <1>14, <3>5, Zenon DEF ColumnShowsItsValue
    <3>. QED
      BY <1>1, <1>10, <1>13, <3>6
  <2>. QED
    BY <1>1, <1>3, <1>11, <2>2, <2>3
<1>15. CASE rowfactory # "dict"
  <2>1. r.of[i] = Column(i)
    <3>1. CASE rowfactory = "tuple"
      BY <1>1, <1>12, <3>1 DEF BuiltRow, Columns
    <3>2. CASE rowfactory = "row"
      <4>1. PICK cols : cols = Columns
        OBVIOUS
      <4>2. DOMAIN cols = 1 .. Len(sql) /\ cols[i] = Column(i)
        BY <1>1, <1>12, <4>1 DEF Columns
      <4>3. cols = [j \in 1 .. Len(sql) |-> cols[j]]
        BY <1>1, <1>12, <4>1 DEF Columns
      <4> DEFINE S == {cols[j] : j \in 1 .. Len(sql)}
      <4>4. cols \in [1 .. Len(sql) -> S]
        BY <4>3
      <4>5. cols \in Seq(S) /\ Len(cols) = Len(sql)
        <5> HIDE DEF S
        <5>. QED
          BY <1>12, <4>4, <4>2
      <4>6. r.of = Append(cols, TheCursor)
        BY <3>2, <4>1 DEF BuiltRow
      <4>7. Append(cols, TheCursor)[i] = cols[i]
        <5> HIDE DEF S
        <5>. QED
          BY <1>12, <4>5
      <4>. QED
        BY <4>2, <4>6, <4>7
    <3>3. rowfactory \in {"tuple", "dict", "row"}
      BY RowTypesExist DEF Inv, TypeOK
    <3>. QED
      BY <1>15, <3>1, <3>2, <3>3
  <2>. QED
    BY <1>1, <1>3, <1>8, <1>9, <1>10, <1>11, <1>15, <2>1 DEF ColumnShowsItsValue
<1>. QED
  BY <1>14, <1>15

LEMMA FetchKeepsInv ==
  ASSUME Inv, Fetch
  PROVE  Inv'
<1>1. PICK r : r = BuiltRow
  OBVIOUS
<1>2. /\ rc = "ROW" /\ row' = r /\ rc' \in {"ROW", "DONE"}
      /\ UNCHANGED <<row_type, rowfactory, stmt, array, call, executes>>
  BY <1>1 DEF Fetch
<1>3. r.type = rowfactory /\ r.call = call
  BY <1>1 DEF BuiltRow
<1>4. TypeOK'
  BY <1>2, <1>3 DEF Inv, TypeOK
<1>5. CallOK' /\ BoundAsGiven'
  BY <1>2 DEF Inv, CallOK, BoundAsGiven, ColumnValue
<1>6. RaisesOnlyWithReason'
  BY <1>2 DEF Inv, RaisesOnlyWithReason
<1>7. RowsShowWhatWasGiven'
  <2>1. stmt.sql \in Sqls /\ call.sql = stmt.sql
    BY <1>2 DEF Inv, BoundAsGiven
  <2>2. DOMAIN stmt.sql = 1 .. Len(stmt.sql)
    BY <2>1, SqlFacts
  <2>3. ~r.call.touched =>
           \A i \in DOMAIN r.call.sql : LeftOut(r.call.sql, i) \/ ColumnShowsItsValue(r, i)
    BY <1>1, <1>2, <1>3, <2>1, <2>2, BuiltRowShows
  <2>. QED
    BY <1>2, <2>3 DEF RowsShowWhatWasGiven
<1>. QED
  BY <1>4, <1>5, <1>6, <1>7 DEF Inv

LEMMA StepKeepsInv ==
  ASSUME Inv, [Next]_vars
  PROVE  Inv'
<1>1. CASE \E t \in RowTypes : SetRowType(t)
  BY <1>1, SetRowTypeKeepsInv
<1>2. CASE NewCursor
  BY <1>2, NewCursorKeepsInv
<1>3. CASE /\ executes < MaxExecutes
           /\ \E sql \in Sqls, values \in Arguments :
                 ExecuteRaises(sql, values) \/ ExecuteSteps(sql, values)
  BY <1>3, ExecuteRaisesKeepsInv, ExecuteStepsKeepsInv
<1>4. CASE Fetch
  BY <1>4, FetchKeepsInv
<1>5. CASE Close
  BY <1>5, CloseKeepsInv
<1>6. CASE \E a \in Array : Extend(a) \/ \E bytes \in Bytes : Assign(a, bytes)
  BY <1>6, AssignKeepsInv, ExtendKeepsInv
<1>7. CASE UNCHANGED vars
  BY <1>7 DEF Inv, vars, TypeOK, CallOK, BoundAsGiven, RowsShowWhatWasGiven,
              RaisesOnlyWithReason, ColumnValue
<1>. QED
  BY <1>1, <1>2, <1>3, <1>4, <1>5, <1>6, <1>7 DEF Next

LEMMA InvHolds == Spec => []Inv
<1>1. Init => Inv
  BY InvHoldsInitially
<1>2. Inv /\ [Next]_vars => Inv'
  BY StepKeepsInv
<1>. QED
  BY <1>1, <1>2, PTL DEF Spec

-----------------------------------------------------------------------------
(* Theorems *)

\* Whatever is executed, fetched and changed in between, the variables keep
\* their types; above all a statement with bindings has one for each number.
THEOREM TypeCorrect == Spec => []TypeOK
<1>1. Inv => TypeOK
  BY DEF Inv
<1>. QED
  BY <1>1, InvHolds, PTL

\* For every statement and every tuple, list, dict or single value, a column of
\* a row shows what the documented numbering says belongs to it, as long as the
\* bytearrays that are bound are left alone (bindParameters,
\* usqlite_cursor.c:188, and the row factories).
THEOREM ColumnsShowTheirValues == Spec => []RowsShowWhatWasGiven
<1>1. Inv => RowsShowWhatWasGiven
  BY DEF Inv
<1>. QED
  BY <1>1, InvHolds, PTL

\* No statement and no values that are as documented make execute raise.
THEOREM DocumentedCallsBind == Spec => []RaisesOnlyWithReason
<1>1. Inv => RaisesOnlyWithReason
  BY DEF Inv
<1>. QED
  BY <1>1, InvHolds, PTL
=============================================================================
