--------------------------- MODULE GitGuardProofs ---------------------------
(***************************************************************************)
(* Proofs about GitGuard.  A scan that shows a project as protected is     *)
(* right of every file that was there all the time (ScanInv), if the       *)
(* project is at the top of its repository.  A guard keeps the rules       *)
(* .gitignore had and adds rules that count (GuardInv).  First what the    *)
(* text a guard writes holds, then the types, the scans and the guards.    *)
(***************************************************************************)
EXTENDS GitGuard, FiniteSetTheorems, SequenceTheorems, WellFoundedInduction, TLAPS

----------------------------------------------------------------------------
\* Rules and texts.

LEMMA RuleHeads ==
  /\ Head(NewLine) = "newline" /\ Head(Comment) = "comment" /\ Comment # NewLine
  /\ \A f : /\ Head(ExactPattern(f)) = "ignore" /\ ExactPattern(f)[2] = f
            /\ ExactPattern(f) # NewLine
  /\ \A f : Head(Keep(f)) = "keep" /\ Keep(f)[2] = f
<1>1. Head(NewLine) = "newline" /\ Head(Comment) = "comment"
  BY DEF NewLine, Comment
<1>2. Comment # NewLine
  BY <1>1
<1>3. ASSUME NEW f
      PROVE  /\ Head(ExactPattern(f)) = "ignore" /\ ExactPattern(f)[2] = f
             /\ Head(Keep(f)) = "keep" /\ Keep(f)[2] = f
  BY DEF ExactPattern, Keep
<1>4. \A f : ExactPattern(f) # NewLine
  BY <1>1, <1>3
<1>5. QED
  BY <1>1, <1>2, <1>3, <1>4

\* A set of numbers up to n that is not empty has a largest one.
LEMMA MaxFacts ==
  ASSUME NEW n \in Nat, NEW S \in SUBSET (1..n), S # {}
  PROVE  Max(S) \in S /\ \A i \in S : i <= Max(S)
<1> DEFINE D == { n - i : i \in S }
<1>0. \A i \in S : i \in 1..n
  OBVIOUS
<1>1. D \subseteq Nat
  <2>1. \A i \in 1..n : n - i \in Nat
    OBVIOUS
  <2>2. QED
    BY <1>0, <2>1
<1>2. D # {}
  OBVIOUS
<1>3. PICK m \in D : \A k \in D : ~(k < m)
  <2>1. IsWellFoundedOn(OpToRel(<, Nat), Nat)
    BY NatLessThanWellFounded
  <2> HIDE DEF D
  <2>2. PICK m \in D : \A k \in D : ~(<<k, m>> \in OpToRel(<, Nat))
    BY <1>1, <1>2, <2>1, WFMin
  <2>3. QED
    BY <1>1, <2>2 DEF OpToRel
<1>4. PICK x \in S : m = n - x
  BY <1>3
<1>5. \A i \in S : x >= i
  <2>1. ASSUME NEW i \in S
        PROVE  x >= i
    <3>1. ~(n - i < n - x)
      BY <1>3, <1>4
    <3>2. QED
      BY <3>1, <1>0
  <2>2. QED
    BY <2>1
<1>6. Max(S) \in S /\ \A i \in S : Max(S) >= i
  BY <1>4, <1>5 DEF Max
<1>7. QED
  BY <1>0, <1>6

\* The arrangement of a finite set.
LEMMA ArrangedFacts ==
  ASSUME NEW S, IsFiniteSet(S)
  PROVE  /\ SetToSeq(S) \in Seq(S)
         /\ \A e \in S : \E i \in 1..Len(SetToSeq(S)) : SetToSeq(S)[i] = e
<1> DEFINE n == Cardinality(S)
           s == SetToSeq(S)
<1>1. n \in Nat /\ ExistsBijection(1..n, S)
  BY FS_CardinalityType
<1>2. \E f \in [1..n -> S] : IsInjective(f)
  BY <1>1 DEF ExistsBijection, Bijection, Injection
<1>3. s \in [1..n -> S] /\ IsInjective(s)
  BY <1>2 DEF SetToSeq
<1>4. s \in Injection(1..n, S)
  BY <1>3 DEF Injection
<1>5. Cardinality(1..n) = n
  BY <1>1, FS_Interval
<1>6. s \in Surjection(1..n, S)
  BY <1>4, <1>5, FS_Injection
<1> HIDE DEF n, s
<1>7. \A e \in S : \E i \in 1..n : s[i] = e
  BY <1>6 DEF Surjection
<1>8. s \in Seq(S) /\ Len(s) = n
  BY <1>1, <1>3, SeqDef, LenProperties
<1>9. QED
  BY <1>7, <1>8 DEF s

LEMMA PatternLinesFacts ==
  ASSUME NEW files \in SUBSET File, NEW block \in Seq(files)
  PROVE  LET L == PatternLines(block)
         IN  /\ L \in Seq(Rule) /\ Len(L) = 2 * Len(block)
             /\ \A j \in 1..Len(L) :
                  L[j] = IF j % 2 = 1 THEN ExactPattern(block[(j + 1) \div 2]) ELSE NewLine
             /\ \A j \in 1..Len(L) : j % 2 = 1 => (j + 1) \div 2 \in 1..Len(block)
<1> DEFINE n == Len(block)
           L == PatternLines(block)
<1>1. n \in Nat /\ \A i \in 1..n : block[i] \in File
  OBVIOUS
<1>2. L = [j \in 1..2 * n |-> IF j % 2 = 1 THEN ExactPattern(block[(j + 1) \div 2]) ELSE NewLine]
  BY DEF PatternLines
<1> HIDE DEF n, L
<1>3. \A j \in 1..2 * n : j % 2 = 1 => (j + 1) \div 2 \in 1..n
  BY <1>1
<1>4. \A j \in 1..2 * n : L[j] = IF j % 2 = 1 THEN ExactPattern(block[(j + 1) \div 2]) ELSE NewLine
  BY <1>2
<1>5. \A j \in 1..2 * n : L[j] \in Rule
  <2>1. NewLine \in Rule /\ \A f \in File : ExactPattern(f) \in Rule
    BY DEF Rule
  <2>2. \A i \in 1..n : ExactPattern(block[i]) \in Rule
    BY <2>1, <1>1
  <2>3. QED
    BY <2>1, <2>2, <1>3, <1>4
<1>6. L \in [1..2 * n -> Rule] /\ 2 * n \in Nat
  <2>1. L = [j \in 1..2 * n |-> L[j]]
    BY <1>2
  <2>2. QED
    BY <2>1, <1>1, <1>5
<1>7. L \in Seq(Rule) /\ Len(L) = 2 * n
  BY <1>6, SeqDef, LenProperties
<1>8. QED
  BY <1>3, <1>4, <1>7 DEF n, L

\* The text a guard writes: the old one, perhaps ends of lines, the comment, and the patterns.
LEMMA ProposedFacts ==
  ASSUME NEW existing \in Seq(Rule), NEW files \in SUBSET File, IsFiniteSet(files)
  PROVE  LET P == Proposed(existing, files)
         IN  /\ P \in Seq(Rule)
             /\ \E a \in Nat, L \in Seq(Rule), block \in Seq(files) :
                  /\ \A e \in files : \E i \in 1..Len(block) : block[i] = e
                  /\ L = PatternLines(block) /\ Len(P) = a + 2 + Len(L)
                  /\ a >= Len(existing)
                  /\ \A i \in 1..Len(existing) : P[i] = existing[i]
                  /\ \A j \in 1..Len(L) : P[a + 2 + j] = L[j]
                  /\ P[a + 1] = Comment /\ P[a + 2] = NewLine
                  /\ existing # << >> /\ existing[Len(existing)] # NewLine =>
                       a > Len(existing) /\ P[Len(existing) + 1] = NewLine
                  /\ existing = << >> => a = 0
<1> DEFINE P == Proposed(existing, files)
           ended == IF existing # << >> /\ ~EndsWith(existing, <<NewLine>>)
                    THEN Append(existing, NewLine) ELSE existing
           apart == IF ended # << >> /\ ~EndsWith(ended, <<NewLine, NewLine>>)
                    THEN Append(ended, NewLine) ELSE ended
           block == SetToSeq(files)
           L == PatternLines(block)
           a == Len(apart)
           l == Len(existing)
<1>1. NewLine \in Rule /\ Comment \in Rule
  BY DEF Rule
<1>2. P = apart \o <<Comment, NewLine>> \o L
  BY DEF Proposed
<1>3. block \in Seq(files) /\ \A e \in files : \E i \in 1..Len(block) : block[i] = e
  BY ArrangedFacts
<1> HIDE DEF P, block
<1>4. L \in Seq(Rule)
  BY <1>3, PatternLinesFacts
<1> HIDE DEF L
<1>5. existing # << >> /\ existing[l] # NewLine => ~EndsWith(existing, <<NewLine>>)
  <2>1. ASSUME existing # << >>, EndsWith(existing, <<NewLine>>)
        PROVE  existing[l] = NewLine
    <3>1. l \in Nat /\ l # 0
      BY <2>1, EmptySeq
    <3>2. DOMAIN <<NewLine>> = 1..1 /\ Len(<<NewLine>>) = 1 /\ <<NewLine>>[1] = NewLine
      OBVIOUS
    <3>3. existing[l - 1 + 1] = NewLine
      BY <2>1, <3>2 DEF EndsWith
    <3>4. QED
      BY <3>1, <3>3
  <2>2. QED
    BY <2>1
<1>6. /\ ended \in Seq(Rule) /\ Len(ended) >= l /\ \A i \in 1..l : ended[i] = existing[i]
      /\ existing # << >> /\ existing[l] # NewLine => Len(ended) = l + 1 /\ ended[l + 1] = NewLine
      /\ existing = << >> => ended = << >>
  BY <1>1, <1>5
<1> HIDE DEF ended
<1>7. /\ apart \in Seq(Rule) /\ a >= Len(ended) /\ \A i \in 1..Len(ended) : apart[i] = ended[i]
      /\ ended = << >> => apart = << >>
  BY <1>1, <1>6
<1> HIDE DEF apart
<1>8. /\ a \in Nat /\ l \in Nat /\ a >= l /\ \A i \in 1..l : apart[i] = existing[i]
      /\ existing # << >> /\ existing[l] # NewLine => a > l /\ apart[l + 1] = NewLine
      /\ existing = << >> => a = 0
  BY <1>6, <1>7
<1>9. /\ P \in Seq(Rule) /\ Len(P) = a + 2 + Len(L)
      /\ \A i \in 1..a : P[i] = apart[i]
      /\ P[a + 1] = Comment /\ P[a + 2] = NewLine
      /\ \A j \in 1..Len(L) : P[a + 2 + j] = L[j]
  <2> DEFINE H == <<Comment, NewLine>>
             Q == apart \o H
  <2>1. H \in Seq(Rule) /\ Len(H) = 2 /\ H[1] = Comment /\ H[2] = NewLine
    BY <1>1
  <2>2. Q \in Seq(Rule) /\ Len(Q) = a + 2 /\ \A i \in 1..(a + 2) : Q[i] = IF i <= a THEN apart[i] ELSE H[i - a]
    <3>1. Q = apart \o H
      OBVIOUS
    <3> HIDE DEF Q, H
    <3>2. /\ Q \in Seq(Rule) /\ Len(Q) = Len(apart) + Len(H)
          /\ \A i \in 1..(Len(apart) + Len(H)) :
               Q[i] = IF i <= Len(apart) THEN apart[i] ELSE H[i - Len(apart)]
      <4>1. apart \in Seq(Rule) /\ H \in Seq(Rule)
        BY <1>7, <2>1
      <4>2. QED
        BY <3>1, <4>1, ConcatProperties
    <3>3. QED
      BY <3>2, <2>1
  <2> HIDE DEF H
  <2>3. P = Q \o L
    BY <1>2 DEF H
  <2> HIDE DEF Q, a
  <2>4. /\ P \in Seq(Rule) /\ Len(P) = Len(Q) + Len(L)
        /\ \A i \in 1..(Len(Q) + Len(L)) : P[i] = IF i <= Len(Q) THEN Q[i] ELSE L[i - Len(Q)]
    BY <2>2, <2>3, <1>4, ConcatProperties
  <2>5. Len(L) \in Nat /\ a \in Nat
    BY <1>4, <1>8
  <2>6. \A i \in 1..(a + 2) : P[i] = Q[i]
    BY <2>2, <2>4, <2>5
  <2>7. \A j \in 1..Len(L) : P[a + 2 + j] = L[j]
    <3>1. ASSUME NEW j \in 1..Len(L)
          PROVE  P[a + 2 + j] = L[j]
      <4>1. PICK k \in Nat : k = a + 2 + j
        BY <2>5
      <4>2. k \in 1..(Len(Q) + Len(L)) /\ ~(k <= Len(Q)) /\ k - Len(Q) = j
        BY <4>1, <2>2, <2>5
      <4>3. P[k] = L[k - Len(Q)]
        BY <4>2, <2>4
      <4>4. QED
        BY <4>1, <4>2, <4>3
    <3>2. QED
      BY <3>1
  <2>8. \A i \in 1..a : P[i] = apart[i]
    BY <2>2, <2>5, <2>6
  <2>9. P[a + 1] = H[1] /\ P[a + 2] = H[2]
    <3>1. ASSUME NEW i \in 1..2
          PROVE  P[a + i] = H[i]
      <4>1. PICK k \in Nat : k = a + i
        BY <2>5
      <4>2. k \in 1..(a + 2) /\ ~(k <= a) /\ k - a = i
        BY <4>1, <2>5
      <4>3. P[k] = H[k - a]
        BY <4>2, <2>2, <2>6
      <4>4. QED
        BY <4>1, <4>2, <4>3
    <3>2. QED
      BY <3>1
  <2>10. QED
    BY <2>1, <2>2, <2>4, <2>7, <2>8, <2>9
<1> HIDE DEF a, l
<1>10. \A i \in 1..l : P[i] = existing[i]
  BY <1>8, <1>9
<1>11. existing # << >> /\ existing[l] # NewLine => a > l /\ P[l + 1] = NewLine
  BY <1>8, <1>9
<1>12. QED
  BY <1>3, <1>4, <1>8, <1>9, <1>10, <1>11 DEF P, L, l

LEMMA PrefixFacts ==
  ASSUME NEW s \in Seq(Rule), NEW t \in Seq(Rule), Len(s) <= Len(t),
         \A i \in 1..Len(s) : t[i] = s[i]
  PROVE  IsPrefix(s, t)
<1>1. Len(s) \in Nat /\ Len(t) \in Nat
  OBVIOUS
<1> DEFINE n == Len(s)
           u == SubSeq(s, 1, n)
           v == SubSeq(t, 1, n)
<1>2. u \in Seq(Rule) /\ Len(u) = n /\ \A i \in 1..n : u[i] = s[i]
  BY <1>1
<1>3. v \in Seq(Rule) /\ Len(v) = n /\ \A i \in 1..n : v[i] = t[i]
  BY <1>1
<1> HIDE DEF u, v
<1>4. u = v
  BY <1>2, <1>3, SeqEqual
<1>5. QED
  BY <1>4 DEF IsPrefix, u, v

LEMMA CommentHasNoRules == Rules(<<Comment, NewLine>>) = {}
BY RuleHeads DEF Rules

\* A guard's text keeps the rules there were, and ignores the files it was written for.
LEMMA ProposedKeeps ==
  ASSUME GuardAssumption, NEW existing \in Seq(Rule), NEW files \in SUBSET File, IsFiniteSet(files)
  PROVE  LET P == Proposed(existing, files)
         IN  /\ P \in Seq(Rule)
             /\ IsPrefix(existing, P) /\ Rules(existing) \subseteq Rules(P)
             /\ existing = << >> => IsPrefix(<<Comment, NewLine>>, P)
             /\ \A f \in files : Nested[f] # "keep" => Ignores(P, f)
<1> DEFINE P == Proposed(existing, files)
           l == Len(existing)
<1>1. P \in Seq(Rule)
  BY ProposedFacts
<1>2. PICK a \in Nat, L \in Seq(Rule), block \in Seq(files) :
        /\ \A e \in files : \E i \in 1..Len(block) : block[i] = e
        /\ L = PatternLines(block) /\ Len(P) = a + 2 + Len(L)
        /\ a >= l
        /\ \A i \in 1..l : P[i] = existing[i]
        /\ \A j \in 1..Len(L) : P[a + 2 + j] = L[j]
        /\ P[a + 1] = Comment /\ P[a + 2] = NewLine
        /\ existing # << >> /\ existing[l] # NewLine => a > l /\ P[l + 1] = NewLine
        /\ existing = << >> => a = 0
  BY ProposedFacts
<1> HIDE DEF P
<1>3. /\ l \in Nat /\ Len(L) = 2 * Len(block) /\ Len(block) \in Nat
      /\ \A j \in 1..Len(L) : L[j] = IF j % 2 = 1 THEN ExactPattern(block[(j + 1) \div 2]) ELSE NewLine
  <2>1. L = PatternLines(block) /\ l \in Nat /\ Len(block) \in Nat
    BY <1>2
  <2>2. /\ Len(PatternLines(block)) = 2 * Len(block)
        /\ \A j \in 1..Len(PatternLines(block)) :
             PatternLines(block)[j] = IF j % 2 = 1 THEN ExactPattern(block[(j + 1) \div 2]) ELSE NewLine
    BY Zenon, PatternLinesFacts
  <2>3. QED
    BY <2>1, <2>2
<1>4. /\ DOMAIN P = 1..Len(P) /\ Len(P) \in Nat /\ Len(P) = a + 2 + Len(L)
      /\ DOMAIN existing = 1..l /\ l <= Len(P)
  BY <1>1, <1>2, <1>3
<1>5. IsPrefix(existing, P)
  BY <1>1, <1>2, <1>3, <1>4, PrefixFacts
<1>6. Rules(existing) \subseteq Rules(P)
  <2>1. ASSUME NEW i \in Rules(existing)
        PROVE  i \in Rules(P)
    <3>1. /\ i \in 1..l /\ Head(existing[i]) \in {"ignore", "keep"}
          /\ i = 1 \/ existing[i - 1] = NewLine
          /\ i = l \/ existing[i + 1] = NewLine
      BY <1>4 DEF Rules
    <3>2. i \in 1..Len(P) /\ P[i] = existing[i]
      <4>1. P[i] = existing[i]
        BY <3>1, <1>2
      <4>2. i \in 1..Len(P)
        <5> HIDE DEF l
        <5>1. l \in Nat /\ Len(P) \in Nat /\ l <= Len(P) /\ i \in 1..l
          BY <3>1, <1>3, <1>4
        <5>2. QED
          BY <5>1
      <4>3. QED
        BY <4>1, <4>2
    <3>3. i = 1 \/ P[i - 1] = NewLine
      <4>1. i # 1 => i - 1 \in 1..l
        BY <3>1, <1>3
      <4>2. QED
        BY <4>1, <3>1, <1>2
    <3>4. i = Len(P) \/ P[i + 1] = NewLine
      <4>1. CASE i # l
        <5>1. i + 1 \in 1..l
          BY <4>1, <3>1, <1>3
        <5>2. QED
          BY <5>1, <4>1, <3>1, <1>2
      <4>2. CASE i = l
        <5>1. existing # << >> /\ existing[l] # NewLine
          BY <4>2, <3>1, RuleHeads, <1>3
        <5>2. QED
          BY <5>1, <4>2, <1>2
      <4>3. QED
        BY <4>1, <4>2
    <3>5. QED
      BY <3>1, <3>2, <3>3, <3>4, <1>4 DEF Rules
  <2>2. QED
    BY <2>1
<1>7. existing = << >> => IsPrefix(<<Comment, NewLine>>, P)
  <2>1. SUFFICES ASSUME existing = << >>
                 PROVE  IsPrefix(<<Comment, NewLine>>, P)
    OBVIOUS
  <2> DEFINE H == <<Comment, NewLine>>
  <2>2. H \in Seq(Rule) /\ Len(H) = 2 /\ H[1] = Comment /\ H[2] = NewLine
    BY DEF Rule
  <2> HIDE DEF H
  <2>3. P[1] = Comment /\ P[2] = NewLine /\ Len(P) >= 2
    BY <2>1, <1>2, <1>3, <1>4
  <2>4. \A i \in 1..Len(H) : P[i] = H[i]
    BY <2>2, <2>3
  <2>5. IsPrefix(H, P)
    BY <2>2, <2>3, <2>4, <1>1, <1>4, PrefixFacts
  <2>6. QED
    BY <2>5 DEF H
<1>8. ASSUME NEW f \in files, Nested[f] # "keep"
      PROVE  Ignores(P, f)
  <2>1. Nested[f] \in {"none", "ignore", "keep"} /\ f \in File
    BY DEF GuardAssumption
  <2>2. CASE Nested[f] = "ignore"
    BY <2>2 DEF Ignores
  <2>3. CASE Nested[f] = "none"
    <3> DEFINE about == { i \in Rules(P) : P[i][2] = f }
               top == Max(about)
    <3>1. PICK k \in 1..Len(block) : block[k] = f
      <4>1. \E k \in 1..Len(block) : block[k] = f
        BY <1>2
      <4>2. QED
        BY <4>1
    <3>2. PICK j \in Nat : j = 2 * k - 1
      BY <1>3
    <3>3. /\ j \in 1..Len(L) /\ j % 2 = 1 /\ (j + 1) \div 2 = k
          /\ j + 1 \in 1..Len(L) /\ (j + 1) % 2 # 1
      BY <3>2, <1>3
    <3>4. P[a + 2 + j] = ExactPattern(f)
      BY <3>1, <3>3, <1>2, <1>3
    <3>5. PICK i \in Nat : i = a + 2 + j
      BY <1>2, <3>2
    <3>6. i \in 1..Len(P) /\ i + 1 = a + 2 + (j + 1)
      BY <3>3, <3>5, <1>3, <1>4
    <3>7. P[i + 1] = NewLine
      BY <3>3, <3>6, <1>2, <1>3
    <3>8. P[i - 1] = NewLine
      <4>1. CASE j = 1
        <5>1. i - 1 = a + 2
          BY <4>1, <3>5
        <5>2. QED
          BY <5>1, <1>2
      <4>2. CASE j # 1
        <5>1. j - 1 \in 1..Len(L) /\ (j - 1) % 2 # 1 /\ i - 1 = a + 2 + (j - 1)
          BY <4>2, <3>2, <3>3, <3>5, <1>3
        <5>2. QED
          BY <5>1, <1>2, <1>3
      <4>3. QED
        BY <4>1, <4>2
    <3>9. i \in about
      <4>1. P[i] = ExactPattern(f)
        BY <3>4, <3>5
      <4>2. Head(P[i]) = "ignore" /\ P[i][2] = f
        BY <4>1, RuleHeads
      <4>3. QED
        BY <4>2, <3>6, <3>7, <3>8, <1>4 DEF Rules
    <3>10. about \in SUBSET (1..Len(P))
      BY <1>4 DEF Rules
    <3>11. top \in about /\ i <= top
      <4> HIDE DEF about
      <4>1. about # {}
        BY <3>9
      <4>2. QED
        BY <4>1, <3>9, <3>10, <1>4, MaxFacts
    <3> HIDE DEF top
    <3>12. /\ top \in 1..Len(P) /\ Head(P[top]) \in {"ignore", "keep"} /\ P[top][2] = f
      BY <3>10, <3>11 DEF Rules
    <3>13. PICK m \in 1..Len(L) : top = a + 2 + m
      <4>1. top - (a + 2) \in 1..Len(L) /\ top = a + 2 + (top - (a + 2))
        <5>1. top \in Nat /\ top <= a + 2 + Len(L) /\ a + 2 + j <= top /\ j \in Nat /\ j >= 1
          BY <3>2, <3>3, <3>5, <3>11, <3>12, <1>4
        <5>2. Len(L) \in Nat /\ a \in Nat
          BY <1>2, <1>3
        <5>3. QED
          BY <5>1, <5>2
      <4>2. QED
        BY <4>1
    <3>14. P[top] = L[m]
      BY <3>13, <1>2
    <3>15. P[top] = ExactPattern(block[(m + 1) \div 2])
      BY <3>12, <3>14, <1>3, RuleHeads
    <3>16. P[top] = ExactPattern(f)
      BY <3>12, <3>15, RuleHeads
    <3>17. QED
      <4>1. about # {} /\ P[Max(about)] = ExactPattern(f)
        BY <3>9, <3>16 DEF top
      <4>2. Ignores(P, f) <=>
              \/ Nested[f] = "ignore"
              \/ Nested[f] = "none" /\ about # {} /\ P[Max(about)] = ExactPattern(f)
        BY Zenon DEF Ignores
      <4>3. QED
        BY <2>3, <4>1, <4>2
  <2>4. QED
    BY <2>1, <2>2, <2>3, <1>8
<1>9. QED
  BY <1>1, <1>5, <1>6, <1>7, <1>8 DEF P

----------------------------------------------------------------------------
\* Types.

LEMMA CandidateFacts ==
  ASSUME GuardAssumption
  PROVE  /\ Candidates \subseteq File /\ IsFiniteSet(Candidates)
         /\ NoCall \in CallRecord /\ NoCall.pc = "rest" /\ NoCall.kind = "none" /\ NoCall.result = "none"
<1>1. Candidates \subseteq File
  BY DEF Candidates
<1>2. IsFiniteSet(Candidates)
  BY <1>1, FS_Subset DEF GuardAssumption
<1>3. << >> \in Seq(Rule)
  OBVIOUS
<1>4. QED
  BY <1>1, <1>2, <1>3 DEF NoCall, CallRecord

Results == {"error", "unavailable", "not-repository", "complete", "protected", "attention", "added"}

LEMMA DoneFacts ==
  ASSUME GuardAssumption, NEW c \in Call, call[c] \in CallRecord, NEW r \in Results
  PROVE  /\ Done(c, r) \in CallRecord /\ Done(c, r).pc = "done" /\ Done(c, r).kind = call[c].kind
         /\ Done(c, r).result = r
<1>1. Done(c, r) = [NoCall EXCEPT !.pc = "done", !.kind = call[c].kind, !.result = r]
  BY DEF Done
<1>2. call[c].kind \in {"none", "scan", "guard"}
  BY DEF CallRecord
<1>3. NoCall \in CallRecord
  BY CandidateFacts
<1>4. r \in {"none", "error", "unavailable", "not-repository", "complete", "protected", "attention",
             "added"}
  BY DEF Results
<1>5. ASSUME NEW kind \in {"none", "scan", "guard"}, NEW d,
             d = [NoCall EXCEPT !.pc = "done", !.kind = kind, !.result = r]
      PROVE  d \in CallRecord /\ d.pc = "done" /\ d.kind = kind /\ d.result = r
  BY <1>3, <1>4, <1>5 DEF CallRecord
<1>6. QED
  BY <1>1, <1>2, <1>5, Zenon

LEMMA ReturnsTyped ==
  ASSUME GuardAssumption, TypeOK, NEW c \in Call, NEW r \in Results, Returns(c, r)
  PROVE  /\ call' \in [Call -> CallRecord] /\ call'[c].pc = "done" /\ call'[c].kind = call[c].kind
         /\ call'[c].result = r /\ \A d \in Call : d # c => call'[d] = call[d]
<1>1. call \in [Call -> CallRecord]
  BY DEF TypeOK
<1>2. call' = [call EXCEPT ![c] = Done(c, r)]
  BY DEF Returns
<1>3. QED
  BY <1>1, <1>2, DoneFacts

LEMMA MissingFacts ==
  ASSUME GuardAssumption, TypeOK, NEW c \in Call
  PROVE  /\ Missing(c) \in SUBSET File /\ IsFiniteSet(Missing(c))
         /\ call[c].existing \in Seq(Rule) /\ Block(c) \in Seq(Rule)
<1>1. call[c] \in CallRecord
  BY DEF TypeOK
<1>2. Missing(c) \subseteq Candidates /\ call[c].existing \in Seq(Rule)
  BY <1>1 DEF Missing, CallRecord
<1>3. Missing(c) \in SUBSET File /\ IsFiniteSet(Missing(c))
  BY <1>2, CandidateFacts, FS_Subset
<1>4. Block(c) \in Seq(Rule)
  BY <1>2, <1>3, ProposedKeeps DEF Block
<1>5. QED
  BY <1>2, <1>3, <1>4

\* What a step of a call does to the call, and to no other; the text is theirs below.
LEMMA ReplacesFacts ==
  ASSUME GuardAssumption, TypeOK, NEW c \in Call, NEW new, Replaces(c, new)
  PROVE  /\ gitignore' = new /\ call' \in [Call -> CallRecord]
         /\ call'[c].pc = "done" /\ call'[c].kind = call[c].kind /\ call'[c].result = "added"
         /\ \A d \in Call : d # c => call'[d] = [call[d] EXCEPT !.replaced = TRUE]
<1>1. call \in [Call -> CallRecord]
  BY DEF TypeOK
<1>2. /\ gitignore' = new
      /\ call' = [b \in Call |-> IF b # c THEN [call[b] EXCEPT !.replaced = TRUE] ELSE Done(c, "added")]
  BY DEF Replaces
<1>3. "added" \in Results
  BY DEF Results
<1>4. /\ Done(c, "added") \in CallRecord /\ Done(c, "added").pc = "done"
      /\ Done(c, "added").kind = call[c].kind /\ Done(c, "added").result = "added"
  BY <1>1, <1>3, DoneFacts
<1>5. ASSUME NEW b \in Call
      PROVE  [call[b] EXCEPT !.replaced = TRUE] \in CallRecord
  <2>1. call[b] \in CallRecord
    BY <1>1
  <2>2. QED
    BY <2>1 DEF CallRecord
<1>6. QED
  BY <1>2, <1>4, <1>5

LEMMA IgnoreTyped ==
  ASSUME TypeOK
  PROVE  /\ call \in [Call -> CallRecord] /\ calls \in Nat
         /\ gitignore \in [kind : {"none", "file", "other"}, text : Seq(Rule)]
         /\ DOMAIN tree = Candidates /\ Managed \subseteq Candidates /\ index \in SUBSET Candidates
BY DEF TypeOK, Managed

LEMMA GoTyped ==
  ASSUME TypeOK, NEW c \in Call,
         NEW pc \in {"rest", "visit", "load", "open", "ignored", "history", "remotes", "read", "place",
                     "create", "write", "check", "persist", "done"},
         Go(c, pc)
  PROVE  call' \in [Call -> CallRecord]
<1>1. call \in [Call -> CallRecord] /\ call' = [call EXCEPT ![c] = [call[c] EXCEPT !.pc = pc]]
  BY DEF Go, TypeOK
<1>2. call[c] \in CallRecord
  BY <1>1
<1>3. [call[c] EXCEPT !.pc = pc] \in CallRecord
  BY <1>2 DEF CallRecord
<1>4. QED
  BY <1>1, <1>3

LEMMA WalkTyped ==
  ASSUME GuardAssumption, TypeOK, NEW c \in Call,
         \/ \E kind \in {"scan", "guard"} : Begin(c, kind)
         \/ Visit(c) \/ Visited(c) \/ Load(c) \/ Open(c)
  PROVE  call' \in [Call -> CallRecord] /\ calls' \in Nat
<1>1. call \in [Call -> CallRecord] /\ calls \in Nat /\ DOMAIN tree = Candidates /\ call[c] \in CallRecord
  BY IgnoreTyped
<1>2. ASSUME NEW r \in Results, Returns(c, r)
      PROVE  call' \in [Call -> CallRecord]
  BY <1>2, ReturnsTyped
<1>3. CASE \E kind \in {"scan", "guard"} : Begin(c, kind)
  <2>1. PICK kind \in {"scan", "guard"} : Begin(c, kind)
    BY <1>3
  <2> DEFINE begun == [NoCall EXCEPT !.pc = "visit", !.kind = kind, !.todo = DOMAIN tree]
  <2>2. begun \in CallRecord
    <3>1. NoCall \in CallRecord /\ DOMAIN tree \in SUBSET Candidates
      BY <1>1, CandidateFacts
    <3>2. QED
      BY <3>1 DEF CallRecord
  <2>3. call' = [call EXCEPT ![c] = begun] /\ calls' = calls + 1
    BY <2>1 DEF Begin
  <2> HIDE DEF begun
  <2>4. QED
    BY <1>1, <2>2, <2>3
<1>4. CASE Visit(c)
  <2>1. PICK f \in call[c].todo :
          IF tree[f] = "large" THEN Returns(c, "error")
          ELSE call' = [call EXCEPT ![c].todo = @ \ {f}, ![c].found = @ \cup ({f} \cap Managed)]
    BY <1>4 DEF Visit
  <2>2. calls' = calls
    BY <1>4 DEF Visit
  <2>3. CASE tree[f] = "large"
    BY <2>1, <2>2, <2>3, <1>1, <1>2 DEF Results
  <2>4. CASE tree[f] # "large"
    <3>1. /\ call[c].todo \ {f} \in SUBSET Candidates
          /\ call[c].found \cup ({f} \cap Managed) \in SUBSET Candidates
      BY <1>1, IgnoreTyped DEF CallRecord
    <3>2. PICK todo \in SUBSET Candidates, found \in SUBSET Candidates :
            todo = call[c].todo \ {f} /\ found = call[c].found \cup ({f} \cap Managed)
      BY <3>1
    <3>3. call' = [call EXCEPT ![c] = [call[c] EXCEPT !.todo = todo, !.found = found]]
      BY <2>1, <2>4, <3>2
    <3>4. [call[c] EXCEPT !.todo = todo, !.found = found] \in CallRecord
      BY <1>1 DEF CallRecord
    <3>5. QED
      BY <1>1, <2>2, <3>3, <3>4
  <2>5. QED
    BY <2>3, <2>4
<1>5. CASE Visited(c)
  BY <1>5, <1>1 DEF Visited, Go, CallRecord
<1>6. CASE Load(c)
  <2>1. (Go(c, "open") \/ Returns(c, "error")) /\ calls' = calls
    BY <1>6 DEF Load
  <2>2. QED
    BY <2>1, <1>1, <1>2, GoTyped DEF Results
<1>7. CASE Open(c)
  <2>1. \/ call' = [call EXCEPT ![c].pc = "ignored", ![c].tracked = index]
        \/ \E r \in Results : Returns(c, r)
    BY <1>7 DEF Open, Refuses, Results
  <2>2. calls' = calls
    BY <1>7 DEF Open
  <2>3. [call[c] EXCEPT !.pc = "ignored", !.tracked = index] \in CallRecord
    <3>1. call[c] \in CallRecord /\ index \in SUBSET Candidates
      BY <1>1, IgnoreTyped
    <3>2. QED
      BY <3>1 DEF CallRecord
  <2>4. QED
    BY <2>1, <2>2, <2>3, <1>1, <1>2
<1>8. QED
  BY <1>3, <1>4, <1>5, <1>6, <1>7

LEMMA AskTyped ==
  ASSUME GuardAssumption, TypeOK, NEW c \in Call, IgnoredPaths(c) \/ HistoryPaths(c) \/ Inspect(c)
  PROVE  call' \in [Call -> CallRecord] /\ calls' \in Nat
<1>1. call \in [Call -> CallRecord] /\ calls \in Nat /\ call[c] \in CallRecord
  BY IgnoreTyped
<1>2. ASSUME NEW r \in Results, Returns(c, r)
      PROVE  call' \in [Call -> CallRecord]
  BY <1>2, ReturnsTyped
<1>3. AskFails(c) => \E r \in Results : Returns(c, r)
  BY DEF AskFails, Refuses, Results
<1>4. calls' = calls
  BY DEF IgnoredPaths, HistoryPaths, Inspect
<1>5. CASE IgnoredPaths(c)
  <2> DEFINE ignored == { f \in call[c].found : Ignores(gitignore.text, f) }
  <2>1. ignored \in SUBSET Candidates
    BY <1>1 DEF CallRecord
  <2>2. call' = [call EXCEPT ![c] = [call[c] EXCEPT !.pc = "history", !.ignored = ignored]] \/ AskFails(c)
    BY <1>5 DEF IgnoredPaths
  <2> HIDE DEF ignored
  <2>3. [call[c] EXCEPT !.pc = "history", !.ignored = ignored] \in CallRecord
    BY <1>1, <2>1 DEF CallRecord
  <2>4. QED
    BY <1>1, <1>2, <1>3, <1>4, <2>2, <2>3
<1>6. CASE HistoryPaths(c)
  <2> DEFINE past == Holds(history, c)
  <2>1. past \in SUBSET Candidates
    BY <1>1 DEF CallRecord, Holds
  <2>2. call' = [call EXCEPT ![c] = [call[c] EXCEPT !.pc = "remotes", !.past = past]] \/ AskFails(c)
    BY <1>6 DEF HistoryPaths
  <2> HIDE DEF past
  <2>3. [call[c] EXCEPT !.pc = "remotes", !.past = past] \in CallRecord
    BY <1>1, <2>1 DEF CallRecord
  <2>4. QED
    BY <1>1, <1>2, <1>3, <1>4, <2>2, <2>3
<1>7. CASE Inspect(c)
  <2>1. (\E r \in Results : Returns(c, r)) \/ Go(c, "read")
    BY <1>7, <1>3 DEF Inspect, Results
  <2>2. QED
    BY <2>1, <1>1, <1>2, <1>4, GoTyped
<1>8. QED
  BY <1>5, <1>6, <1>7

LEMMA WriteTyped ==
  ASSUME GuardAssumption, TypeOK, NEW c \in Call,
         Read(c) \/ Place(c) \/ Create(c) \/ Write(c) \/ WriteFails(c) \/ Check(c) \/ Persist(c) \/ Break(c)
  PROVE  /\ call' \in [Call -> CallRecord] /\ calls' \in Nat
         /\ gitignore' \in [kind : {"none", "file", "other"}, text : Seq(Rule)]
<1>1. /\ call \in [Call -> CallRecord] /\ calls \in Nat /\ call[c] \in CallRecord
      /\ gitignore \in [kind : {"none", "file", "other"}, text : Seq(Rule)]
  BY IgnoreTyped
<1>2. ASSUME NEW r \in Results, Returns(c, r)
      PROVE  call' \in [Call -> CallRecord]
  BY <1>2, ReturnsTyped
<1>3. "error" \in Results /\ "added" \in Results
  BY DEF Results
<1>4. calls' = calls
  BY DEF Read, Place, Create, Write, WriteFails, Check, Persist, Break
<1>5. ASSUME NEW pc \in {"create", "check", "persist", "write"}, Go(c, pc)
      PROVE  call' \in [Call -> CallRecord]
  BY <1>5, GoTyped
<1>6. CASE Read(c)
  <2>1. gitignore' = gitignore
    BY <1>6 DEF Read
  <2>2. Returns(c, "error") \/ call' = [call EXCEPT ![c].existing = gitignore.text, ![c].pc = "place"]
    BY <1>6 DEF Read
  <2>3. [call[c] EXCEPT !.existing = gitignore.text, !.pc = "place"] \in CallRecord
    BY <1>1 DEF CallRecord
  <2>4. QED
    BY <1>1, <1>2, <1>3, <1>4, <2>1, <2>2, <2>3
<1>7. CASE Place(c)
  <2>1. gitignore' = gitignore /\ (Returns(c, "error") \/ Go(c, "create") \/ Go(c, "check"))
    BY <1>7 DEF Place
  <2>2. QED
    BY <1>1, <1>2, <1>3, <1>4, <1>5, <2>1
<1>8. ASSUME NEW pc \in {"write", "persist"}, call' = [call EXCEPT ![c].pc = pc, ![c].replaced = FALSE]
      PROVE  call' \in [Call -> CallRecord]
  <2>1. [call[c] EXCEPT !.pc = pc, !.replaced = FALSE] \in CallRecord
    BY <1>1 DEF CallRecord
  <2>2. QED
    BY <1>1, <1>8, <2>1
<1>9. CASE Create(c)
  <2>1. \/ Returns(c, "error") /\ gitignore' = gitignore
        \/ /\ gitignore' = [kind |-> "file", text |-> << >>]
           /\ call' = [call EXCEPT ![c].pc = "write", ![c].replaced = FALSE]
    BY <1>9 DEF Create
  <2>2. [kind |-> "file", text |-> << >>] \in [kind : {"none", "file", "other"}, text : Seq(Rule)]
    OBVIOUS
  <2>3. QED
    BY <1>1, <1>2, <1>3, <1>4, <1>8, <2>1, <2>2
<1>10. CASE Write(c)
  <2>1. \/ Returns(c, "added") /\ gitignore' = gitignore
        \/ Replaces(c, [gitignore EXCEPT !.text = Block(c)])
    BY <1>10 DEF Write
  <2>2. CASE Returns(c, "added") /\ gitignore' = gitignore
    BY <1>1, <1>2, <1>3, <1>4, <2>2
  <2>3. CASE Replaces(c, [gitignore EXCEPT !.text = Block(c)])
    <3>1. /\ gitignore' = [gitignore EXCEPT !.text = Block(c)] /\ call' \in [Call -> CallRecord]
      BY <2>3, ReplacesFacts
    <3>2. QED
      BY <3>1, <1>1, <1>4, MissingFacts
  <2>4. QED
    BY <2>1, <2>2, <2>3
<1>11. CASE WriteFails(c)
  <2>1. /\ Returns(c, "error")
        /\ gitignore' = gitignore \/ gitignore' = [gitignore EXCEPT !.text = <<Comment, NewLine>>]
    BY <1>11 DEF WriteFails
  <2>2. <<Comment, NewLine>> \in Seq(Rule)
    BY DEF Rule
  <2>3. gitignore' \in [kind : {"none", "file", "other"}, text : Seq(Rule)]
    BY <1>1, <2>1, <2>2
  <2>4. QED
    BY <1>1, <1>2, <1>3, <1>4, <2>1, <2>3
<1>12. CASE Check(c)
  <2>1. /\ gitignore' = gitignore
        /\ Returns(c, "error") \/ call' = [call EXCEPT ![c].pc = "persist", ![c].replaced = FALSE]
    BY <1>12 DEF Check
  <2>2. QED
    BY <1>1, <1>2, <1>3, <1>4, <1>8, <2>1
<1>13. CASE Persist(c)
  <2>1. Replaces(c, [kind |-> "file", text |-> Block(c)])
    BY <1>13 DEF Persist
  <2>2. gitignore' = [kind |-> "file", text |-> Block(c)] /\ call' \in [Call -> CallRecord]
    BY <2>1, ReplacesFacts
  <2>3. QED
    BY <2>2, <1>1, <1>4, MissingFacts
<1>14. CASE Break(c)
  <2>1. gitignore' = gitignore /\ Returns(c, "error")
    BY <1>14 DEF Break
  <2>2. QED
    BY <1>1, <1>2, <1>3, <1>4, <2>1
<1>15. QED
  BY <1>6, <1>7, <1>9, <1>10, <1>11, <1>12, <1>13, <1>14

LEMMA NowTyped ==
  ASSUME DOMAIN tree = Candidates
  PROVE  Now \in [there : SUBSET Candidates, ignored : SUBSET Candidates, untracked : SUBSET Candidates,
                 uncommitted : SUBSET Candidates, unpushed : SUBSET Candidates]
BY DEF Now, Managed

LEMMA WatchTyped ==
  ASSUME TypeOK, DOMAIN tree' = Candidates, Watch
  PROVE  since' \in [Call -> [there : SUBSET Candidates, ignored : SUBSET Candidates,
                             untracked : SUBSET Candidates, uncommitted : SUBSET Candidates,
                             unpushed : SUBSET Candidates]]
<1> DEFINE Moments == [there : SUBSET Candidates, ignored : SUBSET Candidates, untracked : SUBSET Candidates,
                       uncommitted : SUBSET Candidates, unpushed : SUBSET Candidates]
<1>1. since \in [Call -> Moments]
  BY DEF TypeOK
<1>2. Now' \in Moments
  BY DEF Now, Managed
<1>3. Nothing \in Moments
  BY DEF Nothing
<1>4. \A c \in Call : Joined(since[c], Now') \in Moments
  <2>1. ASSUME NEW s \in Moments, NEW t \in Moments
        PROVE  Joined(s, t) \in Moments
    BY DEF Joined
  <2>2. QED
    BY <2>1, <1>1, <1>2
<1>5. since' = [c \in Call |-> IF call'[c].kind # "scan" THEN Nothing
                              ELSE IF ~Resting(c) THEN Joined(since[c], Now')
                              ELSE IF Resting(c)' THEN since[c] ELSE Now']
  BY DEF Watch
<1> HIDE DEF Moments
<1>6. QED
  BY <1>1, <1>2, <1>3, <1>4, <1>5 DEF Moments

LEMMA UserTyped ==
  ASSUME GuardAssumption, TypeOK, User
  PROVE  /\ call' \in [Call -> CallRecord] /\ calls' \in Nat /\ edits' \in Nat
         /\ gitignore' \in [kind : {"none", "file", "other"}, text : Seq(Rule)]
         /\ tree' \in [Candidates -> {"none", "file", "large", "symlink"}]
         /\ index' \in SUBSET Candidates
         /\ history' \in SUBSET { FromTop(f) : f \in Candidates }
         /\ remotes' \in SUBSET { FromTop(f) : f \in Candidates }
<1>1. /\ call \in [Call -> CallRecord] /\ calls' = calls /\ edits' = edits + 1 /\ calls \in Nat /\ edits \in Nat
      /\ gitignore \in [kind : {"none", "file", "other"}, text : Seq(Rule)]
      /\ tree \in [Candidates -> {"none", "file", "large", "symlink"}]
      /\ index \in SUBSET Candidates
      /\ history \in SUBSET { FromTop(f) : f \in Candidates }
      /\ remotes \in SUBSET { FromTop(f) : f \in Candidates }
  BY DEF TypeOK, User, Another
<1>2. CASE EditTree
  <2>1. UNCHANGED <<gitignore, index, history, remotes, call>>
    BY <1>2 DEF EditTree, repository
  <2>2. tree' \in [Candidates -> {"none", "file", "large", "symlink"}]
    BY <1>1, <1>2 DEF EditTree
  <2>3. QED
    BY <1>1, <2>1, <2>2
<1>3. CASE EditIgnore
  <2>1. UNCHANGED <<tree, index, history, remotes>>
    BY <1>3 DEF EditIgnore
  <2>2. call' = [b \in Call |-> [call[b] EXCEPT !.replaced = TRUE]]
    BY <1>3 DEF EditIgnore
  <2>3. call' \in [Call -> CallRecord]
    <3>1. ASSUME NEW b \in Call
          PROVE  [call[b] EXCEPT !.replaced = TRUE] \in CallRecord
      <4>1. call[b] \in CallRecord
        BY <1>1
      <4>2. QED
        BY <4>1 DEF CallRecord
    <3>2. QED
      BY <2>2, <3>1
  <2>4. UserRules \subseteq Rule
    <3>1. Candidates \subseteq File /\ DOMAIN tree = Candidates
      BY CandidateFacts, <1>1
    <3>2. QED
      BY <3>1 DEF UserRules, Rule
  <2>5. gitignore' \in [kind : {"none", "file", "other"}, text : Seq(Rule)]
    <3>1. ASSUME NEW rule \in UserRules
          PROVE  gitignore.text \o <<NewLine, rule>> \in Seq(Rule)
      <4>1. rule \in Rule /\ NewLine \in Rule
        BY <2>4 DEF Rule
      <4>2. QED
        BY <4>1, <1>1
    <3>2. PICK text \in Seq(Rule), kind \in {"none", "file"} : gitignore' = [kind |-> kind, text |-> text]
      <4>1. << >> \in Seq(Rule)
        OBVIOUS
      <4>2. QED
        BY <1>3, <3>1, <4>1 DEF EditIgnore
    <3>3. QED
      BY <3>2
  <2>6. QED
    BY <1>1, <2>1, <2>3, <2>5
<1>4. CASE (Track \/ Untrack \/ Commit \/ Push) /\ UNCHANGED <<tree, gitignore, call>>
  <2>1. index' \in SUBSET Candidates
    BY <1>1, <1>4 DEF Track, Untrack, Commit, Push, Managed
  <2>2. history' \in SUBSET { FromTop(f) : f \in Candidates }
    BY <1>1, <1>4 DEF Track, Untrack, Commit, Push
  <2>3. remotes' \in SUBSET { FromTop(f) : f \in Candidates }
    BY <1>1, <1>4 DEF Track, Untrack, Commit, Push
  <2>4. QED
    BY <1>1, <1>4, <2>1, <2>2, <2>3
<1>5. QED
  BY <1>2, <1>3, <1>4 DEF User

LEMMA TypeStep ==
  ASSUME GuardAssumption, TypeOK, Next
  PROVE  TypeOK'
<1>1. CASE User
  <2>1. DOMAIN tree' = Candidates
    BY <1>1, UserTyped
  <2>2. QED
    BY <1>1, <2>1, UserTyped, WatchTyped DEF Next, TypeOK
<1>2. ASSUME NEW c \in Call, Step(c)
      PROVE  TypeOK'
  <2>1. UNCHANGED <<tree, index, history, remotes, edits>>
    BY <1>2 DEF Step
  <2>2. /\ call' \in [Call -> CallRecord] /\ calls' \in Nat
        /\ gitignore' \in [kind : {"none", "file", "other"}, text : Seq(Rule)]
    BY <1>2, WalkTyped, AskTyped, WriteTyped, IgnoreTyped DEF Step
  <2>3. DOMAIN tree' = Candidates
    BY <2>1, IgnoreTyped
  <2>4. QED
    BY <2>1, <2>2, <2>3, WatchTyped DEF Next, TypeOK
<1>3. QED
  BY <1>1, <1>2 DEF Next

LEMMA TypeInit ==
  ASSUME GuardAssumption, Init
  PROVE  TypeOK
<1>1. tree \in [Candidates -> {"none", "file"}] /\ DOMAIN tree = Candidates
  BY DEF Init
<1>2. gitignore \in [kind : {"none", "file", "other"}, text : Seq(Rule)]
  <2>1. << >> \in Seq(Rule)
    OBVIOUS
  <2>2. UserRules \subseteq Rule
    BY <1>1, CandidateFacts DEF UserRules, Rule
  <2>3. StartTexts \subseteq Seq(Rule)
    <3>1. \A rule \in Rule : <<rule>> \in Seq(Rule)
      OBVIOUS
    <3>2. QED
      BY <2>1, <2>2, <3>1 DEF StartTexts
  <2>4. \/ \E kind \in {"none", "other"} : gitignore = [kind |-> kind, text |-> << >>]
        \/ \E text \in StartTexts : gitignore = [kind |-> "file", text |-> text]
    BY DEF Init
  <2>5. CASE \E kind \in {"none", "other"} : gitignore = [kind |-> kind, text |-> << >>]
    BY <2>1, <2>5
  <2>6. CASE \E text \in StartTexts : gitignore = [kind |-> "file", text |-> text]
    <3>1. PICK text \in Seq(Rule) : gitignore = [kind |-> "file", text |-> text]
      BY <2>3, <2>6
    <3>2. QED
      BY <3>1
  <2>7. QED
    BY <2>4, <2>5, <2>6
<1>3. index \in SUBSET Candidates
  BY <1>1 DEF Init, Managed
<1>4. /\ history \in SUBSET { FromTop(f) : f \in Candidates }
      /\ remotes \in SUBSET { FromTop(f) : f \in Candidates }
  BY DEF Init
<1>5. call \in [Call -> CallRecord] /\ calls \in Nat /\ edits \in Nat
  BY CandidateFacts DEF Init
<1>6. since \in [Call -> [there : SUBSET Candidates, ignored : SUBSET Candidates,
                         untracked : SUBSET Candidates, uncommitted : SUBSET Candidates,
                         unpushed : SUBSET Candidates]]
  BY DEF Init, Nothing
<1>7. QED
  BY <1>1, <1>2, <1>3, <1>4, <1>5, <1>6 DEF TypeOK

----------------------------------------------------------------------------
\* Scans of a project at the top of its repository.

LEMMA AtTheTop ==
  ASSUME GuardAssumption, Prefix = << >>, NEW f \in File
  PROVE  FromTop(f) = f
<1>1. f \in [dir : Seq(STRING), name : Seq(STRING)]
  BY DEF GuardAssumption
<1>2. Prefix \o f.dir = f.dir
  BY <1>1
<1>3. FromTop(f) = [f EXCEPT !.dir = f.dir]
  BY <1>2 DEF FromTop
<1>4. QED
  BY <1>1, <1>3

\* What is read later can only add to what was seen, and what is no longer there is taken away.
LEMMA JoinedFacts ==
  ASSUME NEW scan, NEW seen, NEW now, Follows(scan, seen)
  PROVE  Covers(Joined(seen, now), now) /\ Follows(scan, Joined(seen, now))
<1> DEFINE j == Joined(seen, now)
<1>1. /\ j.there = seen.there \cap now.there /\ j.ignored = seen.ignored \cup now.ignored
      /\ j.untracked = seen.untracked \cup now.untracked
      /\ j.uncommitted = seen.uncommitted \cup now.uncommitted
      /\ j.unpushed = seen.unpushed \cup now.unpushed
  BY DEF Joined
<1> HIDE DEF j
<1>2. Covers(j, now)
  BY <1>1 DEF Covers
<1>3. Follows(scan, j)
  BY <1>1 DEF Follows
<1>4. QED
  BY <1>2, <1>3 DEF j

Holding(c) == At(c, "done") /\ call[c].result = "protected" =>
    since[c].there \subseteq since[c].ignored \cap since[c].untracked \cap since[c].uncommitted
                               \cap since[c].unpushed

LEMMA NothingHolds ==
  ASSUME NEW c \in Call, since'[c] = Nothing
  PROVE  Holding(c)'
BY DEF Holding, Nothing

\* A call in which nothing happens but that somebody else replaced the file.
LEMMA OthersScan ==
  ASSUME ScanInv, Watch, NEW c \in Call,
         call'[c].pc = call[c].pc, call'[c].kind = call[c].kind, call'[c].todo = call[c].todo,
         call'[c].found = call[c].found, call'[c].tracked = call[c].tracked,
         call'[c].ignored = call[c].ignored, call'[c].past = call[c].past,
         call'[c].result = call[c].result
  PROVE  ScanSaw(c)' /\ Holding(c)'
<1>1. /\ since'[c] = IF call'[c].kind # "scan" THEN Nothing
                     ELSE IF ~Resting(c) THEN Joined(since[c], Now')
                     ELSE IF Resting(c)' THEN since[c] ELSE Now'
  BY DEF Watch
<1>2. Resting(c)' = Resting(c)
  BY DEF Resting
<1>3. ScanSaw(c) /\ Holding(c)
  BY DEF ScanInv, ProtectedIsTrue, Holding
<1>4. CASE call[c].kind # "scan"
  BY <1>1, <1>4, NothingHolds DEF ScanSaw
<1>5. CASE call[c].kind = "scan" /\ Resting(c)
  <2>1. since'[c] = since[c]
    BY <1>1, <1>2, <1>5
  <2>2. QED
    BY <2>1, <1>2, <1>3, <1>5 DEF ScanSaw, Holding, At
<1>6. CASE call[c].kind = "scan" /\ ~Resting(c)
  <2>1. since'[c] = Joined(since[c], Now')
    BY <1>1, <1>6
  <2>2. Follows(call[c], since[c])
    BY <1>3, <1>6 DEF ScanSaw
  <2>3. Follows(call'[c], since[c])
    BY <2>2 DEF Follows
  <2>4. Covers(since'[c], Now') /\ Follows(call'[c], since'[c])
    BY <2>1, <2>3, JoinedFacts
  <2>5. Holding(c)'
    BY <1>2, <1>6 DEF Holding, At, Resting
  <2>6. QED
    BY <2>4, <2>5, <1>6 DEF ScanSaw
<1>7. QED
  BY <1>4, <1>5, <1>6

\* A step of a scan on its way that is not its last.
LEMMA ScanGoesOn ==
  ASSUME ScanInv, Watch, NEW c \in Call, ~Resting(c), call'[c].kind = call[c].kind,
         call'[c].pc # "done",
         call[c].kind = "scan" => Follows(call'[c], since[c])
  PROVE  ScanSaw(c)' /\ Holding(c)'
<1>1. since'[c] = IF call[c].kind # "scan" THEN Nothing ELSE Joined(since[c], Now')
  BY DEF Watch
<1>2. Holding(c)'
  BY DEF Holding, At
<1>3. CASE call[c].kind # "scan"
  BY <1>1, <1>2, <1>3 DEF ScanSaw
<1>4. CASE call[c].kind = "scan"
  <2>1. Covers(since'[c], Now') /\ Follows(call'[c], since'[c])
    BY <1>1, <1>4, JoinedFacts
  <2>2. QED
    BY <2>1, <1>2, <1>4 DEF ScanSaw
<1>5. QED
  BY <1>3, <1>4

\* The last step of a scan.
LEMMA ScanEnds ==
  ASSUME ScanInv, Watch, NEW c \in Call, ~Resting(c), NEW r,
         call'[c].pc = "done", call'[c].kind = call[c].kind, call'[c].result = r,
         r = "protected" /\ call[c].kind = "scan" =>
           since[c].there \subseteq since[c].ignored \cap since[c].untracked \cap since[c].uncommitted
                                      \cap since[c].unpushed
  PROVE  ScanSaw(c)' /\ Holding(c)'
<1>1. call'[c].pc = "done" /\ call'[c].kind = call[c].kind /\ call'[c].result = r
  OBVIOUS
<1>2. since'[c] = IF call[c].kind # "scan" THEN Nothing ELSE Joined(since[c], Now')
  BY <1>1 DEF Watch
<1>3. ScanSaw(c)'
  BY <1>1, <1>2 DEF ScanSaw, Resting
<1>4. CASE call[c].kind # "scan"
  BY <1>2, <1>3, <1>4, NothingHolds
<1>5. CASE call[c].kind = "scan"
  <2>1. /\ since'[c].there \subseteq since[c].there /\ since[c].ignored \subseteq since'[c].ignored
        /\ since[c].untracked \subseteq since'[c].untracked
        /\ since[c].uncommitted \subseteq since'[c].uncommitted
        /\ since[c].unpushed \subseteq since'[c].unpushed
    BY <1>2, <1>5 DEF Joined
  <2>2. Holding(c)'
    BY <2>1, <1>1, <1>5 DEF Holding
  <2>3. QED
    BY <2>2, <1>3
<1>6. QED
  BY <1>4, <1>5

LEMMA BeginScan ==
  ASSUME ScanInv, Watch, NEW c \in Call, \E kind \in {"scan", "guard"} : Begin(c, kind),
         UNCHANGED <<tree, gitignore, index, history, remotes>>
  PROVE  ScanSaw(c)' /\ Holding(c)'
<1>1. call \in [Call -> CallRecord] /\ DOMAIN tree = Candidates
  BY IgnoreTyped DEF ScanInv
<1>2. PICK kind \in {"scan", "guard"} : Begin(c, kind)
  OBVIOUS
<1>3. /\ Resting(c)
      /\ call' = [call EXCEPT ![c] = [NoCall EXCEPT !.pc = "visit", !.kind = kind, !.todo = DOMAIN tree]]
  BY <1>2 DEF Begin, Resting
<1>4. call'[c].pc = "visit" /\ call'[c].kind = kind /\ call'[c].todo = Candidates
  BY <1>1, <1>3 DEF NoCall
<1>5. since'[c] = IF kind # "scan" THEN Nothing ELSE Now'
  BY <1>3, <1>4 DEF Watch, Resting
<1>6. Holding(c)'
  BY <1>4 DEF Holding, At
<1>7. CASE kind # "scan"
  BY <1>4, <1>5, <1>6, <1>7 DEF ScanSaw
<1>8. CASE kind = "scan"
  <2>1. since'[c] = Now'
    BY <1>5, <1>8
  <2>2. Now'.there \subseteq Candidates
    BY <1>1 DEF Now, Managed
  <2>3. Covers(since'[c], Now')
    BY <2>1 DEF Covers
  <2>4. Follows(call'[c], since'[c])
    BY <2>1, <2>2, <1>4 DEF Follows
  <2>5. QED
    BY <2>3, <2>4, <1>4, <1>6, <1>8 DEF ScanSaw
<1>9. QED
  BY <1>7, <1>8

\* What the invariant says of a scan on its way.
LEMMA ScanFacts ==
  ASSUME ScanInv, NEW c \in Call, call[c].kind = "scan", ~Resting(c)
  PROVE  Covers(since[c], Now) /\ Follows(call[c], since[c])
BY DEF ScanInv, ScanSaw

LEMMA VisitScan ==
  ASSUME GuardAssumption, ScanInv, Watch, NEW c \in Call, Visit(c)
  PROVE  ScanSaw(c)' /\ Holding(c)'
<1>1. call \in [Call -> CallRecord] /\ call[c] \in CallRecord /\ TypeOK
  BY IgnoreTyped DEF ScanInv
<1>2. ~Resting(c) /\ call[c].pc = "visit"
  BY DEF Visit, At, Resting
<1>3. PICK f \in call[c].todo :
        IF tree[f] = "large" THEN Returns(c, "error")
        ELSE call' = [call EXCEPT ![c].todo = @ \ {f}, ![c].found = @ \cup ({f} \cap Managed)]
  BY DEF Visit
<1>4. CASE tree[f] = "large"
  <2>1. /\ call'[c].pc = "done" /\ call'[c].kind = call[c].kind /\ call'[c].result = "error"
    BY <1>1, <1>3, <1>4, ReturnsTyped DEF Results
  <2>2. QED
    BY <2>1, <1>2, ScanEnds
<1>5. CASE tree[f] # "large"
  <2>1. call' = [call EXCEPT ![c] =
                [call[c] EXCEPT !.todo = call[c].todo \ {f}, 
                                !.found = call[c].found \cup ({f} \cap Managed)]]
    BY <1>3, <1>5
  <2>2. /\ call'[c].pc = "visit" /\ call'[c].kind = call[c].kind /\ call'[c].todo = call[c].todo \ {f}
        /\ call'[c].found = call[c].found \cup ({f} \cap Managed)
    BY <2>1, <1>1, <1>2 DEF CallRecord
  <2>3. ASSUME call[c].kind = "scan"
        PROVE  Follows(call'[c], since[c])
    <3>1. Covers(since[c], Now) /\ Follows(call[c], since[c])
      BY <2>3, <1>2, ScanFacts
    <3>2. since[c].there \subseteq Managed /\ since[c].there \subseteq call[c].found \cup call[c].todo
      BY <3>1, <1>2 DEF Covers, Now, Follows
    <3>3. QED
      BY <2>2, <3>2 DEF Follows
  <2>4. QED
    BY <2>2, <2>3, <1>2, ScanGoesOn
<1>6. QED
  BY <1>4, <1>5

LEMMA RefusedScan ==
  ASSUME GuardAssumption, ScanInv, Watch, NEW c \in Call, ~Resting(c),
         NEW r \in Results \ {"protected"}, Returns(c, r)
  PROVE  ScanSaw(c)' /\ Holding(c)'
<1>1. call'[c].pc = "done" /\ call'[c].kind = call[c].kind /\ call'[c].result = r
  BY ReturnsTyped DEF ScanInv
<1>2. QED
  BY <1>1, ScanEnds

LEMMA WalkScan ==
  ASSUME GuardAssumption, ScanInv, Watch, NEW c \in Call, Visited(c) \/ Load(c) \/ Open(c)
  PROVE  ScanSaw(c)' /\ Holding(c)'
<1>1. call \in [Call -> CallRecord] /\ call[c] \in CallRecord /\ DOMAIN tree = Candidates
  BY IgnoreTyped DEF ScanInv
<1>2. ~Resting(c)
  BY DEF Visited, Load, Open, At, Resting
<1>3. \A r \in Results \ {"protected"} : Returns(c, r) => ScanSaw(c)' /\ Holding(c)'
  BY <1>2, RefusedScan
<1>4. call[c].kind = "scan" => Covers(since[c], Now) /\ Follows(call[c], since[c])
  BY <1>2, ScanFacts
<1>5. CASE Visited(c)
  <2>1. call'[c].pc \in {"load", "open"} /\ call'[c].kind = call[c].kind /\ call'[c].found = call[c].found
    BY <1>1, <1>5 DEF Visited, Go, CallRecord
  <2>2. call[c].kind = "scan" => Follows(call'[c], since[c])
    BY <2>1, <1>4, <1>5 DEF Visited, At, Follows
  <2>3. QED
    BY <2>1, <2>2, <1>2, ScanGoesOn
<1>6. CASE Load(c) /\ Go(c, "open")
  <2>1. call'[c].pc = "open" /\ call'[c].kind = call[c].kind /\ call'[c].found = call[c].found
    BY <1>1, <1>6 DEF Go, CallRecord
  <2>2. call[c].kind = "scan" => Follows(call'[c], since[c])
    BY <2>1, <1>4, <1>6 DEF Load, At, Follows
  <2>3. QED
    BY <2>1, <2>2, <1>2, ScanGoesOn
<1>7. CASE Open(c) /\ call' = [call EXCEPT ![c].pc = "ignored", ![c].tracked = index]
  <2>1. call' = [call EXCEPT ![c] = [call[c] EXCEPT !.pc = "ignored", !.tracked = index]]
    BY <1>7
  <2>2. /\ call'[c].pc = "ignored" /\ call'[c].kind = call[c].kind /\ call'[c].found = call[c].found
        /\ call'[c].tracked = index
    BY <2>1, <1>1 DEF CallRecord
  <2>3. ASSUME call[c].kind = "scan"
        PROVE  Follows(call'[c], since[c])
    <3>1. Candidates \ index \subseteq since[c].untracked
      BY <2>3, <1>1, <1>4 DEF Covers, Now
    <3>2. since[c].there \subseteq call[c].found
      BY <2>3, <1>4, <1>7 DEF Follows, Open, At
    <3>3. QED
      BY <2>2, <3>1, <3>2 DEF Follows
  <2>4. QED
    BY <2>2, <2>3, <1>2, ScanGoesOn
<1>8. QED
  <2>1. Load(c) => Go(c, "open") \/ \E r \in Results \ {"protected"} : Returns(c, r)
    BY DEF Load, Results
  <2>2. Open(c) => \/ call' = [call EXCEPT ![c].pc = "ignored", ![c].tracked = index]
                   \/ \E r \in Results \ {"protected"} : Returns(c, r)
    BY DEF Open, Refuses, Results
  <2>3. QED
    BY <2>1, <2>2, <1>3, <1>5, <1>6, <1>7

LEMMA AskScan ==
  ASSUME GuardAssumption, Prefix = << >>, ScanInv, Watch, NEW c \in Call,
         IgnoredPaths(c) \/ HistoryPaths(c) \/ Inspect(c)
  PROVE  ScanSaw(c)' /\ Holding(c)'
<1>1. call \in [Call -> CallRecord] /\ call[c] \in CallRecord /\ DOMAIN tree = Candidates /\ TypeOK
  BY IgnoreTyped DEF ScanInv
<1>2. ~Resting(c)
  BY DEF IgnoredPaths, HistoryPaths, Inspect, At, Resting
<1>3. \A r \in Results \ {"protected"} : Returns(c, r) => ScanSaw(c)' /\ Holding(c)'
  BY <1>2, RefusedScan
<1>4. AskFails(c) => ScanSaw(c)' /\ Holding(c)'
  BY <1>3 DEF AskFails, Refuses, Results
<1>5. call[c].kind = "scan" => Covers(since[c], Now) /\ Follows(call[c], since[c])
  BY <1>2, ScanFacts
<1>6. call[c].found \subseteq Candidates /\ \A f \in call[c].found : FromTop(f) = f
  BY <1>1, CandidateFacts, AtTheTop DEF CallRecord
<1>7. ASSUME NEW paths
      PROVE  Holds(paths, c) = call[c].found \cap paths
  BY <1>6 DEF Holds, Logged
<1>8. CASE IgnoredPaths(c)
  <2> DEFINE ignored == { f \in call[c].found : Ignores(gitignore.text, f) }
  <2>1. AskFails(c) \/ call' = [call EXCEPT ![c] = [call[c] EXCEPT !.pc = "history", !.ignored = ignored]]
    BY <1>8 DEF IgnoredPaths
  <2>2. ignored \subseteq Now.ignored
    BY <1>1, <1>6 DEF Now
  <2> HIDE DEF ignored
  <2>3. CASE call' = [call EXCEPT ![c] = [call[c] EXCEPT !.pc = "history", !.ignored = ignored]]
    <3>1. /\ call'[c].pc = "history" /\ call'[c].kind = call[c].kind /\ call'[c].found = call[c].found
          /\ call'[c].tracked = call[c].tracked /\ call'[c].ignored = ignored
      BY <2>3, <1>1 DEF CallRecord
    <3>2. call[c].kind = "scan" => Follows(call'[c], since[c])
      BY <3>1, <2>2, <1>5, <1>8 DEF IgnoredPaths, At, Follows, Covers
    <3>3. QED
      BY <3>1, <3>2, <1>2, ScanGoesOn
  <2>4. QED
    BY <2>1, <2>3, <1>4
<1>9. CASE HistoryPaths(c)
  <2> DEFINE past == Holds(history, c)
  <2>1. AskFails(c) \/ call' = [call EXCEPT ![c] = [call[c] EXCEPT !.pc = "remotes", !.past = past]]
    BY <1>9 DEF HistoryPaths
  <2>2. call[c].found \ past \subseteq Now.uncommitted
    BY <1>1, <1>6, <1>7 DEF Now
  <2> HIDE DEF past
  <2>3. CASE call' = [call EXCEPT ![c] = [call[c] EXCEPT !.pc = "remotes", !.past = past]]
    <3>1. /\ call'[c].pc = "remotes" /\ call'[c].kind = call[c].kind /\ call'[c].found = call[c].found
          /\ call'[c].tracked = call[c].tracked /\ call'[c].ignored = call[c].ignored /\ call'[c].past = past
      BY <2>3, <1>1 DEF CallRecord
    <3>2. call[c].kind = "scan" => Follows(call'[c], since[c])
      BY <3>1, <2>2, <1>5, <1>9 DEF HistoryPaths, At, Follows, Covers
    <3>3. QED
      BY <3>1, <3>2, <1>2, ScanGoesOn
  <2>4. QED
    BY <2>1, <2>3, <1>4
<1>10. CASE Inspect(c)
  <2>1. CASE Go(c, "read") /\ Guards(c)
    <3>1. call'[c].pc = "read" /\ call'[c].kind = call[c].kind /\ call[c].kind # "scan"
      BY <2>1, <1>1 DEF Go, CallRecord, Guards
    <3>2. QED
      BY <3>1, <1>2, ScanGoesOn
  <2>2. CASE Returns(c, "protected") /\ Unsafe(c, Holds(remotes, c)) = {}
    <3>1. call'[c].pc = "done" /\ call'[c].kind = call[c].kind /\ call'[c].result = "protected"
      BY <2>2, <1>1, ReturnsTyped DEF Results
    <3>2. ASSUME call[c].kind = "scan"
          PROVE  since[c].there \subseteq since[c].ignored \cap since[c].untracked
                                            \cap since[c].uncommitted \cap since[c].unpushed
      <4>1. Covers(since[c], Now) /\ Follows(call[c], since[c]) /\ call[c].pc = "remotes"
        BY <3>2, <1>5, <1>10 DEF Inspect, At
      <4>2. since[c].there \subseteq call[c].found
        BY <4>1 DEF Follows
      <4>3. call[c].found \subseteq since[c].ignored
        BY <2>2, <4>1 DEF Unsafe, Missing, Follows
      <4>4. call[c].found \subseteq since[c].untracked
        BY <2>2, <4>1, <1>6 DEF Unsafe, Follows
      <4>5. call[c].found \subseteq since[c].uncommitted
        BY <2>2, <4>1 DEF Unsafe, Follows
      <4>6. call[c].found \subseteq Now.unpushed
        <5>1. call[c].found \cap remotes = {}
          BY <2>2, <1>7 DEF Unsafe
        <5>2. QED
          BY <5>1, <1>1, <1>6 DEF Now
      <4>7. call[c].found \subseteq since[c].unpushed
        BY <4>1, <4>6 DEF Covers
      <4>8. QED
        BY <4>2, <4>3, <4>4, <4>5, <4>7
    <3>3. QED
      BY <3>1, <3>2, <1>2, ScanEnds
  <2>3. \/ \E r \in Results \ {"protected"} : Returns(c, r)
        \/ AskFails(c)
        \/ Go(c, "read") /\ Guards(c)
        \/ Returns(c, "protected") /\ Unsafe(c, Holds(remotes, c)) = {}
    BY <1>10 DEF Inspect, Results
  <2>4. QED
    BY <2>1, <2>2, <2>3, <1>3, <1>4
<1>11. QED
  BY <1>8, <1>9, <1>10

LEMMA WriteScan ==
  ASSUME GuardAssumption, ScanInv, Watch, NEW c \in Call,
         Read(c) \/ Place(c) \/ Create(c) \/ Write(c) \/ WriteFails(c) \/ Check(c) \/ Persist(c) \/ Break(c)
  PROVE  ScanSaw(c)' /\ Holding(c)'
<1>1. call \in [Call -> CallRecord] /\ call[c] \in CallRecord /\ TypeOK
  BY IgnoreTyped DEF ScanInv
<1>2. ~Resting(c)
  BY DEF Read, Place, Create, Write, WriteFails, Check, Persist, Break, At, Resting
<1>3. \A r \in Results \ {"protected"} : Returns(c, r) => ScanSaw(c)' /\ Holding(c)'
  BY <1>2, RefusedScan
<1>4. ASSUME NEW new, Replaces(c, new)
      PROVE  ScanSaw(c)' /\ Holding(c)'
  <2>1. call'[c].pc = "done" /\ call'[c].kind = call[c].kind /\ call'[c].result = "added"
    BY <1>1, <1>4, ReplacesFacts
  <2>2. QED
    BY <2>1, <1>2, ScanEnds
<1>5. ASSUME call[c].pc # "visit", NEW pc \in {"place", "create", "check", "write", "persist"},
             call'[c].pc = pc, call'[c].kind = call[c].kind, call'[c].found = call[c].found
      PROVE  ScanSaw(c)' /\ Holding(c)'
  <2>1. call[c].kind = "scan" => Follows(call'[c], since[c])
    BY <1>2, <1>5, ScanFacts DEF Follows
  <2>2. QED
    BY <2>1, <1>2, <1>5, ScanGoesOn
<1>6. \/ \E r \in Results \ {"protected"} : Returns(c, r)
      \/ \E new : Replaces(c, new)
      \/ /\ call[c].pc # "visit"
         /\ \/ call' = [call EXCEPT ![c].existing = gitignore.text, ![c].pc = "place"]
            \/ \E pc \in {"create", "check"} : Go(c, pc)
            \/ \E pc \in {"write", "persist"} : call' = [call EXCEPT ![c].pc = pc, ![c].replaced = FALSE]
  BY DEF Read, Place, Create, Write, WriteFails, Check, Persist, Break, At, Results
<1>7. CASE call' = [call EXCEPT ![c].existing = gitignore.text, ![c].pc = "place"] /\ call[c].pc # "visit"
  <2>1. call' = [call EXCEPT ![c] = [call[c] EXCEPT !.existing = gitignore.text, !.pc = "place"]]
    BY <1>7
  <2>2. call'[c].pc = "place" /\ call'[c].kind = call[c].kind /\ call'[c].found = call[c].found
    BY <2>1, <1>1 DEF CallRecord
  <2>3. QED
    BY <2>2, <1>5, <1>7
<1>8. ASSUME NEW pc \in {"create", "check"}, Go(c, pc), call[c].pc # "visit"
      PROVE  ScanSaw(c)' /\ Holding(c)'
  <2>1. call'[c].pc = pc /\ call'[c].kind = call[c].kind /\ call'[c].found = call[c].found
    BY <1>8, <1>1 DEF Go, CallRecord
  <2>2. QED
    BY <2>1, <1>5, <1>8
<1>9. ASSUME NEW pc \in {"write", "persist"}, call[c].pc # "visit",
             call' = [call EXCEPT ![c].pc = pc, ![c].replaced = FALSE]
      PROVE  ScanSaw(c)' /\ Holding(c)'
  <2>1. call' = [call EXCEPT ![c] = [call[c] EXCEPT !.pc = pc, !.replaced = FALSE]]
    BY <1>9
  <2>2. call'[c].pc = pc /\ call'[c].kind = call[c].kind /\ call'[c].found = call[c].found
    BY <2>1, <1>1 DEF CallRecord
  <2>3. QED
    BY <2>2, <1>5, <1>9
<1>10. QED
  BY <1>3, <1>4, <1>6, <1>7, <1>8, <1>9

\* What a step of one call leaves of another.
LEMMA OtherCall ==
  ASSUME TypeOK, NEW c \in Call, Step(c), NEW d \in Call, d # c
  PROVE  call'[d] = call[d] \/ call'[d] = [call[d] EXCEPT !.replaced = TRUE]
<1>1. call \in [Call -> CallRecord]
  BY DEF TypeOK
<1>2. (\E x : call' = [call EXCEPT ![c] = x]) \/ \E new : Replaces(c, new)
  BY DEF Step, Begin, Visit, Visited, Load, Open, IgnoredPaths, HistoryPaths, Inspect, Read, Place, Create,
         Write, WriteFails, Check, Persist, Break, Go, Returns, Refuses, AskFails
<1>3. QED
  BY <1>1, <1>2 DEF Replaces

LEMMA UserCall ==
  ASSUME TypeOK, User, NEW d \in Call
  PROVE  call'[d] = call[d] \/ call'[d] = [call[d] EXCEPT !.replaced = TRUE]
BY DEF User, EditTree, EditIgnore

LEMMA ReplacedOnly ==
  ASSUME TypeOK, NEW d \in Call, call'[d] = call[d] \/ call'[d] = [call[d] EXCEPT !.replaced = TRUE]
  PROVE  /\ call'[d].pc = call[d].pc /\ call'[d].kind = call[d].kind /\ call'[d].todo = call[d].todo
         /\ call'[d].found = call[d].found /\ call'[d].tracked = call[d].tracked
         /\ call'[d].ignored = call[d].ignored /\ call'[d].past = call[d].past
         /\ call'[d].result = call[d].result /\ call'[d].existing = call[d].existing
         /\ call'[d].replaced = call[d].replaced \/ call'[d].replaced
<1>1. call[d] \in CallRecord
  BY DEF TypeOK
<1>2. QED
  BY <1>1 DEF CallRecord

LEMMA ScanStep ==
  ASSUME GuardAssumption, Prefix = << >>, ScanInv, Next
  PROVE  ScanInv'
<1>1. TypeOK /\ TypeOK' /\ Watch
  BY TypeStep DEF ScanInv, Next
<1>2. ASSUME NEW d \in Call, call'[d] = call[d] \/ call'[d] = [call[d] EXCEPT !.replaced = TRUE]
      PROVE  ScanSaw(d)' /\ Holding(d)'
  BY <1>1, <1>2, ReplacedOnly, OthersScan
<1>3. ASSUME NEW d \in Call
      PROVE  ScanSaw(d)' /\ Holding(d)'
  <2>1. CASE User
    BY <2>1, <1>1, <1>2, UserCall
  <2>2. ASSUME NEW c \in Call, Step(c), c # d
        PROVE  ScanSaw(d)' /\ Holding(d)'
    BY <2>2, <1>1, <1>2, OtherCall
  <2>3. CASE Step(d)
    BY <2>3, <1>1, BeginScan, VisitScan, WalkScan, AskScan, WriteScan DEF Step
  <2>4. QED
    BY <2>1, <2>2, <2>3 DEF Next
<1>4. QED
  BY <1>1, <1>3 DEF ScanInv, ProtectedIsTrue, Holding

LEMMA ScanInit ==
  ASSUME GuardAssumption, Init
  PROVE  ScanInv
<1>1. \A c \in Call : call[c] = NoCall /\ since[c] = Nothing
  BY DEF Init
<1>2. QED
  BY <1>1, TypeInit, CandidateFacts DEF ScanInv, ScanSaw, ProtectedIsTrue, At, Resting

\* The invariant speaks of the variables only.
LEMMA ScanStutter ==
  ASSUME GuardAssumption, ScanInv, UNCHANGED vars
  PROVE  ScanInv'
<1>1. /\ tree' = tree /\ gitignore' = gitignore /\ index' = index /\ history' = history /\ remotes' = remotes
      /\ call' = call /\ calls' = calls /\ edits' = edits /\ since' = since
  BY DEF vars
<1>2. TypeOK'
  BY <1>1 DEF ScanInv, TypeOK
<1>3. Now' = Now
  BY <1>1 DEF Now, Managed, Ignores
<1>4. ASSUME NEW c \in Call
      PROVE  ScanSaw(c)' /\ Holding(c)'
  <2>1. ScanSaw(c) /\ Holding(c)
    BY DEF ScanInv, ProtectedIsTrue, Holding
  <2>2. QED
    BY <1>1, <1>3, <2>1 DEF ScanSaw, Holding, At, Resting
<1>5. QED
  BY <1>2, <1>4 DEF ScanInv, ProtectedIsTrue, Holding

\* A scan of a project at the top of its repository (git_safety.rs, discovery.rs) has found what
\* was there all the time, and knows of it what was so when it asked.
THEOREM ScanInvariant == GuardAssumption /\ Prefix = << >> => (Spec => []ScanInv)
<1> SUFFICES ASSUME GuardAssumption, Prefix = << >>
             PROVE  Spec => []ScanInv
  OBVIOUS
<1>1. ScanInv /\ [Next]_vars => ScanInv'
  BY ScanStep, ScanStutter
<1>2. QED
  BY <1>1, ScanInit, PTL DEF Spec

\* A project at the top of its repository that is shown as protected is protected
\* (inspect_git_safety, git_safety.rs): of every file that was there all the time each of the
\* four answers was true at some moment of the scan, whatever the user did meanwhile.
THEOREM ProtectedFilesAreSafe == GuardAssumption /\ Prefix = << >> => (Spec => []ProtectedIsTrue)
<1> SUFFICES ASSUME GuardAssumption, Prefix = << >>
             PROVE  Spec => []ProtectedIsTrue
  OBVIOUS
<1>1. Spec => []ScanInv
  BY ScanInvariant
<1>2. ScanInv => ProtectedIsTrue
  BY DEF ScanInv
<1>3. QED
  BY <1>1, <1>2, PTL

----------------------------------------------------------------------------
\* Guards and the rules there are.

\* A call that has returned, or is not yet about to write, holds nothing the invariant speaks of.
LEMMA NoRulesInHand ==
  ASSUME NEW c \in Call, call'[c].pc \notin {"create", "write", "persist"},
         call'[c].pc = "done" \/ call'[c].result = "none"
  PROVE  HasTheRules(c)'
BY DEF HasTheRules, Resting, At

Walking == {"visit", "load", "open", "ignored", "history", "remotes", "read"}

\* A step of the walk, or a question to Git.
LEMMA WalkGuard ==
  ASSUME GuardAssumption, GuardInv, NEW c \in Call,
         \/ \E kind \in {"scan", "guard"} : Begin(c, kind)
         \/ Visit(c) \/ Visited(c) \/ Load(c) \/ Open(c)
         \/ IgnoredPaths(c) \/ HistoryPaths(c) \/ Inspect(c)
  PROVE  call'[c].pc # "write" /\ HasTheRules(c)' /\ \A d \in Call : d # c => call'[d] = call[d]
<1>1. call \in [Call -> CallRecord] /\ call[c] \in CallRecord /\ TypeOK
  BY IgnoreTyped DEF GuardInv
<1>2. \E x : call' = [call EXCEPT ![c] = x]
  BY DEF Begin, Visit, Visited, Load, Open, IgnoredPaths, HistoryPaths, Inspect, Go, Returns, Refuses, AskFails
<1>3. \A d \in Call : d # c => call'[d] = call[d]
  BY <1>1, <1>2
<1>4. ~Resting(c) => call[c].result = "none"
  BY DEF GuardInv, HasTheRules
<1>5. \A r \in Results : Returns(c, r) => call'[c].pc = "done"
  BY <1>1, ReturnsTyped
<1>6. ASSUME NEW pc \in Walking, Go(c, pc), ~Resting(c)
      PROVE  call'[c].pc = pc /\ call'[c].result = "none"
  BY <1>1, <1>4, <1>6 DEF Go, CallRecord
<1>7. CASE \E kind \in {"scan", "guard"} : Begin(c, kind)
  <2>1. call'[c].pc = "visit" /\ call'[c].result = "none"
    BY <1>1, <1>7 DEF Begin, NoCall
  <2>2. QED
    BY <2>1, <1>3, NoRulesInHand
<1>8. ASSUME ~Resting(c),
             \/ \E r \in Results : Returns(c, r)
             \/ \E pc \in Walking : Go(c, pc)
             \/ call'[c].pc \in Walking /\ call'[c].result = "none"
      PROVE  call'[c].pc # "write" /\ HasTheRules(c)'
  <2>1. \/ call'[c].pc = "done"
        \/ call'[c].pc \in Walking /\ call'[c].result = "none"
    <3>1. CASE \E r \in Results : Returns(c, r)
      <4>1. PICK r \in Results : Returns(c, r)
        BY <3>1
      <4>2. QED
        BY <4>1, <1>1, ReturnsTyped
    <3>2. CASE \E pc \in Walking : Go(c, pc)
      <4>1. PICK pc \in Walking : Go(c, pc)
        BY <3>2
      <4>2. call'[c].pc = pc /\ call'[c].result = "none"
        BY <4>1, <1>6, <1>8
      <4>3. QED
        BY <4>2
    <3>3. QED
      BY <3>1, <3>2, <1>8
  <2>2. QED
    BY <2>1, NoRulesInHand DEF Walking
<1>9. CASE Visit(c)
  <2>1. ~Resting(c) /\ call[c].pc = "visit"
    BY <1>9 DEF Visit, At, Resting
  <2>2. PICK f \in call[c].todo :
          IF tree[f] = "large" THEN Returns(c, "error")
          ELSE call' = [call EXCEPT ![c].todo = @ \ {f}, ![c].found = @ \cup ({f} \cap Managed)]
    BY <1>9 DEF Visit
  <2>3. CASE Returns(c, "error")
    BY <2>1, <2>3, <1>3, <1>8 DEF Results
  <2>4. CASE call' = [call EXCEPT ![c].todo = @ \ {f}, ![c].found = @ \cup ({f} \cap Managed)]
    <3>1. call' = [call EXCEPT ![c] =
                  [call[c] EXCEPT !.todo = call[c].todo \ {f}, 
                                  !.found = call[c].found \cup ({f} \cap Managed)]]
      BY <2>4
    <3>2. call'[c].pc = "visit" /\ call'[c].result = "none"
      BY <3>1, <2>1, <1>1, <1>4 DEF CallRecord
    <3>3. QED
      BY <3>2, <2>1, <1>3, <1>8 DEF Walking
  <2>5. QED
    BY <2>2, <2>3, <2>4
<1>10. CASE Visited(c) \/ Load(c)
  <2>1. ~Resting(c) /\ (Go(c, "load") \/ Go(c, "open") \/ Returns(c, "error"))
    BY <1>10 DEF Visited, Load, At, Resting
  <2>2. QED
    BY <2>1, <1>3, <1>8 DEF Walking, Results
<1>11. CASE Open(c)
  <2>1. ~Resting(c)
    BY <1>11 DEF Open, At, Resting
  <2>2. \/ \E r \in Results : Returns(c, r)
        \/ call' = [call EXCEPT ![c] = [call[c] EXCEPT !.pc = "ignored", !.tracked = index]]
    BY <1>11 DEF Open, Refuses, Results
  <2>3. ASSUME call' = [call EXCEPT ![c] = [call[c] EXCEPT !.pc = "ignored", !.tracked = index]]
        PROVE  call'[c].pc \in Walking /\ call'[c].result = "none"
    BY <2>1, <2>3, <1>1, <1>4 DEF CallRecord, Walking
  <2>4. QED
    BY <2>1, <2>2, <2>3, <1>3, <1>8
<1>12. CASE IgnoredPaths(c)
  <2> DEFINE ignored == { f \in call[c].found : Ignores(gitignore.text, f) }
  <2>1. ~Resting(c)
    BY <1>12 DEF IgnoredPaths, At, Resting
  <2>2. \/ \E r \in Results : Returns(c, r)
        \/ call' = [call EXCEPT ![c] = [call[c] EXCEPT !.pc = "history", !.ignored = ignored]]
    BY <1>12 DEF IgnoredPaths, AskFails, Refuses, Results
  <2> HIDE DEF ignored
  <2>3. ASSUME call' = [call EXCEPT ![c] = [call[c] EXCEPT !.pc = "history", !.ignored = ignored]]
        PROVE  call'[c].pc \in Walking /\ call'[c].result = "none"
    BY <2>1, <2>3, <1>1, <1>4 DEF CallRecord, Walking
  <2>4. QED
    BY <2>1, <2>2, <2>3, <1>3, <1>8
<1>13. CASE HistoryPaths(c)
  <2> DEFINE past == Holds(history, c)
  <2>1. ~Resting(c)
    BY <1>13 DEF HistoryPaths, At, Resting
  <2>2. \/ \E r \in Results : Returns(c, r)
        \/ call' = [call EXCEPT ![c] = [call[c] EXCEPT !.pc = "remotes", !.past = past]]
    BY <1>13 DEF HistoryPaths, AskFails, Refuses, Results
  <2> HIDE DEF past
  <2>3. ASSUME call' = [call EXCEPT ![c] = [call[c] EXCEPT !.pc = "remotes", !.past = past]]
        PROVE  call'[c].pc \in Walking /\ call'[c].result = "none"
    BY <2>1, <2>3, <1>1, <1>4 DEF CallRecord, Walking
  <2>4. QED
    BY <2>1, <2>2, <2>3, <1>3, <1>8
<1>14. CASE Inspect(c)
  <2>1. ~Resting(c) /\ (Go(c, "read") \/ \E r \in Results : Returns(c, r))
    BY <1>14 DEF Inspect, AskFails, Refuses, At, Resting, Results
  <2>2. QED
    BY <2>1, <1>3, <1>8 DEF Walking
<1>15. QED
  BY <1>7, <1>9, <1>10, <1>11, <1>12, <1>13, <1>14

\* What a step of a guard does to .gitignore, to the guard and to the others: nothing to the file; or
\* the whole text; or the file alone; or the comment alone.
KeepsFile(c) ==
  /\ gitignore' = gitignore /\ call'[c].pc # "write" /\ HasTheRules(c)'
  /\ \A d \in Call : d # c => call'[d] = call[d]
WritesBlock(c) ==
  /\ \/ call[c].pc = "write" /\ ~call[c].replaced /\ gitignore' = [gitignore EXCEPT !.text = Block(c)]
     \/ call[c].pc = "persist" /\ gitignore' = [kind |-> "file", text |-> Block(c)]
  /\ call'[c].pc = "done"
  /\ \A d \in Call : d # c => call'[d] = [call[d] EXCEPT !.replaced = TRUE]
CreatesFile(c) ==
  /\ gitignore.kind = "none" /\ gitignore' = [kind |-> "file", text |-> << >>]
  /\ call'[c].result = "none" /\ HasTheRules(c)'
  /\ \A d \in Call : d # c => call'[d] = call[d]
LeavesComment(c) ==
  /\ call[c].pc = "write" /\ ~call[c].replaced /\ gitignore' = [gitignore EXCEPT !.text = <<Comment, NewLine>>]
  /\ call'[c].pc = "done" /\ call'[c].result = "error"
  /\ \A d \in Call : d # c => call'[d] = call[d]

LEMMA WriteGuard ==
  ASSUME GuardAssumption, GuardInv, NEW c \in Call,
         Read(c) \/ Place(c) \/ Create(c) \/ Write(c) \/ WriteFails(c) \/ Check(c) \/ Persist(c) \/ Break(c)
  PROVE  KeepsFile(c) \/ WritesBlock(c) \/ CreatesFile(c) \/ LeavesComment(c)
<1>1. call \in [Call -> CallRecord] /\ call[c] \in CallRecord /\ TypeOK
  BY IgnoreTyped DEF GuardInv
<1>2. ~Resting(c)
  BY DEF Read, Place, Create, Write, WriteFails, Check, Persist, Break, At, Resting
<1>3. HasTheRules(c) /\ call[c].result = "none"
  BY <1>2 DEF GuardInv, HasTheRules
<1>4. ASSUME NEW r \in Results, Returns(c, r), gitignore' = gitignore
      PROVE  KeepsFile(c)
  <2>1. call'[c].pc = "done" /\ \A d \in Call : d # c => call'[d] = call[d]
    BY <1>1, <1>4, ReturnsTyped
  <2>2. QED
    BY <2>1, <1>4, NoRulesInHand DEF KeepsFile
<1>5. "error" \in Results /\ "added" \in Results
  BY DEF Results
<1>6. CASE Read(c)
  <2>1. CASE call' = [call EXCEPT ![c].existing = gitignore.text, ![c].pc = "place"]
    <3>1. call' = [call EXCEPT ![c] = [call[c] EXCEPT !.existing = gitignore.text, !.pc = "place"]]
      BY <2>1
    <3>2. /\ call'[c].pc = "place" /\ call'[c].result = "none"
          /\ \A d \in Call : d # c => call'[d] = call[d]
      BY <3>1, <1>1, <1>3 DEF CallRecord
    <3>3. QED
      BY <3>2, <1>6, NoRulesInHand DEF Read, KeepsFile
  <2>2. QED
    BY <2>1, <1>4, <1>5, <1>6 DEF Read
<1>7. CASE Place(c)
  <2>1. ASSUME Go(c, "create"), call[c].existing = << >>
        PROVE  KeepsFile(c)
    <3>1. /\ call'[c].pc = "create" /\ call'[c].result = "none" /\ call'[c].existing = << >>
          /\ \A d \in Call : d # c => call'[d] = call[d]
      BY <2>1, <1>1, <1>3 DEF Go, CallRecord
    <3>2. HasTheRules(c)'
      BY <3>1 DEF HasTheRules, At
    <3>3. QED
      BY <3>1, <3>2, <1>7 DEF Place, KeepsFile
  <2>2. ASSUME Go(c, "check")
        PROVE  KeepsFile(c)
    <3>1. /\ call'[c].pc = "check" /\ call'[c].result = "none"
          /\ \A d \in Call : d # c => call'[d] = call[d]
      BY <2>2, <1>1, <1>3 DEF Go, CallRecord
    <3>2. QED
      BY <3>1, <1>7, NoRulesInHand DEF Place, KeepsFile
  <2>3. gitignore' = gitignore
    BY <1>7 DEF Place
  <2>4. \/ Go(c, "create") /\ call[c].existing = << >>
        \/ Go(c, "check") \/ Returns(c, "error")
    BY <1>7 DEF Place
  <2>5. QED
    BY <2>1, <2>2, <2>3, <2>4, <1>4, <1>5
<1>8. CASE Create(c)
  <2>1. CASE gitignore.kind # "none"
    BY <2>1, <1>4, <1>5, <1>8 DEF Create
  <2>2. CASE gitignore.kind = "none"
    <3>1. /\ gitignore' = [kind |-> "file", text |-> << >>]
          /\ call' = [call EXCEPT ![c] = [call[c] EXCEPT !.pc = "write", !.replaced = FALSE]]
      BY <2>2, <1>8 DEF Create
    <3>2. call[c].existing = << >>
      BY <1>3, <1>8 DEF HasTheRules, Create, At
    <3>3. /\ call'[c].pc = "write" /\ call'[c].result = "none" /\ call'[c].existing = << >>
          /\ \A d \in Call : d # c => call'[d] = call[d]
      BY <3>1, <3>2, <1>1, <1>3 DEF CallRecord
    <3>4. HasTheRules(c)'
      BY <3>1, <3>3 DEF HasTheRules, At
    <3>5. QED
      BY <2>2, <3>1, <3>3, <3>4 DEF CreatesFile
  <2>3. QED
    BY <2>1, <2>2
<1>9. CASE Write(c)
  <2>1. CASE call[c].replaced
    BY <2>1, <1>4, <1>5, <1>9 DEF Write
  <2>2. CASE ~call[c].replaced
    <3>1. Replaces(c, [gitignore EXCEPT !.text = Block(c)]) /\ call[c].pc = "write"
      BY <2>2, <1>9 DEF Write, At
    <3>2. QED
      BY <2>2, <3>1, <1>1, ReplacesFacts DEF WritesBlock
  <2>3. QED
    BY <2>1, <2>2
<1>10. CASE WriteFails(c)
  <2>1. CASE call[c].replaced
    BY <2>1, <1>4, <1>5, <1>10 DEF WriteFails
  <2>2. CASE ~call[c].replaced
    <3>1. /\ Returns(c, "error") /\ call[c].pc = "write"
          /\ gitignore' = [gitignore EXCEPT !.text = <<Comment, NewLine>>]
      BY <2>2, <1>10 DEF WriteFails, At
    <3>2. QED
      BY <2>2, <3>1, <1>1, <1>5, ReturnsTyped DEF LeavesComment
  <2>3. QED
    BY <2>1, <2>2
<1>11. CASE Check(c)
  <2>1. CASE Returns(c, "error")
    BY <2>1, <1>4, <1>5, <1>11 DEF Check
  <2>2. CASE ~Returns(c, "error")
    <3>1. /\ gitignore.kind = "file" /\ gitignore.text = call[c].existing /\ gitignore' = gitignore
          /\ call' = [call EXCEPT ![c] = [call[c] EXCEPT !.pc = "persist", !.replaced = FALSE]]
      BY <2>2, <1>11 DEF Check
    <3>2. /\ call'[c].pc = "persist" /\ call'[c].result = "none" /\ call'[c].existing = gitignore.text
          /\ \A d \in Call : d # c => call'[d] = call[d]
      BY <3>1, <1>1, <1>3 DEF CallRecord
    <3>3. HasTheRules(c)'
      BY <3>1, <3>2 DEF HasTheRules, At
    <3>4. QED
      BY <3>1, <3>2, <3>3 DEF KeepsFile
  <2>3. QED
    BY <2>1, <2>2
<1>12. CASE Persist(c)
  <2>1. Replaces(c, [kind |-> "file", text |-> Block(c)]) /\ call[c].pc = "persist"
    BY <1>12 DEF Persist, At
  <2>2. QED
    BY <2>1, <1>1, ReplacesFacts DEF WritesBlock
<1>13. CASE Break(c)
  BY <1>4, <1>5, <1>13 DEF Break
<1>14. QED
  BY <1>6, <1>7, <1>8, <1>9, <1>10, <1>11, <1>12, <1>13

\* What nobody's step but a replacement leaves of a guard.
LEMMA OtherRules ==
  ASSUME NEW d \in Call, TypeOK, HasTheRules(d),
         call'[d] = call[d] \/ call'[d] = [call[d] EXCEPT !.replaced = TRUE],
         ~call'[d].replaced /\ ~call[d].replaced /\ call[d].pc \in {"write", "persist"} =>
           \/ gitignore' = gitignore
           \/ /\ call[d].pc = "persist" /\ gitignore'.kind = "file" /\ call[d].existing = << >>
              /\ gitignore'.text = <<Comment, NewLine>>
  PROVE  HasTheRules(d)'
<1>1. /\ call'[d].pc = call[d].pc /\ call'[d].result = call[d].result
      /\ call'[d].existing = call[d].existing /\ (~call'[d].replaced => ~call[d].replaced)
  <2>1. call[d] \in CallRecord /\ call[d].replaced \in BOOLEAN
    BY DEF TypeOK, CallRecord
  <2>2. QED
    BY <2>1 DEF CallRecord
<1>2. /\ ~Resting(d)' => call'[d].result = "none"
      /\ call'[d].pc \in {"create", "write"} => call'[d].existing = << >>
  BY <1>1 DEF HasTheRules, Resting
<1>3. At(d, "write")' /\ ~call'[d].replaced => gitignore' = [kind |-> "file", text |-> << >>]
  BY <1>1 DEF HasTheRules, At
<1>4. At(d, "persist")' /\ ~call'[d].replaced =>
        /\ gitignore'.kind = "file"
        /\ \/ gitignore'.text = call'[d].existing
           \/ call'[d].existing = << >> /\ gitignore'.text = <<Comment, NewLine>>
  BY <1>1 DEF HasTheRules, At
<1>5. QED
  BY <1>2, <1>3, <1>4 DEF HasTheRules

\* The file a guard creates is its own until somebody replaces it.
LEMMA OneCreatorStep ==
  ASSUME TypeOK, OneCreator, NEW c \in Call,
         \A d \in Call : d # c => \/ call'[d] = call[d]
                                  \/ call'[d] = [call[d] EXCEPT !.replaced = TRUE],
         \/ call'[c].pc # "write"
         \/ \A d \in Call : d # c => ~(call[d].pc = "write" /\ ~call[d].replaced)
  PROVE  OneCreator'
<1>1. ASSUME NEW d \in Call, d # c, call'[d].pc = "write", ~call'[d].replaced
      PROVE  call[d].pc = "write" /\ ~call[d].replaced
  <2>1. call[d] \in CallRecord /\ call[d].replaced \in BOOLEAN
    BY DEF TypeOK, CallRecord
  <2>2. QED
    BY <2>1, <1>1 DEF CallRecord
<1>2. QED
  BY <1>1 DEF OneCreator, At

LEMMA GuardStep ==
  ASSUME GuardAssumption, GuardInv, NEW c \in Call, Step(c), TypeOK'
  PROVE  GuardInv'
<1>1. call \in [Call -> CallRecord] /\ call[c] \in CallRecord /\ TypeOK /\ OneCreator
  BY IgnoreTyped DEF GuardInv
<1>2. \A d \in Call : HasTheRules(d)
  BY DEF GuardInv
<1>3. gitignore.kind # "file" => gitignore.text = << >>
  BY DEF GuardInv
<1>4. SUFFICES /\ gitignore'.kind # "file" => gitignore'.text = << >>
               /\ OneCreator'
               /\ \A d \in Call : HasTheRules(d)'
  BY DEF GuardInv
<1>5. KeepsFile(c) \/ WritesBlock(c) \/ CreatesFile(c) \/ LeavesComment(c)
  <2>1. CASE /\ \/ \E kind \in {"scan", "guard"} : Begin(c, kind)
                \/ Visit(c) \/ Visited(c) \/ Load(c) \/ Open(c)
                \/ IgnoredPaths(c) \/ HistoryPaths(c) \/ Inspect(c)
             /\ UNCHANGED gitignore
    BY <2>1, WalkGuard DEF KeepsFile
  <2>2. QED
    BY <2>1, WriteGuard DEF Step
<1>6. ASSUME NEW d \in Call, d # c, call'[d] = [call[d] EXCEPT !.replaced = TRUE]
      PROVE  call'[d].replaced
  BY <1>1, <1>6 DEF CallRecord
<1>7. CASE KeepsFile(c)
  <2>1. ASSUME NEW d \in Call
        PROVE  HasTheRules(d)'
    BY <1>1, <1>2, <1>7, OtherRules DEF KeepsFile
  <2>2. OneCreator'
    BY <1>1, <1>7, OneCreatorStep DEF KeepsFile
  <2>3. QED
    BY <2>1, <2>2, <1>3, <1>7 DEF KeepsFile
<1>8. CASE WritesBlock(c)
  <2>1. gitignore'.kind = "file"
    <3>1. call[c].pc = "write" /\ ~call[c].replaced => gitignore = [kind |-> "file", text |-> << >>]
      BY <1>2 DEF HasTheRules, At
    <3>2. QED
      BY <3>1, <1>8 DEF WritesBlock
  <2>2. ASSUME NEW d \in Call, d # c
        PROVE  HasTheRules(d)'
    BY <2>2, <1>1, <1>2, <1>6, <1>8, OtherRules DEF WritesBlock
  <2>3. HasTheRules(c)'
    BY <1>8, NoRulesInHand DEF WritesBlock
  <2>4. OneCreator'
    BY <1>1, <1>8, OneCreatorStep DEF WritesBlock
  <2>5. QED
    BY <2>1, <2>2, <2>3, <2>4
<1>9. CASE CreatesFile(c)
  <2>1. ASSUME NEW d \in Call, d # c
        PROVE  ~(call[d].pc \in {"write", "persist"} /\ ~call[d].replaced)
    <3>1. HasTheRules(d) /\ gitignore.kind = "none"
      BY <1>2, <1>9 DEF CreatesFile
    <3>2. QED
      BY <3>1 DEF HasTheRules, At
  <2>2. ASSUME NEW d \in Call, d # c
        PROVE  HasTheRules(d)'
    BY <2>1, <2>2, <1>1, <1>2, <1>9, OtherRules DEF CreatesFile
  <2>3. OneCreator'
    BY <2>1, <1>1, <1>9, OneCreatorStep DEF CreatesFile
  <2>4. QED
    BY <2>2, <2>3, <1>9 DEF CreatesFile
<1>10. CASE LeavesComment(c)
  <2>1. gitignore = [kind |-> "file", text |-> << >>]
    BY <1>2, <1>10 DEF HasTheRules, At, LeavesComment
  <2>2. gitignore'.kind = "file" /\ gitignore'.text = <<Comment, NewLine>>
    BY <2>1, <1>10 DEF LeavesComment
  <2>3. ASSUME NEW d \in Call, d # c, call[d].pc \in {"write", "persist"}, ~call[d].replaced
        PROVE  call[d].pc = "persist" /\ call[d].existing = << >>
    <3>1. call[d].pc # "write"
      BY <2>3, <1>1, <1>10 DEF OneCreator, At, LeavesComment
    <3>2. \/ gitignore.text = call[d].existing
          \/ call[d].existing = << >> /\ gitignore.text = <<Comment, NewLine>>
      BY <3>1, <2>3, <1>2 DEF HasTheRules, At
    <3>3. QED
      BY <3>1, <3>2, <2>1, <2>3
  <2>4. ASSUME NEW d \in Call, d # c
        PROVE  HasTheRules(d)'
    BY <2>2, <2>3, <2>4, <1>1, <1>2, <1>10, OtherRules DEF LeavesComment
  <2>5. HasTheRules(c)'
    BY <1>10, NoRulesInHand DEF LeavesComment
  <2>6. OneCreator'
    BY <1>1, <1>10, OneCreatorStep DEF LeavesComment
  <2>7. QED
    BY <2>2, <2>4, <2>5, <2>6
<1>11. QED
  BY <1>5, <1>7, <1>8, <1>9, <1>10

\* The user replaces what all guards have in hand, or leaves .gitignore alone.
LEMMA GuardUser ==
  ASSUME GuardAssumption, GuardInv, User, TypeOK'
  PROVE  GuardInv'
<1>1. call \in [Call -> CallRecord] /\ TypeOK /\ OneCreator /\ \A d \in Call : HasTheRules(d)
  BY IgnoreTyped DEF GuardInv
<1>2. \/ gitignore' = gitignore /\ call' = call
      \/ call' = [b \in Call |-> [call[b] EXCEPT !.replaced = TRUE]]
  BY DEF User, EditTree, EditIgnore, repository
<1>3. gitignore'.kind # "file" => gitignore'.text = << >>
  <2>1. \/ gitignore' = gitignore
        \/ \E text : gitignore' = [kind |-> "file", text |-> text]
        \/ gitignore' = [kind |-> "none", text |-> << >>]
    BY DEF User, EditTree, EditIgnore, repository
  <2>2. QED
    BY <2>1 DEF GuardInv
<1>4. ASSUME NEW d \in Call
      PROVE  HasTheRules(d)'
  <2>1. CASE gitignore' = gitignore /\ call' = call
    BY <1>1, <2>1, OtherRules
  <2>2. CASE call' = [b \in Call |-> [call[b] EXCEPT !.replaced = TRUE]]
    <3>1. call'[d] = [call[d] EXCEPT !.replaced = TRUE] /\ call[d] \in CallRecord
      BY <1>1, <2>2
    <3>2. call'[d].replaced
      BY <3>1 DEF CallRecord
    <3>3. QED
      BY <3>1, <3>2, <1>1, OtherRules
  <2>3. QED
    BY <1>2, <2>1, <2>2
<1>5. OneCreator'
  <2>1. ASSUME NEW d \in Call, call'[d].pc = "write", ~call'[d].replaced
        PROVE  call[d].pc = "write" /\ ~call[d].replaced
    <3>1. call[d] \in CallRecord /\ call[d].replaced \in BOOLEAN
      BY <1>1 DEF CallRecord
    <3>2. call'[d] = call[d] \/ call'[d] = [call[d] EXCEPT !.replaced = TRUE]
      BY <1>2
    <3>3. QED
      BY <3>1, <3>2, <2>1 DEF CallRecord
  <2>2. QED
    BY <2>1, <1>1 DEF OneCreator, At
<1>6. QED
  BY <1>3, <1>4, <1>5 DEF GuardInv

LEMMA GuardNext ==
  ASSUME GuardAssumption, GuardInv, Next
  PROVE  GuardInv'
<1>1. TypeOK'
  BY TypeStep DEF GuardInv
<1>2. QED
  BY <1>1, GuardStep, GuardUser DEF Next

LEMMA GuardInit ==
  ASSUME GuardAssumption, Init
  PROVE  GuardInv
<1>1. \A c \in Call : call[c] = NoCall
  BY DEF Init
<1>2. gitignore.kind # "file" => gitignore.text = << >>
  BY DEF Init
<1>3. QED
  BY <1>1, <1>2, TypeInit, CandidateFacts DEF GuardInv, OneCreator, HasTheRules, At, Resting

\* What a change of .gitignore by one call keeps, and what it adds.
LEMMA GuardAdds ==
  ASSUME GuardAssumption, GuardInv, Next, gitignore' # gitignore,
         NEW c \in Call, call'[c].pc # call[c].pc
  PROVE  /\ ~call[c].replaced => /\ IsPrefix(gitignore.text, gitignore'.text)
                                 /\ Rules(gitignore.text) \subseteq Rules(gitignore'.text)
         /\ call'[c].result = "added" =>
              \A f \in Missing(c) : Nested[f] # "keep" => Ignores(gitignore'.text, f)
<1>1. call \in [Call -> CallRecord] /\ call[c] \in CallRecord /\ TypeOK /\ HasTheRules(c)
  BY IgnoreTyped DEF GuardInv
<1>2. PICK b \in Call : Step(b)
  BY <1>1, UserCall, ReplacedOnly DEF Next
<1>3. b = c
  BY <1>1, <1>2, OtherCall, ReplacedOnly
<1>4. KeepsFile(c) \/ WritesBlock(c) \/ CreatesFile(c) \/ LeavesComment(c)
  <2>1. CASE UNCHANGED gitignore
    BY <2>1
  <2>2. QED
    BY <2>1, <1>2, <1>3, WriteGuard DEF Step
<1>5. IsPrefix(<< >>, << >>) /\ Rules(<< >>) = {} /\ IsPrefix(<< >>, <<Comment, NewLine>>)
  <2>1. << >> \in Seq(Rule) /\ <<Comment, NewLine>> \in Seq(Rule) /\ Len(<<Comment, NewLine>>) = 2
    BY DEF Rule
  <2>2. Len(<< >>) = 0 /\ DOMAIN << >> = {}
    OBVIOUS
  <2>3. Rules(<< >>) = {}
    BY <2>2 DEF Rules
  <2>4. ASSUME NEW t \in Seq(Rule)
        PROVE  IsPrefix(<< >>, t)
    <3>1. Len(t) \in Nat
      OBVIOUS
    <3>2. PICK s \in Seq(Rule) : s = << >> /\ Len(s) = 0
      BY <2>1, <2>2
    <3>3. Len(s) <= Len(t) /\ \A i \in 1..Len(s) : t[i] = s[i]
      BY <3>1, <3>2
    <3>4. IsPrefix(s, t)
      BY <3>3, PrefixFacts
    <3>5. QED
      BY <3>2, <3>4
  <2>5. QED
    BY <2>1, <2>3, <2>4
<1>6. CASE WritesBlock(c)
  <2> DEFINE P == Proposed(call[c].existing, Missing(c))
  <2>1. gitignore'.text = P
    <3>1. /\ \/ gitignore' = [gitignore EXCEPT !.text = P]
             \/ gitignore' = [kind |-> "file", text |-> P]
      BY <1>6 DEF WritesBlock, Block
    <3> HIDE DEF P
    <3>2. gitignore \in [kind : {"none", "file", "other"}, text : Seq(Rule)]
      BY <1>1, IgnoreTyped
    <3>3. QED
      BY <3>1, <3>2
  <2>2. /\ IsPrefix(call[c].existing, P) /\ Rules(call[c].existing) \subseteq Rules(P)
        /\ call[c].existing = << >> => IsPrefix(<<Comment, NewLine>>, P)
        /\ \A f \in Missing(c) : Nested[f] # "keep" => Ignores(P, f)
    BY <1>1, MissingFacts, ProposedKeeps
  <2> HIDE DEF P
  <2>3. ASSUME ~call[c].replaced
        PROVE  \/ gitignore.text = call[c].existing
               \/ call[c].existing = << >> /\ gitignore.text = <<Comment, NewLine>>
    BY <2>3, <1>1, <1>6 DEF HasTheRules, At, WritesBlock
  <2>4. ASSUME ~call[c].replaced
        PROVE  IsPrefix(gitignore.text, P) /\ Rules(gitignore.text) \subseteq Rules(P)
    BY <2>2, <2>3, <2>4, CommentHasNoRules
  <2>5. QED
    BY <2>1, <2>2, <2>4
<1>7. CASE CreatesFile(c)
  <2>1. gitignore.text = << >> /\ gitignore'.text = << >> /\ call'[c].result = "none"
    BY <1>7 DEF CreatesFile, GuardInv
  <2>2. QED
    BY <2>1, <1>5
<1>8. CASE LeavesComment(c)
  <2>1. gitignore = [kind |-> "file", text |-> << >>]
    BY <1>1, <1>8 DEF HasTheRules, At, LeavesComment
  <2>2. gitignore.text = << >> /\ gitignore'.text = <<Comment, NewLine>> /\ call'[c].result = "error"
    BY <2>1, <1>8 DEF LeavesComment
  <2>3. QED
    BY <2>2, <1>5
<1>9. CASE KeepsFile(c)
  BY <1>9 DEF KeepsFile
<1>10. QED
  BY <1>4, <1>6, <1>7, <1>8, <1>9

LEMMA GuardStutter ==
  ASSUME GuardInv, UNCHANGED vars
  PROVE  GuardInv'
<1>1. /\ tree' = tree /\ gitignore' = gitignore /\ index' = index /\ history' = history /\ remotes' = remotes
      /\ call' = call /\ calls' = calls /\ edits' = edits /\ since' = since
  BY DEF vars
<1>2. TypeOK'
  BY <1>1 DEF GuardInv, TypeOK
<1>3. OneCreator' /\ \A c \in Call : HasTheRules(c)'
  BY <1>1 DEF GuardInv, OneCreator, HasTheRules, At, Resting
<1>4. QED
  BY <1>1, <1>2, <1>3 DEF GuardInv

\* Guards and the rules there are (append_gitignore_patterns, git_safety.rs): a guard that has
\* compared the file, or created it, has its rules in hand until somebody replaces the file, and of two guards
\* that see none only one creates it.
THEOREM GuardInvariant == GuardAssumption => (Spec => []GuardInv)
<1> SUFFICES ASSUME GuardAssumption
             PROVE  Spec => []GuardInv
  OBVIOUS
<1>1. GuardInv /\ [Next]_vars => GuardInv'
  BY GuardNext, GuardStutter
<1>2. QED
  BY <1>1, GuardInit, PTL DEF Spec

\* A guard keeps the rules the user wrote and adds its own so that they count
\* (append_gitignore_patterns, git_safety.rs), wherever the project is in its repository,
\* however many guards run, and whatever the user does between their steps.
THEOREM GuardsKeepRules == GuardAssumption => (Spec => GuardAddsRules)
<1> SUFFICES ASSUME GuardAssumption
             PROVE  Spec => GuardAddsRules
  OBVIOUS
<1>1. GuardInv /\ [Next]_vars =>
        [ gitignore' # gitignore =>
            \A c \in Call : call'[c].pc # call[c].pc =>
              /\ ~call[c].replaced => /\ IsPrefix(gitignore.text, gitignore'.text)
                                      /\ Rules(gitignore.text) \subseteq Rules(gitignore'.text)
              /\ call'[c].result = "added" =>
                   \A f \in Missing(c) : Nested[f] # "keep" => Ignores(gitignore.text, f)'
        ]_vars
  <2>1. ASSUME GuardInv, Next, gitignore' # gitignore, NEW c \in Call, call'[c].pc # call[c].pc
        PROVE  /\ ~call[c].replaced => /\ IsPrefix(gitignore.text, gitignore'.text)
                                       /\ Rules(gitignore.text) \subseteq Rules(gitignore'.text)
               /\ call'[c].result = "added" =>
                    \A f \in Missing(c) : Nested[f] # "keep" => Ignores(gitignore.text, f)'
    BY <2>1, GuardAdds
  <2>2. QED
    BY <2>1
<1>2. Spec => []GuardInv
  BY GuardInvariant
<1>3. QED
  BY <1>1, <1>2, PTL DEF Spec, GuardAddsRules
=============================================================================
