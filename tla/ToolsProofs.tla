----------------------------- MODULE ToolsProofs -----------------------------
(***************************************************************************)
(* For every command line: the launcher splits it as its author meant it   *)
(* and ends after all its children.  For every number of records and files *)
(* and any signals: the log daemon writes the records in their order, and  *)
(* loses none but at the end of a file.                                    *)
(***************************************************************************)
EXTENDS MCTools, FiniteSetTheorems, SequenceTheorems, WellFoundedInduction, TLAPS

(* Every non-empty set of natural numbers has a least element.             *)
LEMMA LeastNat ==
    ASSUME NEW T, T \subseteq Nat, T # {}
    PROVE  \E x \in T : \A y \in T : x <= y
<1> DEFINE R == {ss \in Nat \X Nat : ss[1] < ss[2]}
<1>1. IsWellFoundedOn(R, Nat)
  BY NatLessThanWellFounded DEF OpToRel
<1>2. \A x, y \in Nat : <<x, y>> \in R <=> x < y
  OBVIOUS
<1> HIDE DEF R
<1>3. PICK x \in T : \A y \in T : ~ (<<y, x>> \in R)
  BY <1>1, WFMin
<1>4. \A y \in T : ~ (y < x)
  BY <1>2, <1>3
<1>5. \A y \in T : x <= y
  BY <1>4
<1> QED
  BY <1>5

(* Induction up to n, for a set of numbers: it holds 0, and with m, m + 1. *)
LEMMA UpTo ==
    ASSUME NEW n \in Nat, NEW G, 0 \in G, \A m \in 0 .. n : m \in G /\ m < n => m + 1 \in G
    PROVE  \A m \in 0 .. n : m \in G
<1> SUFFICES ASSUME NEW m \in 0 .. n, m \notin G
             PROVE  FALSE
  OBVIOUS
<1> DEFINE Bad == {k \in 0 .. n : k \notin G}
<1>1. Bad \subseteq Nat /\ Bad # {}
  OBVIOUS
<1>2. PICK b \in Bad : \A x \in Bad : b <= x
  <2> HIDE DEF Bad
  <2> QED
    BY <1>1, LeastNat
<1>3. b \in 0 .. n /\ b \notin G /\ b # 0
  BY <1>2
<1>4. b - 1 \in 0 .. n /\ b - 1 < n /\ (b - 1) + 1 = b /\ ~(b <= b - 1)
  BY <1>3
<1>5. b - 1 \in G
  <2>1. b - 1 \notin Bad
    <3> HIDE DEF Bad
    <3> QED
      BY <1>2, <1>4
  <2> QED
    BY <1>4, <2>1
<1> QED
  BY <1>3, <1>4, <1>5

Recurses(g, n, base, step) ==
    g[0] = base /\ \A k \in 1 .. n : g[k] = step[<<k, g[k - 1]>>]

(* A function defined by recursion on the numbers up to n exists.          *)
LEMMA Recursion ==
    ASSUME NEW n \in Nat, NEW T, NEW base \in T, NEW step \in [(1 .. n) \X T -> T]
    PROVE  \E g \in [0 .. n -> T] : Recurses(g, n, base, step)
<1> DEFINE Upto(g, m) == g[0] = base /\ \A k \in 1 .. m : g[k] = step[<<k, g[k - 1]>>]
           Good(m) == \E g \in [0 .. m -> T] : Upto(g, m)
           G == {m \in 0 .. n : Good(m)}
<1>1. Good(0)
  <2> DEFINE g == [k \in 0 .. 0 |-> base]
  <2>1. g \in [0 .. 0 -> T] /\ Upto(g, 0)
    OBVIOUS
  <2> QED
    BY <2>1
<1>2. ASSUME NEW m \in Nat, m + 1 <= n, Good(m)
      PROVE  Good(m + 1)
  <2>1. PICK g \in [0 .. m -> T] : Upto(g, m)
    BY <1>2
  <2> DEFINE top == step[<<m + 1, g[m]>>]
             h == [k \in 0 .. m + 1 |-> IF k = m + 1 THEN top ELSE g[k]]
  <2>2. top \in T
    <3>1. g[m] \in T /\ m + 1 \in 1 .. n
      BY <1>2
    <3> QED
      BY <3>1
  <2>3. h \in [0 .. m + 1 -> T]
    BY <2>2
  <2>4. h[0] = base
    BY <2>1
  <2>5. ASSUME NEW k \in 1 .. m + 1
        PROVE  h[k] = step[<<k, h[k - 1]>>]
    <3>1. k - 1 \in 0 .. m /\ h[k - 1] = g[k - 1]
      OBVIOUS
    <3>2. CASE k = m + 1
      <4>1. k - 1 = m /\ h[k] = top
        BY <3>2
      <4> QED
        BY <3>1, <3>2, <4>1
    <3>3. CASE k # m + 1
      <4>1. k \in 1 .. m /\ h[k] = g[k]
        BY <3>3
      <4> QED
        BY <2>1, <3>1, <4>1
    <3> QED
      BY <3>2, <3>3
  <2> HIDE DEF h
  <2> QED
    BY <2>3, <2>4, <2>5
<1> HIDE DEF Good
<1>3. \A m \in 0 .. n : m \in G
  <2>1. 0 \in G
    BY <1>1
  <2>2. \A m \in 0 .. n : m \in G /\ m < n => m + 1 \in G
    BY <1>2
  <2> HIDE DEF G
  <2> QED
    BY <2>1, <2>2, UpTo
<1> QED
  BY <1>3 DEF Good, Recurses

-----------------------------------------------------------------------------
(* The log daemon.                                                         *)

(* What the files up to number n hold, one after the other.                *)
Cat(F, n) == LET all[f \in 0 .. n] == IF f = 0 THEN F[0] ELSE all[f - 1] \o F[f]
             IN  all[n]

(* The recursion that collects the files is one.                           *)
LEMMA CatIs ==
    ASSUME NEW n \in Nat, NEW F \in [0 .. n -> Seq(Nat)]
    PROVE  \E all \in [0 .. n -> Seq(Nat)] :
               /\ Cat(F, n) = all[n] /\ all[0] = F[0]
               /\ \A f \in 1 .. n : all[f] = all[f - 1] \o F[f]
<1> DEFINE Step(d, k) == d \o F[k]
           P(g) == g = [f \in 0 .. n |-> IF f = 0 THEN F[0] ELSE Step(g[f - 1], f)]
           all == CHOOSE g : P(g)
           T == Seq(Nat)
           step == [x \in (1 .. n) \X T |-> x[2] \o F[x[1]]]
<1>1. Cat(F, n) = all[n]
  BY DEF Cat
<1>2. step \in [(1 .. n) \X T -> T]
  <2> SUFFICES ASSUME NEW x \in (1 .. n) \X T
               PROVE  x[2] \o F[x[1]] \in T
    OBVIOUS
  <2>1. x[2] \in Seq(Nat) /\ F[x[1]] \in Seq(Nat)
    OBVIOUS
  <2> QED
    BY <2>1, ConcatProperties
<1>3. F[0] \in T
  OBVIOUS
<1>4. \A k \in 1 .. n : \A d \in T : step[<<k, d>>] = Step(d, k)
  OBVIOUS
<1> HIDE DEF step, T, Step
<1>5. PICK g \in [0 .. n -> T] : Recurses(g, n, F[0], step)
  BY <1>2, <1>3, Recursion
<1>6. P(g)
  <2>1. \A k \in 0 .. n : g[k] = IF k = 0 THEN F[0] ELSE Step(g[k - 1], k)
    <3> TAKE k \in 0 .. n
    <3>1. CASE k = 0
      BY <1>5, <3>1 DEF Recurses
    <3>2. CASE k # 0
      <4>1. k \in 1 .. n /\ k - 1 \in 0 .. n
        BY <3>2
      <4>2. g[k - 1] \in T
        BY <4>1
      <4> QED
        BY <1>4, <1>5, <3>2, <4>1, <4>2 DEF Recurses
    <3> QED
      BY <3>1, <3>2
  <2> QED
    BY <2>1
<1>7. P(all)
  <2> HIDE DEF P
  <2> QED
    BY <1>6
<1> HIDE DEF all
<1>8. all[0] = F[0] /\ \A f \in 1 .. n : all[f] = all[f - 1] \o F[f]
  <2>1. all[0] = F[0] /\ \A f \in 1 .. n : all[f] = Step(all[f - 1], f)
    BY <1>7
  <2> QED
    BY <2>1 DEF Step
<1>9. \A m \in 0 .. n : all[m] \in T
  <2> DEFINE G == {m \in 0 .. n : all[m] \in T}
  <2>1. 0 \in G
    BY <1>3, <1>8
  <2>2. ASSUME NEW m \in 0 .. n, m \in G, m < n
        PROVE  m + 1 \in G
    <3>1. m + 1 \in 1 .. n /\ (m + 1) - 1 = m /\ m + 1 \in 0 .. n
      BY <2>2
    <3>2. all[m + 1] = all[m] \o F[m + 1]
      BY <1>8, <3>1
    <3>3. all[m] \in Seq(Nat) /\ F[m + 1] \in Seq(Nat)
      BY <2>2, <3>1 DEF T
    <3>4. all[m + 1] \in T
      BY <3>2, <3>3, ConcatProperties DEF T
    <3> QED
      BY <3>1, <3>4
  <2> HIDE DEF G
  <2>3. \A m \in 0 .. n : m \in G
    BY <2>1, <2>2, UpTo
  <2> QED
    BY <2>3 DEF G
<1>10. all \in [0 .. n -> Seq(Nat)]
  <2>1. all = [f \in 0 .. n |-> all[f]]
    BY <1>7
  <2> QED
    BY <1>9, <2>1 DEF T
<1> QED
  BY <1>1, <1>8, <1>10

(* The order in which three sequences are joined does not matter.          *)
LEMMA Associates ==
    ASSUME NEW s \in Seq(Nat), NEW t \in Seq(Nat), NEW u \in Seq(Nat)
    PROVE  (s \o t) \o u = s \o (t \o u)
BY ConcatAssociative, SMTT(40)

(* Appending to the last file that is not empty appends to them all.       *)
LEMMA CatAppend ==
    ASSUME NEW n \in Nat, NEW F \in [0 .. n -> Seq(Nat)], NEW c \in 0 .. n, NEW b \in Seq(Nat),
           \A f \in 0 .. n : f > c => F[f] = <<>>
    PROVE  Cat([F EXCEPT ![c] = @ \o b], n) = Cat(F, n) \o b
<1> DEFINE E == [F EXCEPT ![c] = @ \o b]
<1>1. E \in [0 .. n -> Seq(Nat)] /\ E[c] = F[c] \o b /\ \A f \in 0 .. n : f # c => E[f] = F[f]
  <2>1. F[c] \in Seq(Nat) /\ F[c] \o b \in Seq(Nat)
    BY ConcatProperties
  <2> QED
    BY <2>1
<1> HIDE DEF E
<1>2. PICK x \in [0 .. n -> Seq(Nat)] :
               /\ Cat(F, n) = x[n] /\ x[0] = F[0]
               /\ \A f \in 1 .. n : x[f] = x[f - 1] \o F[f]
  BY CatIs
<1>3. PICK y \in [0 .. n -> Seq(Nat)] :
               /\ Cat(E, n) = y[n] /\ y[0] = E[0]
               /\ \A f \in 1 .. n : y[f] = y[f - 1] \o E[f]
  BY <1>1, CatIs
<1> DEFINE Good(m) == /\ m < c => y[m] = x[m]
                      /\ m >= c => y[m] = x[m] \o b
           G == {m \in 0 .. n : Good(m)}
<1>4. 0 \in G
  <2>1. Good(0)
    <3>1. CASE c = 0
      BY <1>1, <1>2, <1>3, <3>1
    <3>2. CASE c # 0
      BY <1>1, <1>2, <1>3, <3>2
    <3> QED
      BY <3>1, <3>2
  <2> QED
    BY <2>1
<1>5. ASSUME NEW m \in 0 .. n, m \in G, m < n
      PROVE  m + 1 \in G
  <2>1. m + 1 \in 1 .. n /\ (m + 1) - 1 = m /\ m + 1 \in 0 .. n
    BY <1>5
  <2>2. x[m + 1] = x[m] \o F[m + 1] /\ y[m + 1] = y[m] \o E[m + 1]
    BY <1>2, <1>3, <2>1
  <2>3. x[m] \in Seq(Nat) /\ x[m + 1] \in Seq(Nat) /\ F[m + 1] \in Seq(Nat)
    BY <2>1
  <2>4. m < c => y[m] = x[m]
    BY <1>5
  <2>5. m >= c => y[m] = x[m] \o b
    BY <1>5
  <2> HIDE DEF Good
  <2>6. ASSUME m + 1 < c
        PROVE  y[m + 1] = x[m + 1]
    <3>1. E[m + 1] = F[m + 1]
      BY <1>1, <2>1, <2>6
    <3>2. y[m] = x[m]
      BY <2>4, <2>6
    <3> QED
      BY <2>2, <3>1, <3>2
  <2>7. ASSUME m + 1 = c
        PROVE  y[m + 1] = x[m + 1] \o b
    <3>1. y[m] = x[m]
      BY <2>4, <2>7
    <3>2. E[m + 1] = F[m + 1] \o b
      BY <1>1, <2>7
    <3>3. x[m] \o (F[m + 1] \o b) = (x[m] \o F[m + 1]) \o b
      <4> DEFINE s == x[m]
                 t == F[m + 1]
      <4>1. s \in Seq(Nat) /\ t \in Seq(Nat)
        BY <2>3
      <4> HIDE DEF s, t
      <4>2. (s \o t) \o b = s \o (t \o b)
        BY <4>1, Associates, Zenon
      <4> QED
        BY <4>2 DEF s, t
    <3> QED
      BY <2>2, <3>1, <3>2, <3>3
  <2>8. ASSUME m + 1 > c
        PROVE  y[m + 1] = x[m + 1] \o b
    <3>1. y[m] = x[m] \o b
      BY <2>5, <2>8
    <3>2. E[m + 1] = <<>> /\ F[m + 1] = <<>>
      <4>1. m + 1 # c /\ F[m + 1] = <<>>
        BY <2>1, <2>8
      <4> QED
        BY <1>1, <2>1, <4>1, Zenon
    <3>3. x[m + 1] = x[m]
      BY <2>2, <2>3, <3>2, ConcatEmptySeq
    <3>4. (x[m] \o b) \o <<>> = x[m] \o b
      <4>1. x[m] \o b \in Seq(Nat)
        BY <2>3, ConcatProperties
      <4> QED
        BY <4>1, ConcatEmptySeq
    <3> QED
      BY <2>2, <3>1, <3>2, <3>3, <3>4
  <2>9. Good(m + 1)
    <3>1. m + 1 < c => y[m + 1] = x[m + 1]
      BY <2>6, Zenon
    <3>2. ASSUME m + 1 >= c
          PROVE  y[m + 1] = x[m + 1] \o b
      <4>1. m + 1 = c \/ m + 1 > c
        BY <3>2
      <4> QED
        BY <2>7, <2>8, <4>1, Zenon
    <3> QED
      BY <3>1, <3>2, Zenon DEF Good
  <2> QED
    BY <2>1, <2>9
<1> HIDE DEF G
<1>6. \A m \in 0 .. n : m \in G
  BY <1>4, <1>5, UpTo
<1>7. y[n] = x[n] \o b
  <2>1. n \in G /\ n >= c
    BY <1>6
  <2> QED
    BY <2>1 DEF G
<1> QED
  BY <1>2, <1>3, <1>7 DEF E

(* The records of a buffer follow those of the files before it.            *)
LEMMA NextRecords ==
    ASSUME NEW m \in Nat, NEW n \in Nat
    PROVE  [k \in 1 .. m |-> k] \o [k \in 1 .. n |-> m + k] = [k \in 1 .. m + n |-> k]
<1> DEFINE a == [k \in 1 .. m |-> k]
           b == [k \in 1 .. n |-> m + k]
           c == [k \in 1 .. m + n |-> k]
<1>1. a \in Seq(Nat) /\ Len(a) = m /\ \A k \in 1 .. m : a[k] = k
  OBVIOUS
<1>2. b \in Seq(Nat) /\ Len(b) = n /\ \A k \in 1 .. n : b[k] = m + k
  OBVIOUS
<1>3. c \in Seq(Nat) /\ Len(c) = m + n /\ \A k \in 1 .. m + n : c[k] = k
  OBVIOUS
<1> HIDE DEF a, b, c
<1>4. /\ a \o b \in Seq(Nat) /\ Len(a \o b) = Len(a) + Len(b)
      /\ \A k \in 1 .. Len(a) + Len(b) : (a \o b)[k] = IF k <= Len(a) THEN a[k] ELSE b[k - Len(a)]
  BY <1>1, <1>2, ConcatProperties, Zenon
<1> DEFINE d == a \o b
<1>5. d \in Seq(Nat) /\ Len(d) = m + n
      /\ \A k \in 1 .. m + n : d[k] = IF k <= m THEN a[k] ELSE b[k - m]
  <2>1. Len(a) = m /\ Len(b) = n
    BY <1>1, <1>2
  <2> QED
    BY <1>4, <2>1, Zenon
<1> HIDE DEF d
<1>6. \A k \in 1 .. m + n : d[k] = k
  BY <1>1, <1>2, <1>5
<1>7. d = c
  BY <1>3, <1>5, <1>6, SeqEqual
<1> QED
  BY <1>7 DEF a, b, c, d

(* Cutting a sequence in two loses nothing.                                *)
LEMMA Cuts ==
    ASSUME NEW s \in Seq(Nat), NEW n \in 0 .. Len(s)
    PROVE  /\ SubSeq(s, 1, n) \in Seq(Nat) /\ SubSeq(s, n + 1, Len(s)) \in Seq(Nat)
           /\ SubSeq(s, 1, n) \o SubSeq(s, n + 1, Len(s)) = s
<1> DEFINE a == SubSeq(s, 1, n)
           b == SubSeq(s, n + 1, Len(s))
<1>1. Len(s) \in Nat /\ n \in Nat /\ n <= Len(s)
  OBVIOUS
<1>2. a \in Seq(Nat) /\ Len(a) = n /\ \A k \in 1 .. n : a[k] = s[k]
  BY <1>1
<1>3. b \in Seq(Nat) /\ Len(b) = Len(s) - n /\ \A k \in 1 .. Len(s) - n : b[k] = s[n + k]
  BY <1>1
<1> HIDE DEF a, b
<1>4. /\ a \o b \in Seq(Nat) /\ Len(a \o b) = Len(a) + Len(b)
      /\ \A k \in 1 .. Len(a) + Len(b) : (a \o b)[k] = IF k <= Len(a) THEN a[k] ELSE b[k - Len(a)]
  BY <1>2, <1>3, ConcatProperties, Zenon
<1>5. PICK d : d = a \o b
  OBVIOUS
<1>6. d \in Seq(Nat) /\ Len(d) = Len(s)
      /\ \A k \in 1 .. Len(s) : d[k] = IF k <= n THEN a[k] ELSE b[k - n]
  <2>1. Len(a) = n /\ Len(a) + Len(b) = Len(s)
    BY <1>1, <1>2, <1>3
  <2> QED
    BY <1>4, <1>5, <2>1, Zenon
<1>7. \A k \in 1 .. Len(s) : d[k] = s[k]
  BY <1>1, <1>2, <1>3, <1>6
<1>8. d = s
  BY <1>6, <1>7, SeqEqual
<1> QED
  BY <1>2, <1>3, <1>5, <1>8 DEF a, b

(* The order of the records needs: the files behind the one written to are *)
(* empty, buf is empty but before a write, stdio holds nothing of a file   *)
(* that is closed, and nothing is lost of one that is open.                *)
DaemonInv ==
    /\ taken \in Nat /\ buf \in Seq(Nat) /\ held \in Seq(Nat) /\ count \in 0 .. MaxCount
    /\ files \in [0 .. MaxCount -> Seq(Nat)] /\ lost \in [0 .. MaxCount -> Seq(Nat)]
    /\ \A f \in 0 .. MaxCount : f > count => files[f] = <<>> /\ lost[f] = <<>>
    /\ dpc # "write" => buf = <<>>
    /\ dpc \in {"closein", "next", "openin", "resume", "exit"} => held = <<>>
    /\ dpc \notin {"closein", "next", "exit"} => lost[count] = <<>>
    /\ FilesInOrder

(* What the files were to hold is a sequence of records.                   *)
LEMMA DueType ==
    ASSUME files \in [0 .. MaxCount -> Seq(Nat)], lost \in [0 .. MaxCount -> Seq(Nat)]
    PROVE  /\ Due \in [0 .. MaxCount -> Seq(Nat)] /\ AllDue = Cat(Due, MaxCount)
           /\ AllDue \in Seq(Nat)
<1> USE LogDaemonAssumption
<1>1. \A f \in 0 .. MaxCount : files[f] \o lost[f] \in Seq(Nat)
  <2> TAKE f \in 0 .. MaxCount
  <2>1. files[f] \in Seq(Nat) /\ lost[f] \in Seq(Nat)
    OBVIOUS
  <2> QED
    BY <2>1, ConcatProperties, Zenon
<1>2. Due \in [0 .. MaxCount -> Seq(Nat)]
  BY <1>1 DEF Due
<1>3. AllDue = Cat(Due, MaxCount)
  BY DEF AllDue, Cat
<1>4. PICK all \in [0 .. MaxCount -> Seq(Nat)] : Cat(Due, MaxCount) = all[MaxCount]
  BY <1>2, CatIs
<1> QED
  BY <1>2, <1>3, <1>4

(* A file that gets a and loses b was to hold a and then b, if it had lost *)
(* nothing before or gets and loses nothing now.                           *)
LEMMA Grows ==
    ASSUME DaemonInv, NEW a \in Seq(Nat), NEW b \in Seq(Nat),
           files' = [files EXCEPT ![count] = @ \o a], lost' = [lost EXCEPT ![count] = @ \o b],
           lost[count] = <<>> \/ a = <<>>
    PROVE  /\ files' \in [0 .. MaxCount -> Seq(Nat)] /\ lost' \in [0 .. MaxCount -> Seq(Nat)]
           /\ \A f \in 0 .. MaxCount : f > count => files'[f] = <<>> /\ lost'[f] = <<>>
           /\ AllDue' = AllDue \o (a \o b)
<1>0. ASSUME NEW s \in Seq(Nat), NEW t \in Seq(Nat), t = <<>> \/ a = <<>>
      PROVE  (s \o a) \o (t \o b) = (s \o t) \o (a \o b)
  <2>1. (s \o a) \o b = s \o (a \o b)
    BY ONLY Associates, Zenon
  <2>2. (s \o t) \o b = s \o (t \o b)
    BY ONLY Associates, Zenon
  <2>3. CASE t = <<>>
    <3>1. t \o b = b /\ s \o t = s
      BY <2>3, ConcatEmptySeq
    <3> QED
      BY <2>1, <3>1
  <2>4. CASE a = <<>>
    <3>1. s \o a = s /\ a \o b = b
      BY <2>4, ConcatEmptySeq
    <3> QED
      BY <2>2, <3>1
  <2> QED
    BY <1>0, <2>3, <2>4
<1> USE LogDaemonAssumption
<1>1. /\ count \in 0 .. MaxCount /\ MaxCount \in Nat
      /\ files \in [0 .. MaxCount -> Seq(Nat)] /\ lost \in [0 .. MaxCount -> Seq(Nat)]
      /\ \A f \in 0 .. MaxCount : f > count => files[f] = <<>> /\ lost[f] = <<>>
  BY DEF DaemonInv
<1>2. PICK c \in 0 .. MaxCount, s \in Seq(Nat), t \in Seq(Nat) :
          c = count /\ s = files[count] /\ t = lost[count]
  BY <1>1
<1>3. PICK sa \in Seq(Nat), tb \in Seq(Nat) : sa = s \o a /\ tb = t \o b
  BY <1>2, ConcatProperties
<1>4. files' = [files EXCEPT ![c] = sa] /\ lost' = [lost EXCEPT ![c] = tb]
  BY <1>2, <1>3
<1>5. files' \in [0 .. MaxCount -> Seq(Nat)] /\ lost' \in [0 .. MaxCount -> Seq(Nat)]
  <2>1. [files EXCEPT ![c] = sa] \in [0 .. MaxCount -> Seq(Nat)]
    BY <1>1
  <2>2. [lost EXCEPT ![c] = tb] \in [0 .. MaxCount -> Seq(Nat)]
    BY <1>1
  <2> QED
    BY <1>4, <2>1, <2>2, Zenon
<1>6. \A f \in 0 .. MaxCount : f # c => files'[f] = files[f] /\ lost'[f] = lost[f]
  BY <1>1, <1>4
<1>7. \A f \in 0 .. MaxCount : f > count => files'[f] = <<>> /\ lost'[f] = <<>>
  <2>1. \A f \in 0 .. MaxCount : f > count => f # c
    BY <1>1, <1>2
  <2> QED
    BY <1>1, <1>6, <2>1, Zenon
<1>8. PICK ab \in Seq(Nat) : ab = a \o b
  BY ConcatProperties
<1>9. sa \o tb = (s \o t) \o ab
  <2>1. t = <<>> \/ a = <<>>
    BY <1>2
  <2>2. (s \o a) \o (t \o b) = (s \o t) \o (a \o b)
    BY ONLY <1>0, <2>1, Zenon
  <2> QED
    BY <1>3, <1>8, <2>2, Zenon
<1>10. Due' = [Due EXCEPT ![c] = @ \o ab]
  <2>1. files'[c] = sa /\ lost'[c] = tb
    BY <1>1, <1>4
  <2>2. Due[c] = s \o t /\ Due'[c] = sa \o tb
    BY <1>2, <2>1 DEF Due
  <2>3. \A f \in 0 .. MaxCount : f # c => Due'[f] = Due[f]
    <3>1. \A f \in 0 .. MaxCount :
              Due[f] = files[f] \o lost[f] /\ Due'[f] = files'[f] \o lost'[f]
      BY DEF Due
    <3> QED
      BY <1>6, <3>1, Zenon
  <2>4. Due = [f \in 0 .. MaxCount |-> Due[f]] /\ Due' = [f \in 0 .. MaxCount |-> Due'[f]]
    <3>1. Due = [f \in 0 .. MaxCount |-> files[f] \o lost[f]]
      BY DEF Due
    <3>2. Due' = [f \in 0 .. MaxCount |-> files'[f] \o lost'[f]]
      BY DEF Due
    <3> QED
      BY ONLY <3>1, <3>2
  <2>5. Due'[c] = Due[c] \o ab
    BY <1>9, <2>2
  <2>6. [Due EXCEPT ![c] = @ \o ab]
           = [f \in 0 .. MaxCount |-> IF f = c THEN Due[c] \o ab ELSE Due[f]]
    BY <2>4
  <2>7. \A f \in 0 .. MaxCount : Due'[f] = IF f = c THEN Due[c] \o ab ELSE Due[f]
    BY <2>3, <2>5, Zenon
  <2> QED
    BY <2>4, <2>6, <2>7
<1>11. PICK D \in [0 .. MaxCount -> Seq(Nat)] : D = Due /\ AllDue = Cat(D, MaxCount)
  BY <1>1, DueType
<1>12. AllDue' = Cat(Due', MaxCount)
  BY DEF AllDue, Cat
<1>13. \A f \in 0 .. MaxCount : f > c => D[f] = <<>>
  <2>1. <<>> \o <<>> = <<>>
    BY ConcatEmptySeq
  <2>2. \A f \in 0 .. MaxCount : f > count => files[f] \o lost[f] = <<>>
    BY <1>1, <2>1
  <2> QED
    BY <1>2, <1>11, <2>2 DEF Due
<1>14. Cat([D EXCEPT ![c] = @ \o ab], MaxCount) = Cat(D, MaxCount) \o ab
  BY <1>1, <1>13, CatAppend, Zenon
<1>15. AllDue' = AllDue \o ab
  BY <1>10, <1>11, <1>12, <1>14, Zenon
<1> QED
  BY <1>5, <1>7, <1>8, <1>15

(* A flush, whatever comes of it, leaves stdio empty and the records       *)
(* accounted for.                                                          *)
LEMMA FlushKeeps ==
    ASSUME DaemonInv, NEW h \in Seq(Nat), NEW never \in Seq(Nat), Flush(h, never),
           lost[count] = <<>> \/ h = <<>>
    PROVE  /\ files' \in [0 .. MaxCount -> Seq(Nat)] /\ lost' \in [0 .. MaxCount -> Seq(Nat)]
           /\ \A f \in 0 .. MaxCount : f > count => files'[f] = <<>> /\ lost'[f] = <<>>
           /\ held' = <<>> /\ buf' = <<>>
           /\ AllDue' = AllDue \o (h \o never)
           /\ (AllDue' \o held') \o buf' = AllDue'
<1>1. PICK n \in 0 .. Len(h) :
          /\ files' = [files EXCEPT ![count] = @ \o SubSeq(h, 1, n)]
          /\ lost' = [lost EXCEPT ![count] = @ \o (SubSeq(h, n + 1, Len(h)) \o never)]
          /\ held' = <<>> /\ buf' = <<>>
  BY DEF Flush
<1>2. PICK a \in Seq(Nat), r \in Seq(Nat) :
          a = SubSeq(h, 1, n) /\ r = SubSeq(h, n + 1, Len(h)) /\ a \o r = h
  BY ONLY h \in Seq(Nat), n \in 0 .. Len(h), Cuts, Zenon
<1>3. PICK b \in Seq(Nat) : b = r \o never
  BY ConcatProperties
<1>4. lost[count] = <<>> \/ a = <<>>
  <2>1. ASSUME h = <<>> PROVE a = <<>>
    <3>1. Len(h) = 0 /\ n = 0
      BY <2>1
    <3> QED
      BY <1>2, <2>1, <3>1
  <2> QED
    BY <2>1
<1>5. files' = [files EXCEPT ![count] = @ \o a] /\ lost' = [lost EXCEPT ![count] = @ \o b]
  BY <1>1, <1>2, <1>3
<1>6. /\ files' \in [0 .. MaxCount -> Seq(Nat)] /\ lost' \in [0 .. MaxCount -> Seq(Nat)]
      /\ \A f \in 0 .. MaxCount : f > count => files'[f] = <<>> /\ lost'[f] = <<>>
      /\ AllDue' = AllDue \o (a \o b)
  BY <1>4, <1>5, Grows
<1>7. a \o b = h \o never
  <2>1. (a \o r) \o never = a \o (r \o never)
    BY Associates, Zenon
  <2> QED
    BY <1>2, <1>3, <2>1
<1>8. AllDue' \in Seq(Nat)
  <2>1. AllDue \in Seq(Nat)
    BY DueType DEF DaemonInv
  <2>2. a \o b \in Seq(Nat)
    BY ConcatProperties, Zenon
  <2>3. AllDue \o (a \o b) \in Seq(Nat)
    BY <2>1, <2>2, ConcatProperties, Zenon
  <2> QED
    BY <1>6, <2>3
<1>9. (AllDue' \o <<>>) \o <<>> = AllDue'
  BY <1>8, ConcatEmptySeq
<1> QED
  BY <1>1, <1>6, <1>7, <1>9

(* A step that moves no record.                                            *)
LEMMA NoneMoved ==
    ASSUME FilesInOrder, UNCHANGED <<taken, buf, held, files, lost>>
    PROVE  FilesInOrder'
<1>1. AllDue' = AllDue
  BY DEF AllDue, Due
<1> QED
  BY <1>1, Zenon DEF FilesInOrder

(* What the daemon has not yet written can be counted as one piece.        *)
LEMMA OneRun ==
    ASSUME DaemonInv
    PROVE  /\ held \o buf \in Seq(Nat) /\ AllDue \in Seq(Nat)
           /\ AllDue \o (held \o buf) = [k \in 1 .. taken |-> k]
           /\ buf = <<>> => held \o <<>> = held \o buf
<1>1. AllDue \in Seq(Nat) /\ held \in Seq(Nat) /\ buf \in Seq(Nat)
  BY DueType DEF DaemonInv
<1>2. held \o buf \in Seq(Nat)
  BY <1>1, ConcatProperties, Zenon
<1>3. (AllDue \o held) \o buf = AllDue \o (held \o buf)
  BY <1>1, Associates, Zenon
<1> QED
  BY <1>1, <1>2, <1>3 DEF DaemonInv, FilesInOrder

(* The daemon ends, or closes a file, with all it has not yet written.     *)
LEMMA EndKeeps ==
    ASSUME DaemonInv, NEW h \in Seq(Nat), h = held \o buf, Flush(h, <<>>),
           UNCHANGED <<taken, count>>, dpc' \in {"exit", "closein"}
    PROVE  DaemonInv'
<1>1. AllDue \o h = [k \in 1 .. taken |-> k]
  BY OneRun
<1>2. lost[count] = <<>> \/ h = <<>>
  <2>1. CASE dpc \in {"closein", "next", "exit"}
    <3>1. held = <<>> /\ buf = <<>>
      BY <2>1 DEF DaemonInv
    <3> QED
      BY <3>1, ConcatEmptySeq
  <2>2. CASE dpc \notin {"closein", "next", "exit"}
    BY <2>2 DEF DaemonInv
  <2> QED
    BY <2>1, <2>2
<1>3. <<>> \in Seq(Nat) /\ h \o <<>> = h
  BY ConcatEmptySeq
<1>4. /\ files' \in [0 .. MaxCount -> Seq(Nat)] /\ lost' \in [0 .. MaxCount -> Seq(Nat)]
      /\ \A f \in 0 .. MaxCount : f > count => files'[f] = <<>> /\ lost'[f] = <<>>
      /\ held' = <<>> /\ buf' = <<>>
      /\ AllDue' = AllDue \o (h \o <<>>)
      /\ (AllDue' \o held') \o buf' = AllDue'
  BY <1>2, <1>3, FlushKeeps
<1>5. FilesInOrder'
  <2>1. AllDue' = [k \in 1 .. taken |-> k]
    BY <1>1, <1>3, <1>4
  <2>2. (AllDue' \o held') \o buf' = [k \in 1 .. taken |-> k]
    BY <1>4, <2>1, Zenon
  <2> QED
    BY <2>2 DEF FilesInOrder
<1>6. taken' \in Nat /\ count' \in 0 .. MaxCount /\ count' = count
  BY DEF DaemonInv
<1> QED
  BY <1>3, <1>4, <1>5, <1>6 DEF DaemonInv

(* Each step of the daemon keeps the files in order.                       *)
LEMMA DaemonNextInv ==
    ASSUME DaemonInv, DaemonNext
    PROVE  DaemonInv'
<1> USE LogDaemonAssumption
<1>1. /\ taken \in Nat /\ buf \in Seq(Nat) /\ held \in Seq(Nat)
      /\ count \in 0 .. MaxCount /\ MaxCount \in Nat
  BY DEF DaemonInv
<1>2. /\ files \in [0 .. MaxCount -> Seq(Nat)] /\ lost \in [0 .. MaxCount -> Seq(Nat)]
      /\ \A f \in 0 .. MaxCount : f > count => files[f] = <<>> /\ lost[f] = <<>>
  BY DEF DaemonInv
<1>3. PICK h \in Seq(Nat) : h = held \o buf /\ AllDue \o h = [k \in 1 .. taken |-> k]
  BY OneRun
<1>4. AllDue \in Seq(Nat)
  BY OneRun
<1>5. dpc # "write" => h = held
  <2>1. held \o <<>> = held
    BY <1>1, ConcatEmptySeq
  <2> QED
    BY <1>3, <2>1 DEF DaemonInv
<1>6. ASSUME NEW n \in 0 .. MaxChunk, Read(n)
      PROVE  DaemonInv'
  <2>1. /\ n \in Nat /\ taken' = taken + n /\ buf' = [k \in 1 .. n |-> taken + k]
        /\ UNCHANGED <<held, files, lost, count>> /\ dpc = "read"
        /\ (n = 0 => dpc' = "sleep") /\ (n # 0 => dpc' = "write")
    BY <1>6 DEF Read, Goto, Fresh
  <2>2. AllDue' = AllDue
    BY <2>1 DEF AllDue, Due
  <2>3. AllDue \o held = [k \in 1 .. taken |-> k]
    BY <1>3, <1>5, <2>1
  <2>4. (AllDue \o held) \o buf' = [k \in 1 .. taken + n |-> k]
    BY <1>1, <2>1, <2>3, NextRecords, Zenon
  <2>5. FilesInOrder'
    BY <2>1, <2>2, <2>4, Zenon DEF FilesInOrder
  <2>6. buf' \in Seq(Nat) /\ taken' \in Nat /\ (n = 0 => buf' = <<>>)
    BY <1>1, <2>1
  <2>7. lost[count] = <<>>
    BY <2>1 DEF DaemonInv
  <2> QED
    BY <1>1, <1>2, <2>1, <2>5, <2>6, <2>7 DEF DaemonInv
<1>7. ASSUME NEW n \in 0 .. MaxChunk, ReadError(n)
      PROVE  DaemonInv'
  <2>1. /\ n \in Nat /\ taken' = taken + n /\ dpc = "read" /\ dpc' = "exit" /\ count' = count
        /\ Flush(held, Fresh(n))
    BY <1>7 DEF ReadError, do_exit
  <2>2. PICK b \in Seq(Nat) : b = Fresh(n) /\ b = [k \in 1 .. n |-> taken + k]
    <3>1. [k \in 1 .. n |-> taken + k] \in Seq(Nat)
      BY <1>1, <2>1
    <3> QED
      BY <3>1, Zenon DEF Fresh
  <2>3. lost[count] = <<>> /\ Flush(held, b)
    BY <2>1, <2>2 DEF DaemonInv
  <2>4. /\ files' \in [0 .. MaxCount -> Seq(Nat)] /\ lost' \in [0 .. MaxCount -> Seq(Nat)]
        /\ \A f \in 0 .. MaxCount : f > count => files'[f] = <<>> /\ lost'[f] = <<>>
        /\ held' = <<>> /\ buf' = <<>>
        /\ AllDue' = AllDue \o (held \o b)
        /\ (AllDue' \o held') \o buf' = AllDue'
    BY <1>1, <2>3, FlushKeeps
  <2>5. AllDue \o held = [k \in 1 .. taken |-> k]
    BY <1>3, <1>5, <2>1
  <2>6. (AllDue \o held) \o b = [k \in 1 .. taken + n |-> k]
    BY <1>1, <2>1, <2>2, <2>5, NextRecords, Zenon
  <2>7. (AllDue \o held) \o b = AllDue \o (held \o b)
    BY <1>1, <1>4, Associates, Zenon
  <2>8. FilesInOrder'
    BY <2>1, <2>4, <2>6, <2>7, Zenon DEF FilesInOrder
  <2>9. <<>> \in Seq(Nat) /\ taken' \in Nat
    BY <1>1, <2>1
  <2> QED
    BY <1>1, <2>1, <2>4, <2>8, <2>9 DEF DaemonInv
<1>8. CASE Write
  <2>1. PICK n \in 0 .. Len(h) :
            /\ files' = [files EXCEPT ![count] = @ \o SubSeq(h, 1, n)]
            /\ held' = SubSeq(h, n + 1, Len(h))
    BY <1>3, <1>8 DEF Write
  <2>2. buf' = <<>> /\ UNCHANGED <<taken, lost, count>> /\ dpc = "write" /\ dpc' = "read"
    BY <1>8 DEF Write, Goto
  <2>3. PICK a \in Seq(Nat), r \in Seq(Nat) :
            a = SubSeq(h, 1, n) /\ r = SubSeq(h, n + 1, Len(h)) /\ a \o r = h
    BY Cuts, Zenon
  <2>4. PICK e \in Seq(Nat) : e = <<>>
    <3>1. <<>> \in Seq(Nat)
      OBVIOUS
    <3> QED
      BY <3>1, Zenon
  <2>5. lost[count] = <<>> /\ lost[count] \o e = lost[count]
    <3>1. lost[count] = <<>>
      BY <2>2 DEF DaemonInv
    <3> QED
      BY <2>4, <3>1, ConcatEmptySeq
  <2>6. files' = [files EXCEPT ![count] = @ \o a] /\ lost' = [lost EXCEPT ![count] = @ \o e]
    BY <1>1, <1>2, <2>1, <2>2, <2>3, <2>5
  <2>7. /\ files' \in [0 .. MaxCount -> Seq(Nat)] /\ lost' \in [0 .. MaxCount -> Seq(Nat)]
        /\ \A f \in 0 .. MaxCount : f > count => files'[f] = <<>> /\ lost'[f] = <<>>
        /\ AllDue' = AllDue \o (a \o e)
    BY <2>5, <2>6, Grows
  <2>8. AllDue' = AllDue \o a
    BY <2>4, <2>7, ConcatEmptySeq
  <2>9. (AllDue \o a) \o r = AllDue \o (a \o r)
    BY <1>4, Associates, Zenon
  <2>10. AllDue' \o held' = [k \in 1 .. taken |-> k]
    BY <1>3, <2>1, <2>3, <2>8, <2>9, Zenon
  <2>11. (AllDue' \o held') \o <<>> = AllDue' \o held'
    <3>1. AllDue \o (a \o r) \in Seq(Nat)
      BY <1>3, <1>4, <2>3, ConcatProperties, Zenon
    <3>2. AllDue' \o held' = AllDue \o (a \o r)
      BY <2>1, <2>3, <2>8, <2>9
    <3> QED
      BY <3>1, <3>2, ConcatEmptySeq
  <2>12. FilesInOrder'
    BY <2>2, <2>10, <2>11, Zenon DEF FilesInOrder
  <2>13. held' \in Seq(Nat) /\ buf' \in Seq(Nat)
    <3>1. held' = r /\ buf' = e
      BY <2>1, <2>2, <2>3, <2>4, Zenon
    <3> QED
      BY <3>1, Zenon
  <2> QED
    BY <1>1, <2>2, <2>5, <2>7, <2>12, <2>13 DEF DaemonInv
<1>9. CASE WriteError \/ catchTerm
  <2>1. Flush(h, <<>>) /\ UNCHANGED <<taken, count>> /\ dpc' = "exit"
    BY <1>3, <1>9 DEF WriteError, catchTerm, do_exit
  <2> QED
    BY <1>3, <2>1, EndKeeps
<1>10. CASE SleepError \/ Close
  <2>1. Flush(held, <<>>) /\ UNCHANGED <<taken, count>> /\ dpc' \in {"exit", "closein"}
        /\ dpc \in {"sleep", "close"}
    BY <1>10 DEF SleepError, Close, do_exit, Goto
  <2>2. h = held
    BY <1>5, <2>1
  <2> QED
    BY <1>3, <2>1, <2>2, EndKeeps
<1>11. ASSUME NEW ok, OpenNext(ok)
       PROVE  DaemonInv'
  <2>1. /\ UNCHANGED <<taken, buf, held, files, lost>> /\ count' = count + 1 /\ count < MaxCount
        /\ dpc = "next" /\ dpc' \in {"openin", "exit"}
    BY <1>11 DEF OpenNext, Goto
  <2>2. buf = <<>> /\ held = <<>>
    BY <2>1 DEF DaemonInv
  <2>3. FilesInOrder'
    BY <2>1, NoneMoved DEF DaemonInv
  <2>4. count' \in 0 .. MaxCount /\ count' > count /\ lost[count'] = <<>>
    BY <1>1, <1>2, <2>1
  <2>5. \A f \in 0 .. MaxCount : f > count' => f > count
    BY <1>1, <2>1
  <2> QED
    BY <1>1, <1>2, <2>1, <2>2, <2>3, <2>4, <2>5 DEF DaemonInv
<1>12. CASE Loop \/ Sleep \/ CloseIn \/ Resume \/ catchSig \/ \E ok \in BOOLEAN : OpenIn(ok)
  <2>1. UNCHANGED <<taken, buf, held, files, lost, count>>
    BY <1>12 DEF Loop, Sleep, CloseIn, Resume, catchSig, OpenIn
  <2>2. /\ dpc' # "write" => buf = <<>>
        /\ dpc' \in {"closein", "next", "openin", "resume", "exit"} => held = <<>>
        /\ dpc' \notin {"closein", "next", "exit"} => lost[count] = <<>>
    BY <1>12 DEF Loop, Sleep, CloseIn, Resume, catchSig, OpenIn, Goto, DaemonInv
  <2>3. FilesInOrder'
    BY <2>1, NoneMoved DEF DaemonInv
  <2> QED
    BY <1>1, <1>2, <2>1, <2>2, <2>3 DEF DaemonInv
<1> QED
  BY <1>6, <1>7, <1>8, <1>9, <1>10, <1>11, <1>12 DEF DaemonNext, Main

(* Before the first record is read the files are empty.                    *)
LEMMA DaemonStarts ==
    ASSUME DaemonOff \/ DaemonInit
    PROVE  DaemonInv
<1> USE LogDaemonAssumption
<1>1. /\ taken = 0 /\ buf = <<>> /\ held = <<>> /\ count = 0 /\ MaxCount \in Nat
      /\ files = [f \in 0 .. MaxCount |-> <<>>] /\ lost = [f \in 0 .. MaxCount |-> <<>>]
  BY DEF DaemonOff, DaemonInit, NoRecords
<1>2. files \in [0 .. MaxCount -> Seq(Nat)] /\ lost \in [0 .. MaxCount -> Seq(Nat)]
  BY <1>1
<1>3. <<>> \o <<>> = <<>>
  BY ConcatEmptySeq
<1>4. PICK D \in [0 .. MaxCount -> Seq(Nat)] : D = Due /\ AllDue = Cat(D, MaxCount)
  BY <1>2, DueType
<1>5. \A f \in 0 .. MaxCount : D[f] = <<>>
  BY <1>1, <1>3, <1>4 DEF Due
<1>6. PICK all \in [0 .. MaxCount -> Seq(Nat)] :
               /\ Cat(D, MaxCount) = all[MaxCount] /\ all[0] = D[0]
               /\ \A f \in 1 .. MaxCount : all[f] = all[f - 1] \o D[f]
  BY <1>1, CatIs
<1> DEFINE G == {m \in 0 .. MaxCount : all[m] = <<>>}
<1>7. 0 \in G
  BY <1>1, <1>5, <1>6
<1>8. ASSUME NEW m \in 0 .. MaxCount, m \in G, m < MaxCount
      PROVE  m + 1 \in G
  <2>1. m + 1 \in 1 .. MaxCount /\ (m + 1) - 1 = m /\ m + 1 \in 0 .. MaxCount
    BY <1>1, <1>8
  <2>2. all[m + 1] = all[m] \o D[m + 1] /\ all[m] = <<>> /\ D[m + 1] = <<>>
    BY <1>5, <1>6, <1>8, <2>1
  <2> QED
    BY <1>3, <2>1, <2>2
<1> HIDE DEF G
<1>9. MaxCount \in G
  <2>1. \A m \in 0 .. MaxCount : m \in G /\ m < MaxCount => m + 1 \in G
    BY <1>8
  <2>2. \A m \in 0 .. MaxCount : m \in G
    BY <1>1, <1>7, <2>1, UpTo
  <2> QED
    BY <1>1, <2>2
<1>10. AllDue = <<>>
  BY <1>4, <1>6, <1>9 DEF G
<1>11. FilesInOrder
  <2>1. <<>> = [k \in 1 .. 0 |-> k]
    OBVIOUS
  <2>2. (AllDue \o held) \o buf = <<>>
    BY <1>1, <1>3, <1>10
  <2> QED
    BY <1>1, <2>1, <2>2 DEF FilesInOrder
<1>12. <<>> \in Seq(Nat)
  OBVIOUS
<1> QED
  BY <1>1, <1>2, <1>11, <1>12 DEF DaemonInv

-----------------------------------------------------------------------------
(* The launcher's command line.                                            *)

App == [core : Word \cup {"0"}, prog : Seq(Word)]

(* What get_apps has read: an application once a keyword was seen.         *)
Reading == {r \in [just : Nat, apps : Seq(App), ok : BOOLEAN] :
                r.just > 0 => Len(r.apps) > 0}

(* The keywords among the first k words of l.                              *)
KeysTo(l, k) == {j \in 1 .. k : l[j] = CORE}
Rank(l, j) == Cardinality(KeysTo(l, j))

(* The application of the keyword j when its last word is the e-th; e is   *)
(* the last word of j among the first k words.                             *)
AppOf(l, j, e) == [core |-> IF e > j THEN l[j + 1] ELSE "0", prog |-> SubSeq(l, j + 2, e)]
EndsAt(l, k, j, e) == /\ e \in j .. k
                      /\ \A m \in j + 1 .. e : l[m] # CORE
                      /\ e < k => l[e + 1] = CORE

(* The keyword of the application read last.                               *)
LastKey(l, k, j) == j \in 1 .. k /\ l[j] = CORE /\ \A m \in j + 1 .. k : l[m] # CORE

(* r is what get_apps should have read after k words.                      *)
ReadTo(l, k, r) ==
    r.ok => /\ Len(r.apps) = Cardinality(KeysTo(l, k))
            /\ k = 0 => r.just = 0
            /\ k > 0 => l[1] = CORE /\ \E j \in 1 .. k : LastKey(l, k, j) /\ r.just = k - j + 1
            /\ \A j \in KeysTo(l, k) : \E e \in j .. k :
                   EndsAt(l, k, j, e) /\ r.apps[Rank(l, j)] = AppOf(l, j, e)

(* Whatever the command line, what is read has its type.                   *)
LEMMA ReadWordType ==
    ASSUME NEW r \in Reading, NEW w \in Word
    PROVE  ReadWord(r, w) \in Reading
<1> DEFINE n == Len(r.apps)
           x == [core |-> w, prog |-> r.apps[n].prog]
           y == [core |-> r.apps[n].core, prog |-> Append(r.apps[n].prog, w)]
<1>1. r.just \in Nat /\ r.apps \in Seq(App) /\ r.ok \in BOOLEAN /\ (r.just > 0 => Len(r.apps) > 0)
  BY DEF Reading
<1>2. NoApp \in App
  BY DEF NoApp, App
<1>3. r.just > 0 => x \in App /\ y \in App
  <2> SUFFICES ASSUME r.just > 0
               PROVE  x \in App /\ y \in App
    OBVIOUS
  <2>1. n \in 1 .. Len(r.apps)
    BY <1>1
  <2>2. r.apps[n] \in App
    BY <1>1, <2>1
  <2>3. r.apps[n].core \in Word \cup {"0"} /\ r.apps[n].prog \in Seq(Word)
    BY <2>2 DEF App
  <2>4. Append(r.apps[n].prog, w) \in Seq(Word)
    BY <2>3
  <2> HIDE DEF n
  <2> QED
    BY <2>3, <2>4 DEF App
<1> HIDE DEF n, x, y
<1>4. CASE w = CORE
  <2>1. ReadWord(r, w) = [just |-> 1, apps |-> Append(r.apps, NoApp), ok |-> r.ok]
    BY <1>4 DEF ReadWord
  <2>2. Append(r.apps, NoApp) \in Seq(App) /\ Len(Append(r.apps, NoApp)) > 0
    BY <1>1, <1>2
  <2> QED
    BY <1>1, <2>1, <2>2 DEF Reading
<1>5. ASSUME NEW a \in App, r.just > 0,
             ReadWord(r, w) = [just |-> r.just + 1, apps |-> [r.apps EXCEPT ![n] = a], ok |-> r.ok]
      PROVE  ReadWord(r, w) \in Reading
  <2>1. [r.apps EXCEPT ![n] = a] \in Seq(App) /\ Len([r.apps EXCEPT ![n] = a]) = Len(r.apps)
    <3>1. n \in 1 .. Len(r.apps)
      BY <1>1, <1>5 DEF n
    <3> QED
      BY <1>1, <3>1, ExceptSeq
  <2> QED
    BY <1>1, <1>5, <2>1 DEF Reading
<1>6. CASE w # CORE /\ r.just = 1
  BY <1>3, <1>5, <1>6 DEF ReadWord, x, n
<1>7. CASE w # CORE /\ r.just >= 2
  <2>1. r.just # 1 /\ r.just > 0
    BY <1>1, <1>7
  <2> QED
    BY <1>3, <1>5, <1>7, <2>1 DEF ReadWord, y, n
<1>8. CASE w # CORE /\ r.just = 0
  BY <1>1, <1>8 DEF ReadWord, Reading
<1> QED
  BY <1>1, <1>4, <1>6, <1>7, <1>8

(* Keywords are finitely many, and ranked in their order.                  *)
LEMMA KeysFinite ==
    ASSUME NEW l, NEW k \in Nat
    PROVE  /\ IsFiniteSet(KeysTo(l, k))
           /\ Cardinality(KeysTo(l, k)) \in Nat
           /\ KeysTo(l, 0) = {} /\ Cardinality(KeysTo(l, 0)) = 0
<1>1. IsFiniteSet(1 .. k) /\ KeysTo(l, k) \subseteq 1 .. k
  BY FS_Interval DEF KeysTo
<1>2. IsFiniteSet(KeysTo(l, k))
  BY <1>1, FS_Subset
<1>3. Cardinality(KeysTo(l, k)) \in Nat
  BY <1>2, FS_CardinalityType
<1>4. KeysTo(l, 0) = {}
  BY DEF KeysTo
<1> QED
  BY <1>2, <1>3, <1>4, FS_EmptySet

(* A keyword among the first k words has a rank among theirs.              *)
LEMMA RankRange ==
    ASSUME NEW l, NEW k \in Nat, NEW j \in KeysTo(l, k)
    PROVE  Rank(l, j) \in 1 .. Cardinality(KeysTo(l, k))
<1>1. j \in Nat /\ j \in KeysTo(l, j) /\ KeysTo(l, j) \subseteq KeysTo(l, k)
  BY DEF KeysTo
<1>2. Cardinality(KeysTo(l, j)) <= Cardinality(KeysTo(l, k))
  BY <1>1, KeysFinite, FS_Subset
<1>3. Cardinality(KeysTo(l, j)) # 0
  BY <1>1, KeysFinite, FS_EmptySet
<1> QED
  BY <1>1, <1>2, <1>3, KeysFinite DEF Rank

(* An earlier keyword has a lower rank.                                    *)
LEMMA RankOrder ==
    ASSUME NEW l, NEW k \in Nat, NEW j \in KeysTo(l, k), NEW i1 \in KeysTo(l, k), i1 < j
    PROVE  Rank(l, i1) < Rank(l, j)
<1> DEFINE A == KeysTo(l, i1)
           B == KeysTo(l, j)
<1>1. i1 \in Nat /\ j \in Nat /\ A \subseteq B /\ j \in B /\ j \notin A
  BY DEF KeysTo
<1>2. IsFiniteSet(A) /\ IsFiniteSet(B) /\ Cardinality(A) \in Nat /\ Cardinality(B) \in Nat
  BY <1>1, KeysFinite
<1> HIDE DEF A, B
<1>3. Cardinality(A) < Cardinality(B)
  <2>1. A \in SUBSET B /\ A # B
    BY <1>1
  <2>2. Cardinality(A) <= Cardinality(B) /\ Cardinality(A) # Cardinality(B)
    BY <1>2, <2>1, FS_Subset
  <2> QED
    BY <1>2, <2>2
<1> QED
  BY <1>3 DEF Rank, A, B

(* One more word changes the keywords only if it is one.                   *)
LEMMA KeysNext ==
    ASSUME NEW l, NEW k \in Nat
    PROVE  /\ l[k + 1] # CORE => KeysTo(l, k + 1) = KeysTo(l, k)
           /\ l[k + 1] = CORE => /\ KeysTo(l, k + 1) = KeysTo(l, k) \cup {k + 1}
                                 /\ Cardinality(KeysTo(l, k + 1)) = Cardinality(KeysTo(l, k)) + 1
<1>1. l[k + 1] # CORE => KeysTo(l, k + 1) = KeysTo(l, k)
  BY DEF KeysTo
<1>2. k + 1 \notin KeysTo(l, k)
  BY DEF KeysTo
<1>3. l[k + 1] = CORE => KeysTo(l, k + 1) = KeysTo(l, k) \cup {k + 1}
  BY DEF KeysTo
<1>4. l[k + 1] = CORE => Cardinality(KeysTo(l, k + 1)) = Cardinality(KeysTo(l, k)) + 1
  BY <1>2, <1>3, KeysFinite, FS_AddElement
<1> QED
  BY <1>1, <1>3, <1>4

(* A keyword begins an application without words, and ends the last one.   *)
LEMMA ReadKeyword ==
    ASSUME NEW l, NEW k \in Nat, NEW r, NEW s,
           ReadTo(l, k, r), r.ok, r.apps \in Seq(App), l[k + 1] = CORE,
           s = [just |-> 1, apps |-> Append(r.apps, NoApp), ok |-> r.ok]
    PROVE  ReadTo(l, k + 1, s)
<1>1. s.just = 1 /\ s.apps = Append(r.apps, NoApp)
  OBVIOUS
<1>2. Len(r.apps) = Cardinality(KeysTo(l, k)) /\ Len(r.apps) \in Nat
  BY DEF ReadTo
<1>3. /\ Len(s.apps) = Len(r.apps) + 1 /\ s.apps[Len(r.apps) + 1] = NoApp
      /\ \A m \in 1 .. Len(r.apps) : s.apps[m] = r.apps[m]
  BY <1>1
<1>4. KeysTo(l, k + 1) = KeysTo(l, k) \cup {k + 1}
      /\ Cardinality(KeysTo(l, k + 1)) = Cardinality(KeysTo(l, k)) + 1
  BY KeysNext
<1>5. l[1] = CORE
  <2>1. k = 0 \/ k > 0
    OBVIOUS
  <2> QED
    BY <2>1 DEF ReadTo
<1>6. LastKey(l, k + 1, k + 1) /\ s.just = (k + 1) - (k + 1) + 1
  BY <1>1 DEF LastKey
<1>7. ASSUME NEW j \in KeysTo(l, k + 1)
      PROVE  \E e \in j .. k + 1 : EndsAt(l, k + 1, j, e) /\ s.apps[Rank(l, j)] = AppOf(l, j, e)
  <2>1. CASE j = k + 1
    <3>1. EndsAt(l, k + 1, j, k + 1)
      BY <2>1 DEF EndsAt
    <3>2. Rank(l, j) = Len(r.apps) + 1
      BY <1>2, <1>4, <2>1 DEF Rank
    <3>3. SubSeq(l, j + 2, k + 1) = <<>>
      BY <2>1, SubSeqEmpty
    <3>4. AppOf(l, j, k + 1) = NoApp
      BY <2>1, <3>3 DEF AppOf, NoApp
    <3>5. k + 1 \in j .. k + 1
      BY <2>1
    <3> QED
      BY <1>3, <3>1, <3>2, <3>4, <3>5
  <2>2. CASE j # k + 1
    <3>1. j \in KeysTo(l, k) /\ j \in Nat
      BY <1>4, <2>2 DEF KeysTo
    <3>2. PICK e \in j .. k : EndsAt(l, k, j, e) /\ r.apps[Rank(l, j)] = AppOf(l, j, e)
      BY <3>1 DEF ReadTo
    <3>3. EndsAt(l, k + 1, j, e)
      BY <3>1, <3>2 DEF EndsAt
    <3>4. Rank(l, j) \in 1 .. Len(r.apps)
      BY <1>2, <3>1, RankRange
    <3>5. s.apps[Rank(l, j)] = r.apps[Rank(l, j)]
      BY <1>3, <3>4
    <3>6. e \in j .. k + 1
      BY <3>1, <3>2
    <3> QED
      BY <3>2, <3>3, <3>5, <3>6
  <2> QED
    BY <2>1, <2>2
<1>8. \E j \in 1 .. k + 1 : LastKey(l, k + 1, j) /\ s.just = (k + 1) - j + 1
  <2>1. k + 1 \in 1 .. k + 1
    OBVIOUS
  <2> QED
    BY <1>6, <2>1
<1>9. k + 1 # 0 /\ Len(s.apps) = Cardinality(KeysTo(l, k + 1))
  BY <1>2, <1>3, <1>4
<1> QED
  BY <1>5, <1>7, <1>8, <1>9 DEF ReadTo

(* Any other word belongs to the application read last.                    *)
LEMMA ReadOther ==
    ASSUME NEW l, NEW k \in Nat, NEW r, NEW s, NEW last \in 1 .. k,
           ReadTo(l, k, r), r.ok, r.apps \in Seq(App), l[k + 1] # CORE,
           LastKey(l, k, last), s.just = (k + 1) - last + 1,
           AppOf(l, last, k + 1) \in App,
           s.apps = [r.apps EXCEPT ![Len(r.apps)] = AppOf(l, last, k + 1)]
    PROVE  ReadTo(l, k + 1, s)
<1> DEFINE n == Len(r.apps)
           a == AppOf(l, last, k + 1)
<1>1. n = Cardinality(KeysTo(l, k)) /\ n \in Nat
  BY DEF ReadTo
<1>2. last \in KeysTo(l, k) /\ KeysTo(l, last) = KeysTo(l, k)
  BY DEF LastKey, KeysTo
<1>3. Rank(l, last) = n /\ n \in 1 .. n
  <2>1. Rank(l, last) = n
    BY <1>1, <1>2 DEF Rank
  <2> QED
    BY <1>1, <1>2, <2>1, RankRange
<1>4. Len(s.apps) = n /\ s.apps[n] = a /\ \A m \in 1 .. n : m # n => s.apps[m] = r.apps[m]
  <2> HIDE DEF a
  <2> SUFFICES ASSUME a \in App, s.apps = [r.apps EXCEPT ![n] = a]
               PROVE  Len(s.apps) = n /\ s.apps[n] = a /\ \A m \in 1 .. n : m # n => s.apps[m] = r.apps[m]
    BY DEF a
  <2> QED
    BY <1>3, ExceptSeq
<1>5. KeysTo(l, k + 1) = KeysTo(l, k)
  BY KeysNext
<1>6. LastKey(l, k + 1, last) /\ last \in 1 .. k + 1
  BY DEF LastKey
<1>7. l[1] = CORE
  <2>1. k > 0
    OBVIOUS
  <2> QED
    BY <2>1 DEF ReadTo
<1>8. ASSUME NEW j \in KeysTo(l, k + 1)
      PROVE  \E e \in j .. k + 1 : EndsAt(l, k + 1, j, e) /\ s.apps[Rank(l, j)] = AppOf(l, j, e)
  <2>1. j \in KeysTo(l, k) /\ j \in 1 .. k /\ l[j] = CORE
    BY <1>5 DEF KeysTo
  <2>2. j <= last
    BY <2>1 DEF LastKey
  <2>3. CASE j = last
    <3>1. EndsAt(l, k + 1, j, k + 1)
      BY <1>6, <2>3 DEF EndsAt, LastKey
    <3>2. k + 1 \in j .. k + 1
      BY <2>1
    <3> QED
      BY <1>3, <1>4, <2>3, <3>1, <3>2
  <2>4. CASE j # last
    <3>1. j < last
      BY <2>1, <2>2, <2>4
    <3>2. PICK e \in j .. k : EndsAt(l, k, j, e) /\ r.apps[Rank(l, j)] = AppOf(l, j, e)
      BY <2>1 DEF ReadTo
    <3>3. e < last
      BY <2>1, <3>1, <3>2 DEF EndsAt, LastKey
    <3>4. EndsAt(l, k + 1, j, e)
      BY <2>1, <3>2, <3>3 DEF EndsAt
    <3>5. Rank(l, j) < n /\ Rank(l, j) \in 1 .. n
      BY <1>1, <1>2, <1>3, <2>1, <3>1, RankOrder, RankRange
    <3>6. s.apps[Rank(l, j)] = r.apps[Rank(l, j)]
      <4> HIDE DEF n, a
      <4>1. Rank(l, j) # n
        BY <1>1, <3>5
      <4> QED
        BY <1>4, <3>5, <4>1
    <3>7. e \in j .. k + 1
      BY <2>1, <3>2
    <3> QED
      BY <3>2, <3>4, <3>6, <3>7
  <2> QED
    BY <2>3, <2>4
<1>9. k + 1 # 0 /\ Len(s.apps) = Cardinality(KeysTo(l, k + 1))
  BY <1>1, <1>4, <1>5
<1> QED
  BY <1>6, <1>7, <1>8, <1>9 DEF ReadTo

(* get_apps reads each word as it should.                                  *)
LEMMA ReadStep ==
    ASSUME NEW l \in Seq(Word), NEW k \in Nat, k < Len(l), NEW r \in Reading, ReadTo(l, k, r)
    PROVE  ReadTo(l, k + 1, ReadWord(r, l[k + 1]))
<1> DEFINE w == l[k + 1]
           s == ReadWord(r, w)
           n == Len(r.apps)
<1>1. k + 1 \in 1 .. Len(l) /\ w \in Word
  BY LenProperties
<1>2. r.just \in Nat /\ r.apps \in Seq(App) /\ r.ok \in BOOLEAN /\ (r.just > 0 => Len(r.apps) > 0)
  BY DEF Reading
<1>3. s.ok => r.ok
  BY DEF ReadWord
<1> SUFFICES ASSUME s.ok
             PROVE  ReadTo(l, k + 1, s)
  BY DEF ReadTo
<1>4. r.ok
  BY <1>3
<1>5. CASE w = CORE
  <2>1. s = [just |-> 1, apps |-> Append(r.apps, NoApp), ok |-> r.ok]
    BY <1>5 DEF ReadWord
  <2> HIDE DEF s
  <2> QED
    BY <1>2, <1>4, <1>5, <2>1, ReadKeyword
<1>6. CASE w # CORE
  <2>1. r.just > 0
    <3>1. r.just = 0 => s.ok = FALSE
      BY <1>6 DEF ReadWord
    <3> QED
      BY <1>2, <3>1
  <2>2. k > 0
    <3>1. k # 0
      BY <1>4, <2>1 DEF ReadTo
    <3> QED
      BY <3>1
  <2>3. PICK last \in 1 .. k : LastKey(l, k, last) /\ r.just = k - last + 1
    BY <1>4, <2>2 DEF ReadTo
  <2>4. n = Cardinality(KeysTo(l, k)) /\ n \in 1 .. n
    BY <1>2, <1>4, <2>1 DEF ReadTo
  <2>5. last \in KeysTo(l, k) /\ KeysTo(l, last) = KeysTo(l, k)
    BY <2>3 DEF LastKey, KeysTo
  <2>6. PICK e \in last .. k : EndsAt(l, k, last, e) /\ r.apps[Rank(l, last)] = AppOf(l, last, e)
    BY <1>4, <2>5 DEF ReadTo
  <2>7. e = k
    BY <2>3, <2>6 DEF EndsAt, LastKey
  <2>8. r.apps[n] = AppOf(l, last, k)
    BY <2>4, <2>5, <2>6, <2>7 DEF Rank
  <2>9. r.apps[n].core = (IF k > last THEN l[last + 1] ELSE "0")
        /\ r.apps[n].prog = SubSeq(l, last + 2, k)
    BY <2>8 DEF AppOf
  <2>10. r.apps[n] \in App
    BY <1>2, <2>4
  <2>11. s.just = (k + 1) - last + 1 /\ s.apps = [r.apps EXCEPT ![n] = AppOf(l, last, k + 1)]
         /\ AppOf(l, last, k + 1) \in App
    <3>1. CASE r.just = 1
      <4>1. k = last
        BY <2>3, <3>1
      <4>2. s = [just |-> r.just + 1, ok |-> r.ok,
                 apps |-> [r.apps EXCEPT ![n] = [core |-> w, prog |-> r.apps[n].prog]]]
        BY <1>6, <3>1 DEF ReadWord
      <4>3. SubSeq(l, last + 2, k) = <<>> /\ SubSeq(l, last + 2, k + 1) = <<>>
        BY <4>1, SubSeqEmpty
      <4>4. AppOf(l, last, k + 1) = [core |-> w, prog |-> r.apps[n].prog]
        <5>1. k + 1 > last /\ l[last + 1] = w
          BY <4>1
        <5> QED
          BY <2>9, <4>3, <5>1 DEF AppOf
      <4>5. AppOf(l, last, k + 1) \in App
        <5>1. r.apps[n].prog \in Seq(Word)
          BY <2>10 DEF App
        <5> QED
          BY <1>1, <4>4, <5>1 DEF App
      <4>6. s.just = (k + 1) - last + 1
        BY <2>3, <4>1, <4>2
      <4> QED
        BY <4>2, <4>4, <4>5, <4>6
    <3>2. CASE r.just # 1
      <4>1. k > last /\ r.just >= 2
        BY <1>2, <2>1, <2>3, <3>2
      <4>2. s = [just |-> r.just + 1, ok |-> r.ok,
                 apps |-> [r.apps EXCEPT ![n] = [core |-> r.apps[n].core,
                                                 prog |-> Append(r.apps[n].prog, w)]]]
        BY <1>6, <3>2, <4>1 DEF ReadWord
      <4>3. SubSeq(l, last + 2, k + 1) = Append(SubSeq(l, last + 2, k), w)
        <5>1. last + 2 \in 1 .. Len(l) /\ k + 1 \in last + 2 .. Len(l) /\ (k + 1) - 1 = k
          BY <1>1, <4>1
        <5>2. SubSeq(l, last + 2, k + 1) = SubSeq(l, last + 2, (k + 1) - 1) \o <<l[k + 1]>>
          BY <5>1, SubSeqRecursiveSecond
        <5>3. SubSeq(l, last + 2, k) \in Seq(Word)
          BY <2>9, <2>10 DEF App
        <5>4. Append(SubSeq(l, last + 2, k), w) = SubSeq(l, last + 2, k) \o <<w>>
          BY <1>1, <5>3, AppendIsConcat
        <5> QED
          BY <5>1, <5>2, <5>4
      <4>4. AppOf(l, last, k + 1) = [core |-> r.apps[n].core, prog |-> Append(r.apps[n].prog, w)]
        <5>1. k + 1 > last
          BY <4>1
        <5> QED
          BY <2>9, <4>1, <4>3, <5>1 DEF AppOf
      <4>5. AppOf(l, last, k + 1) \in App
        <5>1. r.apps[n].prog \in Seq(Word) /\ r.apps[n].core \in Word \cup {"0"}
          BY <2>10 DEF App
        <5>2. Append(r.apps[n].prog, w) \in Seq(Word)
          BY <1>1, <5>1
        <5> DEFINE prog == Append(r.apps[n].prog, w)
        <5>3. AppOf(l, last, k + 1) = [core |-> r.apps[n].core, prog |-> prog] /\ prog \in Seq(Word)
          BY <4>4, <5>2
        <5> HIDE DEF prog
        <5> QED
          BY <5>1, <5>3 DEF App
      <4>6. s.just = (k + 1) - last + 1
        BY <2>3, <4>2
      <4> QED
        BY <4>2, <4>4, <4>5, <4>6
    <3> QED
      BY <3>1, <3>2
  <2> HIDE DEF s
  <2> QED
    BY <1>2, <1>4, <1>6, <2>3, <2>11, ReadOther
<1> QED
  BY <1>5, <1>6

(* The recursion of get_apps is one, and it reads the whole command line.  *)
LEMMA GetApps ==
    ASSUME argv \in Seq(Word)
    PROVE  get_apps \in Reading /\ ReadTo(argv, Len(argv), get_apps)
<1> DEFINE N == Len(argv)
           start == [just |-> 0, apps |-> <<>>, ok |-> TRUE]
           Step(q, k) == CHOOSE s \in {ReadWord(r, argv[k]) : r \in {q}} : TRUE
           P(g) == g = [k \in 0 .. N |-> IF k = 0 THEN start ELSE Step(g[k - 1], k)]
           read == CHOOSE g : P(g)
           step == [x \in (1 .. N) \X Reading |-> Step(x[2], x[1])]
<1>0. ASSUME NEW r, NEW k
      PROVE  Step(r, k) = ReadWord(r, argv[k])
  <2> HIDE DEF read, step
  <2>1. {ReadWord(q, argv[k]) : q \in {r}} = {ReadWord(r, argv[k])}
    OBVIOUS
  <2> QED
    BY <2>1
<1>1. get_apps = read[N]
  BY DEF get_apps
<1>2. N \in Nat /\ \A k \in 1 .. N : argv[k] \in Word
  BY LenProperties
<1>3. ASSUME NEW k \in 1 .. N, NEW r \in Reading
      PROVE  Step(r, k) \in Reading
  BY <1>2, <1>0, ReadWordType
<1>4. ASSUME NEW k \in Nat, k < N, NEW r \in Reading, ReadTo(argv, k, r)
      PROVE  ReadTo(argv, k + 1, Step(r, k + 1))
  BY <1>0, <1>4, ReadStep
<1>5. start \in Reading
  BY DEF Reading
<1>6. ReadTo(argv, 0, start)
  <2>1. KeysTo(argv, 0) = {} /\ Cardinality(KeysTo(argv, 0)) = 0
    BY KeysFinite
  <2>2. Len(start.apps) = 0 /\ start.just = 0
    OBVIOUS
  <2> QED
    BY <2>1, <2>2 DEF ReadTo
<1> HIDE DEF Step, start, N
<1>7. step \in [(1 .. N) \X Reading -> Reading] /\
      \A k \in 1 .. N : \A d \in Reading : step[<<k, d>>] = Step(d, k)
  BY <1>3
<1> HIDE DEF step
<1>8. PICK g \in [0 .. N -> Reading] : Recurses(g, N, start, step)
  BY <1>2, <1>5, <1>7, Recursion
<1>9. P(g)
  <2>1. \A k \in 0 .. N : g[k] = IF k = 0 THEN start ELSE Step(g[k - 1], k)
    <3> TAKE k \in 0 .. N
    <3>1. CASE k = 0
      BY <1>8, <3>1 DEF Recurses
    <3>2. CASE k # 0
      <4>1. k \in 1 .. N /\ k - 1 \in 0 .. N
        BY <1>2, <3>2
      <4>2. g[k - 1] \in Reading
        BY <4>1
      <4> QED
        BY <1>7, <1>8, <3>2, <4>1, <4>2 DEF Recurses
    <3> QED
      BY <3>1, <3>2
  <2> QED
    BY <2>1
<1>10. P(read)
  <2> HIDE DEF P
  <2> QED
    BY <1>9
<1> HIDE DEF read
<1>11. read[0] = start /\ \A k \in 1 .. N : read[k] = Step(read[k - 1], k)
  BY <1>2, <1>10
<1> DEFINE Good(m) == read[m] \in Reading /\ ReadTo(argv, m, read[m])
           G == {m \in 0 .. N : Good(m)}
<1>12. 0 \in G
  BY <1>2, <1>5, <1>6, <1>11
<1>13. \A m \in 0 .. N : m \in G /\ m < N => m + 1 \in G
  <2> SUFFICES ASSUME NEW m \in 0 .. N, m \in G, m < N
               PROVE  m + 1 \in G
    OBVIOUS
  <2>1. m + 1 \in 1 .. N /\ (m + 1) - 1 = m /\ m + 1 \in 0 .. N /\ m \in Nat
    BY <1>2
  <2>2. read[m + 1] = Step(read[m], m + 1)
    BY <1>11, <2>1
  <2>3. Good(m + 1)
    BY <1>3, <1>4, <2>1, <2>2
  <2> HIDE DEF Good
  <2> QED
    BY <2>1, <2>3
<1>14. \A m \in 0 .. N : m \in G
  <2> HIDE DEF G
  <2> QED
    BY <1>2, <1>12, <1>13, UpTo
<1>15. Good(N)
  BY <1>2, <1>14
<1> QED
  BY <1>1, <1>15 DEF N

(* The command line l is split into the applications a as its author meant *)
(* it.                                                                     *)
Meant(l, a) ==
    LET keys == {k \in DOMAIN l : l[k] = CORE}
        upto(k) == Min({m \in keys : m > k} \cup {Len(l) + 1}) - 1
        app(k) == [core |-> IF upto(k) > k THEN l[k + 1] ELSE "0",
                   prog |-> SubSeq(l, k + 2, upto(k))]
        rank(k) == Cardinality({m \in keys : m <= k})
    IN  /\ Len(a) = Cardinality(keys) /\ 1 \in keys
        /\ \A k \in keys : a[rank(k)] = app(k)

(* What get_apps has read after the last word is what was meant.           *)
LEMMA ReadAsMeant ==
    ASSUME NEW l \in Seq(Word), NEW r, ReadTo(l, Len(l), r), r.ok, Len(l) > 0
    PROVE  Meant(l, r.apps)
<1> DEFINE keys == {k \in DOMAIN l : l[k] = CORE}
           N == Len(l)
           after(k) == {m \in keys : m > k} \cup {N + 1}
           upto(k) == Min(after(k)) - 1
<1>1. N \in Nat /\ DOMAIN l = 1 .. N /\ keys = KeysTo(l, N)
  BY LenProperties DEF KeysTo
<1>2. Len(r.apps) = Cardinality(keys) /\ 1 \in keys
  <2>1. l[1] = CORE /\ Len(r.apps) = Cardinality(KeysTo(l, N))
    BY <1>1 DEF ReadTo
  <2>2. 1 \in keys
    BY <1>1, <2>1
  <2> HIDE DEF keys
  <2> QED
    BY <1>1, <2>1, <2>2
<1>3. ASSUME NEW k \in keys
      PROVE  /\ {m \in keys : m <= k} = KeysTo(l, k)
             /\ r.apps[Rank(l, k)] = AppOf(l, k, upto(k))
  <2>1. k \in 1 .. N /\ l[k] = CORE /\ k \in KeysTo(l, N)
    BY <1>1
  <2>2. {m \in keys : m <= k} = KeysTo(l, k)
    BY <1>1, <2>1 DEF KeysTo
  <2>3. PICK e \in k .. N : EndsAt(l, N, k, e) /\ r.apps[Rank(l, k)] = AppOf(l, k, e)
    BY <2>1 DEF ReadTo
  <2>4. e \in k .. N /\ (\A m \in k + 1 .. e : l[m] # CORE) /\ (e < N => l[e + 1] = CORE)
    BY <2>3 DEF EndsAt
  <2>5. e + 1 \in after(k)
    <3>1. CASE e < N
      <4>1. e + 1 \in 1 .. N /\ e + 1 > k /\ l[e + 1] = CORE
        BY <1>1, <2>1, <2>4, <3>1
      <4> QED
        BY <1>1, <4>1
    <3>2. CASE e = N
      BY <3>2
    <3>3. e < N \/ e = N
      <4>1. N \in Nat /\ k \in 1 .. N /\ e \in k .. N
        BY <1>1, <2>1, <2>4
      <4> HIDE DEF N, keys
      <4> QED
        BY <4>1
    <3> HIDE DEF after
    <3> QED
      BY <3>1, <3>2, <3>3
  <2>6. ASSUME NEW m \in after(k)
        PROVE  e + 1 <= m
    BY <1>1, <2>1, <2>4
  <2>7. after(k) \subseteq Nat
    BY <1>1
  <2>8. Min(after(k)) = e + 1
    <3> DEFINE S == after(k)
               x == CHOOSE y \in S : \A z \in S : y <= z
    <3>1. e + 1 \in S /\ (\A z \in S : e + 1 <= z) /\ S \subseteq Nat
      BY <2>5, <2>6, <2>7
    <3>2. Min(S) = x
      BY DEF Min
    <3> HIDE DEF S
    <3>3. x \in S /\ \A z \in S : x <= z
      BY <3>1
    <3>4. x \in Nat /\ e + 1 \in Nat /\ x <= e + 1 /\ e + 1 <= x
      BY <3>1, <3>3
    <3>5. x = e + 1
      BY <3>4
    <3> QED
      BY <3>2, <3>5 DEF S
  <2>9. upto(k) = e
    BY <2>1, <2>4, <2>8
  <2> QED
    BY <2>2, <2>3, <2>9
<1> QED
  BY <1>2, <1>3 DEF Meant, Rank, AppOf

-----------------------------------------------------------------------------
(* The launcher's children.                                                *)

(* The children that still have to be waited for.                          *)
Left == {k \in Apps : child[k] \notin {"none", "reaped"}}

(* The waits still to come are no fewer than the children left; all of     *)
(* them were forked for an application of the command line.                *)
LauncherInv ==
    /\ argv \in Seq(Word) /\ Cardinality({k \in DOMAIN argv : argv[k] = CORE}) <= MaxApps
    /\ child \in [Apps -> {"none", "born", "grouped", "running", "ended", "reaped"}]
    /\ pc \in {"parse", "usage", "fork", "wait", "kill", "rest", "end"}
    /\ i \in Nat /\ Len(apps) \in Nat
    /\ pc \in {"parse", "usage"} => Left = {} /\ i = 0
    /\ pc \in {"fork", "wait", "kill", "rest"} => i < Len(apps) /\ Len(apps) <= MaxApps
    /\ pc = "fork" => Left \subseteq 0 .. i - 1
    /\ pc = "wait" => i = 0 /\ Left \subseteq 0 .. Len(apps) - 1
    /\ pc = "kill" => Cardinality(Left) <= Len(apps) - 1
    /\ pc = "rest" => Cardinality(Left) <= Len(apps) - 1 - i
    /\ pc = "end" => Left = {}
    /\ pc \notin {"parse", "usage"} => Meant(argv, apps)

(* There are finitely many children.                                       *)
LEMMA LeftFinite ==
    IsFiniteSet(Left) /\ Cardinality(Left) \in Nat
<1>1. IsFiniteSet(Apps)
  BY LauncherAssumption, FS_Interval DEF Apps
<1>2. Left \in SUBSET Apps
  BY DEF Left
<1> QED
  BY <1>1, <1>2, FS_Subset, FS_CardinalityType

(* Meant is what the property of the run says.                             *)
LEMMA MeantIs == ParsedAsMeant <=> (pc \notin {"parse", "usage"} => Meant(argv, apps))
BY DEF ParsedAsMeant, Meant

(* A child's step leaves the children left what they were.                 *)
LEMMA ChildInv ==
    ASSUME LauncherInv, NEW k \in Apps, SetGroup(k) \/ launch(k) \/ Exit(k)
    PROVE  LauncherInv'
<1>1. PICK from, to \in {"born", "grouped", "running", "ended"} :
          /\ child[k] = from /\ child' = [child EXCEPT ![k] = to]
          /\ UNCHANGED <<argv, kill_slow_children, apps, pc, i, pids, wpid>>
  BY DEF SetGroup, launch, Exit, ChildStep
<1>2. child' \in [Apps -> {"none", "born", "grouped", "running", "ended", "reaped"}]
  BY <1>1 DEF LauncherInv
<1>3. Left' = Left
  BY <1>1 DEF Left, LauncherInv
<1> QED
  BY <1>1, <1>2, <1>3 DEF LauncherInv

(* A command line that is accepted has an application at least, and no     *)
(* more than the launcher has room for.                                    *)
LEMMA ParseInv ==
    ASSUME LauncherInv, Parse
    PROVE  LauncherInv'
<1> DEFINE valid == /\ get_options /\ get_apps.ok /\ get_apps.just > 2
                    /\ Len(get_apps.apps) = count_num_apps
<1>1. /\ pc = "parse" /\ UNCHANGED <<argv, i, child>>
      /\ apps' = (IF valid THEN get_apps.apps ELSE <<>>)
      /\ pc' = IF valid THEN "fork" ELSE "usage"
  BY DEF Parse
<1>2. argv \in Seq(Word) /\ Cardinality({k \in DOMAIN argv : argv[k] = CORE}) <= MaxApps
      /\ Left = {} /\ i = 0 /\ Left' = Left
  BY <1>1 DEF LauncherInv, Left
<1>3. get_apps \in Reading /\ ReadTo(argv, Len(argv), get_apps)
  BY <1>2, GetApps
<1>4. CASE valid
  <2>1. get_apps.ok /\ get_apps.just > 2 /\ Len(get_apps.apps) = count_num_apps
    BY <1>4
  <2>2. get_apps.apps \in Seq(App) /\ Len(get_apps.apps) > 0 /\ Len(get_apps.apps) \in Nat
    BY <1>3, <2>1 DEF Reading
  <2>3. Len(argv) > 0
    <3>1. Len(argv) # 0
      BY <1>3, <2>1 DEF ReadTo
    <3> QED
      BY <1>2, <3>1, LenProperties
  <2>4. Meant(argv, get_apps.apps)
    BY <1>2, <1>3, <2>1, <2>3, ReadAsMeant
  <2>5. Len(get_apps.apps) <= MaxApps
    BY <1>2, <2>1 DEF count_num_apps
  <2>6. apps' = get_apps.apps /\ pc' = "fork"
    BY <1>1, <1>4
  <2> QED
    BY <1>1, <1>2, <2>2, <2>4, <2>5, <2>6 DEF LauncherInv
<1>5. CASE ~valid
  <2>1. apps' = <<>> /\ pc' = "usage"
    BY <1>1, <1>5
  <2> QED
    BY <1>1, <1>2, <2>1 DEF LauncherInv
<1> QED
  BY <1>4, <1>5

(* fork adds at most the child of the application it is called for.        *)
LEMMA ForkInv ==
    ASSUME LauncherInv, NEW succeeds \in BOOLEAN, Fork(succeeds)
    PROVE  LauncherInv'
<1>1. /\ pc = "fork" /\ UNCHANGED <<argv, apps>>
      /\ child' = [child EXCEPT ![i] = IF succeeds THEN "born" ELSE "none"]
      /\ i' = (IF i + 1 = Len(apps) THEN 0 ELSE i + 1)
      /\ pc' = IF i + 1 = Len(apps) THEN "wait" ELSE "fork"
  BY DEF Fork
<1>2. /\ i \in Nat /\ Len(apps) \in Nat /\ i < Len(apps) /\ Len(apps) <= MaxApps
      /\ Left \subseteq 0 .. i - 1 /\ Meant(argv, apps)
  BY <1>1 DEF LauncherInv
<1>3. i \in Apps
  BY <1>2, LauncherAssumption DEF Apps
<1>4. child' \in [Apps -> {"none", "born", "grouped", "running", "ended", "reaped"}]
  BY <1>1, <1>3 DEF LauncherInv
<1>5. Left' \subseteq Left \cup {i}
  BY <1>1, <1>3 DEF Left, LauncherInv
<1>6. Left' \subseteq 0 .. i
  BY <1>2, <1>5
<1>7. CASE i + 1 = Len(apps)
  <2>1. pc' = "wait" /\ i' = 0 /\ 0 .. i = 0 .. Len(apps) - 1
    BY <1>1, <1>2, <1>7
  <2> QED
    BY <1>1, <1>2, <1>4, <1>6, <2>1 DEF LauncherInv
<1>8. CASE i + 1 # Len(apps)
  <2>1. pc' = "fork" /\ i' = i + 1 /\ 0 .. i = 0 .. i' - 1 /\ i' < Len(apps) /\ i' \in Nat
    BY <1>1, <1>2, <1>8
  <2> QED
    BY <1>1, <1>2, <1>4, <1>6, <2>1 DEF LauncherInv
<1> QED
  BY <1>7, <1>8

(* A wait reaps one of the children left, if there are any.                *)
LEMMA WaitedLeft ==
    ASSUME LauncherInv, NEW k \in Apps \cup {-1}, Waited(k)
    PROVE  /\ child' \in [Apps -> {"none", "born", "grouped", "running", "ended", "reaped"}]
           /\ Left' = {} \/ Cardinality(Left)' = Cardinality(Left) - 1
<1>1. CASE k \in Apps /\ child[k] = "ended" /\ child' = [child EXCEPT ![k] = "reaped"]
  <2>1. child' \in [Apps -> {"none", "born", "grouped", "running", "ended", "reaped"}]
    BY <1>1 DEF LauncherInv
  <2>2. k \in Left /\ Left' = Left \ {k}
    BY <1>1 DEF Left, LauncherInv
  <2>3. Cardinality(Left \ {k}) = Cardinality(Left) - 1
    BY <2>2, LeftFinite, FS_RemoveElement
  <2> QED
    BY <2>1, <2>2, <2>3
<1>2. CASE k = -1 /\ (\A c \in Apps : child[c] \in {"none", "reaped"}) /\ UNCHANGED child
  BY <1>2 DEF Left, LauncherInv
<1> QED
  BY <1>1, <1>2 DEF Waited

(* The first wait reaps one of the children, so those left are fewer than  *)
(* the applications.                                                       *)
LEMMA WaitFirstInv ==
    ASSUME LauncherInv, NEW k \in Apps \cup {-1}, WaitFirst(k)
    PROVE  LauncherInv'
<1>1. /\ pc = "wait" /\ Waited(k) /\ UNCHANGED <<argv, apps, i>> /\ pc' \in {"kill", "rest"}
  BY DEF WaitFirst
<1>2. /\ i = 0 /\ Len(apps) \in Nat /\ 0 < Len(apps) /\ Len(apps) <= MaxApps
      /\ Left \subseteq 0 .. Len(apps) - 1 /\ Meant(argv, apps)
  BY <1>1 DEF LauncherInv
<1>3. Cardinality(Left) <= Len(apps)
  <2>1. IsFiniteSet(0 .. Len(apps) - 1) /\ Cardinality(0 .. Len(apps) - 1) = Len(apps)
    <3>1. 0 \in Int /\ Len(apps) - 1 \in Int /\ ~(0 > Len(apps) - 1)
      BY <1>2
    <3>2. IsFiniteSet(0 .. Len(apps) - 1)
          /\ Cardinality(0 .. Len(apps) - 1) = (Len(apps) - 1) - 0 + 1
      BY <3>1, FS_Interval, ZenonT(30)
    <3> QED
      BY <1>2, <3>2
  <2> DEFINE all == 0 .. Len(apps) - 1
  <2>2. Left \in SUBSET all /\ IsFiniteSet(all) /\ Cardinality(all) = Len(apps)
    BY <1>2, <2>1
  <2> HIDE DEF all
  <2> QED
    BY <2>2, FS_Subset
<1>4. child' \in [Apps -> {"none", "born", "grouped", "running", "ended", "reaped"}]
      /\ (Left' = {} \/ Cardinality(Left)' = Cardinality(Left) - 1)
  BY <1>1, WaitedLeft
<1>5. Cardinality(Left)' <= Len(apps) - 1
  <2>1. CASE Left' = {}
    BY <1>2, <2>1, FS_EmptySet
  <2>2. CASE Cardinality(Left)' = Cardinality(Left) - 1
    BY <1>2, <1>3, <2>2, LeftFinite
  <2> QED
    BY <1>4, <2>1, <2>2
<1> QED
  BY <1>1, <1>2, <1>4, <1>5 DEF LauncherInv

(* Each further wait reaps another; after the last one none is left.       *)
LEMMA WaitRestInv ==
    ASSUME LauncherInv, NEW k \in Apps \cup {-1}, WaitRest(k)
    PROVE  LauncherInv'
<1>1. pc = "rest" /\ UNCHANGED <<argv, apps>>
  BY DEF WaitRest
<1>2. /\ i \in Nat /\ Len(apps) \in Nat /\ i < Len(apps) /\ Len(apps) <= MaxApps
      /\ Cardinality(Left) <= Len(apps) - 1 - i /\ Meant(argv, apps)
      /\ Cardinality(Left) \in Nat /\ IsFiniteSet(Left)
  BY <1>1, LeftFinite DEF LauncherInv
<1>3. CASE i < Len(apps) - 1
  <2>1. Waited(k) /\ i' = i + 1 /\ pc' = "rest"
    BY <1>1, <1>3 DEF WaitRest
  <2>2. child' \in [Apps -> {"none", "born", "grouped", "running", "ended", "reaped"}]
        /\ (Left' = {} \/ Cardinality(Left)' = Cardinality(Left) - 1)
    BY <2>1, WaitedLeft
  <2>3. Cardinality(Left)' <= Len(apps) - 1 - i'
    <3>1. CASE Left' = {}
      <4>1. Cardinality(Left)' = 0
        BY <3>1, FS_EmptySet
      <4> QED
        BY <1>2, <1>3, <2>1, <4>1
    <3>2. CASE Cardinality(Left)' = Cardinality(Left) - 1
      BY <1>2, <2>1, <3>2
    <3> QED
      BY <2>2, <3>1, <3>2
  <2> QED
    BY <1>1, <1>2, <1>3, <2>1, <2>2, <2>3 DEF LauncherInv
<1>4. CASE ~(i < Len(apps) - 1)
  <2>1. pc' = "end" /\ UNCHANGED <<child, i>>
    BY <1>1, <1>4 DEF WaitRest
  <2>2. Cardinality(Left) = 0
    BY <1>2, <1>4
  <2>3. Left = {} /\ Left' = Left
    BY <1>2, <2>1, <2>2, FS_EmptySet DEF Left
  <2> QED
    BY <1>1, <1>2, <2>1, <2>3 DEF LauncherInv
<1> QED
  BY <1>3, <1>4

(* A child that is killed is still to be waited for.                       *)
LEMMA KillInv ==
    ASSUME LauncherInv, Kill
    PROVE  LauncherInv'
<1>1. /\ pc = "kill" /\ UNCHANGED <<argv, apps>>
      /\ child' = (IF i # wpid /\ InGroup(i) THEN [child EXCEPT ![i] = "ended"] ELSE child)
      /\ i' = (IF i + 1 = Len(apps) THEN 0 ELSE i + 1)
      /\ pc' = IF i + 1 = Len(apps) THEN "rest" ELSE "kill"
  BY DEF Kill
<1>2. /\ i \in Nat /\ Len(apps) \in Nat /\ i < Len(apps) /\ Len(apps) <= MaxApps
      /\ Cardinality(Left) <= Len(apps) - 1 /\ Meant(argv, apps)
  BY <1>1 DEF LauncherInv
<1>3. i \in Apps
  BY <1>2, LauncherAssumption DEF Apps
<1>4. child' \in [Apps -> {"none", "born", "grouped", "running", "ended", "reaped"}] /\ Left' = Left
  BY <1>1, <1>3 DEF LauncherInv, Left, InGroup
<1>5. CASE i + 1 = Len(apps)
  <2>1. pc' = "rest" /\ i' = 0 /\ Cardinality(Left) <= Len(apps) - 1 - 0
    BY <1>1, <1>2, <1>5, LeftFinite
  <2> QED
    BY <1>1, <1>2, <1>4, <2>1 DEF LauncherInv
<1>6. CASE i + 1 # Len(apps)
  <2>1. pc' = "kill" /\ i' = i + 1 /\ i' < Len(apps) /\ i' \in Nat
    BY <1>1, <1>2, <1>6
  <2> QED
    BY <1>1, <1>2, <1>4, <2>1 DEF LauncherInv
<1> QED
  BY <1>5, <1>6

(* Each step of the launcher and of its children keeps the invariant.      *)
LEMMA LauncherNextInv ==
    ASSUME LauncherInv, LauncherNext
    PROVE  LauncherInv'
<1>1. CASE Parse
  BY <1>1, ParseInv
<1>2. CASE \E s \in BOOLEAN : Fork(s)
  BY <1>2, ForkInv
<1>3. CASE \E k \in Apps \cup {-1} : WaitFirst(k)
  BY <1>3, WaitFirstInv
<1>4. CASE \E k \in Apps \cup {-1} : WaitRest(k)
  BY <1>4, WaitRestInv
<1>5. CASE Kill
  BY <1>5, KillInv
<1>6. CASE \E k \in Apps : SetGroup(k) \/ launch(k) \/ Exit(k)
  BY <1>6, ChildInv
<1> QED
  BY <1>1, <1>2, <1>3, <1>4, <1>5, <1>6 DEF LauncherNext, Parent

(* The launcher starts with a command line and without children.           *)
LEMMA LauncherStarts ==
    ASSUME LauncherInit(Lines) \/ LauncherOff
    PROVE  LauncherInv
<1>1. argv \in Seq(Word) /\ Cardinality({k \in DOMAIN argv : argv[k] = CORE}) <= MaxApps
  <2>1. CASE argv \in Lines
    <3>1. PICK n \in 0 .. MaxWords : argv \in [1 .. n -> Word]
      BY <2>1 DEF Lines
    <3>2. argv \in Seq(Word)
      BY <3>1, ToolsAssumption, IsASeq
    <3>3. Cardinality({k \in DOMAIN argv : argv[k] = CORE}) <= MaxApps
      BY <2>1 DEF Lines
    <3> QED
      BY <3>2, <3>3
  <2>2. CASE argv = <<>>
    <3>1. {k \in DOMAIN argv : argv[k] = CORE} = {}
      BY <2>2
    <3>2. Cardinality({k \in DOMAIN argv : argv[k] = CORE}) = 0
      BY <3>1, FS_EmptySet
    <3> QED
      BY <2>2, <3>2, LauncherAssumption
  <2> QED
    BY <2>1, <2>2 DEF LauncherInit, LauncherOff
<1>2. /\ apps = <<>> /\ pc \in {"parse", "usage"} /\ i = 0
      /\ child = [k \in Apps |-> "none"]
  BY DEF LauncherInit, LauncherOff
<1>3. Left = {}
  BY <1>2 DEF Left
<1> QED
  BY <1>1, <1>2, <1>3 DEF LauncherInv

-----------------------------------------------------------------------------
ToolsInv == LauncherInv /\ DaemonInv

(* Both invariants hold throughout.                                        *)
LEMMA AlwaysTools == Spec => []ToolsInv
<1>1. Init => ToolsInv
  BY LauncherStarts, DaemonStarts DEF Init, ToolsInv
<1>2. ToolsInv /\ [Next]_vars => ToolsInv'
  <2> SUFFICES ASSUME ToolsInv, [Next]_vars
               PROVE  ToolsInv'
    OBVIOUS
  <2>1. ASSUME UNCHANGED launcher
        PROVE  LauncherInv'
    BY <2>1 DEF ToolsInv, LauncherInv, Left, launcher
  <2>2. ASSUME UNCHANGED daemon
        PROVE  DaemonInv'
    <3>1. FilesInOrder'
      BY <2>2, NoneMoved DEF ToolsInv, DaemonInv, daemon
    <3> QED
      BY <2>2, <3>1 DEF ToolsInv, DaemonInv, daemon
  <2>3. CASE LauncherNext /\ UNCHANGED daemon
    BY <2>2, <2>3, LauncherNextInv DEF ToolsInv
  <2>4. CASE DaemonNext /\ UNCHANGED launcher
    BY <2>1, <2>4, DaemonNextInv DEF ToolsInv
  <2>5. CASE UNCHANGED vars
    BY <2>1, <2>2, <2>5 DEF vars, ToolsInv
  <2> QED
    BY <2>3, <2>4, <2>5 DEF Next
<1> QED
  BY <1>1, <1>2, PTL DEF Spec

(* Every command line the launcher accepts is split as its author meant    *)
(* it: the loop of get_apps over any number of words computes what the     *)
(* keywords say.                                                           *)
THEOREM LauncherParses == Spec => []ParsedAsMeant
<1>1. ToolsInv => ParsedAsMeant
  BY MeantIs DEF ToolsInv, LauncherInv
<1> QED
  BY <1>1, AlwaysTools, PTL

(* The launcher ends after all its children, however many there are, in    *)
(* whatever order they end or are killed, and whichever forks failed.      *)
THEOREM LauncherReaps == Spec => []AllReaped
<1>1. ToolsInv => AllReaped
  BY DEF ToolsInv, LauncherInv, AllReaped, Left
<1> QED
  BY <1>1, AlwaysTools, PTL

(* For any number of records and files, whatever signals come and whatever *)
(* stdio fails to write: the files in their order hold the records in      *)
(* theirs, none twice, and what a file lacks is its end.                   *)
THEOREM DaemonKeepsOrder == Spec => []FilesInOrder
<1>1. ToolsInv => FilesInOrder
  BY DEF ToolsInv, DaemonInv
<1> QED
  BY <1>1, AlwaysTools, PTL
=============================================================================
