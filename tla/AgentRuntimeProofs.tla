------------------------- MODULE AgentRuntimeProofs -------------------------
(***************************************************************************)
(* Proofs about AgentRuntime for any number of calls, any requests and any *)
(* settings: what handlers are permitted to do while settings change, that *)
(* file and memory agree on the settings, that exclusive writes exclude    *)
(* each other, that the output of processes is accounted for, that the     *)
(* file tools compute what their answers mean, and that these are true of  *)
(* the file.                                                               *)
(***************************************************************************)
EXTENDS AgentRuntime, FoldFacts, FiniteSetTheorems, SequenceTheorems, TLAPS

-----------------------------------------------------------------------------
(* What the file tools compute.                                            *)
(*                                                                         *)
(* The answers of read_file and search_file_content are what IsReading and *)
(* IsSearch say, for every text and every request.                         *)
LEMMA MinOfTwo ==
  ASSUME NEW m \in Int, NEW n \in Int
  PROVE  Min({m, n}) = IF m <= n THEN m ELSE n
<1> DEFINE k == IF m <= n THEN m ELSE n
<1>1. k \in {m, n} /\ \A y \in {m, n} : k <= y
  OBVIOUS
<1>2. \A x \in {m, n} : (\A y \in {m, n} : x <= y) => x = k
  OBVIOUS
<1> QED
  BY <1>1, <1>2 DEF Min

LEMMA MaxOfTwo ==
  ASSUME NEW m \in Int, NEW n \in Int
  PROVE  Max({m, n}) = IF m >= n THEN m ELSE n
<1> DEFINE k == IF m >= n THEN m ELSE n
<1>1. k \in {m, n} /\ \A y \in {m, n} : k >= y
  OBVIOUS
<1>2. \A x \in {m, n} : (\A y \in {m, n} : x >= y) => x = k
  OBVIOUS
<1> QED
  BY <1>1, <1>2 DEF Max

LEMMA MinOfThree ==
  ASSUME NEW k \in Int, NEW m \in Int, NEW n \in Int
  PROVE  /\ Min({k, m, n}) \in {k, m, n}
         /\ \A y \in {k, m, n} : Min({k, m, n}) <= y
<1>1. \E x \in {k, m, n} : \A y \in {k, m, n} : x <= y
  OBVIOUS
<1> QED
  BY <1>1 DEF Min

LEMMA LeastIsMin ==
  ASSUME NEW S \in SUBSET Int, NEW x \in S, \A y \in S : x <= y
  PROVE  Min(S) = x
<1>1. \A z \in S : (\A y \in S : z <= y) => z = x
  <2> SUFFICES ASSUME NEW z \in S, \A y \in S : z <= y PROVE z = x
    OBVIOUS
  <2>1. z \in Int /\ x \in Int /\ z <= x /\ x <= z
    OBVIOUS
  <2> QED
    BY <2>1
<1> QED
  BY <1>1, Zenon DEF Min

-----------------------------------------------------------------------------
(* Lines: one step of the scanner.                                          *)
ScanStep(s, byte) ==
  IF byte = "nl" THEN [done |-> Append(s.done, s.line), line |-> <<>>]
  ELSE [s EXCEPT !.line = Append(@, byte)]

(* The lines of a text are sequences of its bytes. *)
LEMMA LinesType == ASSUME NEW B, NEW text \in Seq(B) PROVE Lines(text) \in Seq(Seq(B))
<1> DEFINE n == Len(text)
           Scan == [done : Seq(Seq(B)), line : Seq(B)]
           base == [done |-> <<>>, line |-> <<>>]
           Folds(iter) == iter = [s \in SUBSET DOMAIN text |->
                            IF s = {} THEN base ELSE ScanStep(iter[s \ {Max(s)}], text[Max(s)])]
           scan == (CHOOSE iter : Folds(iter))[DOMAIN text]
<1>0. n \in Nat /\ DOMAIN text = 1 .. n /\ base \in Scan /\ \A i \in 1 .. n : text[i] \in B
  OBVIOUS
<1>1. \A s \in Scan, i \in 1 .. n : ScanStep(s, text[i]) \in Scan
  <2> TAKE s \in Scan, i \in 1 .. n
  <2>1. /\ Append(s.done, s.line) \in Seq(Seq(B)) /\ Append(s.line, text[i]) \in Seq(B)
        /\ <<>> \in Seq(B)
    BY <1>0
  <2> QED
    BY <2>1 DEF ScanStep
<1>2. Lines(text) = IF scan.line = <<>> THEN scan.done ELSE Append(scan.done, scan.line)
  BY DEF Lines, FoldLeft, MapThenFoldSet, ScanStep
<1>3. scan \in Scan
  <2> HIDE DEF Scan, base
  <2>1. PICK Op \in [1 .. n -> [Scan -> Scan]] :
          \A i \in 1 .. n, s \in Scan : Op[i][s] = ScanStep(s, text[i])
    <3> DEFINE op == [i \in 1 .. n |-> [s \in Scan |-> ScanStep(s, text[i])]]
    <3>1. op \in [1 .. n -> [Scan -> Scan]]
      BY <1>1
    <3>2. \A i \in 1 .. n, s \in Scan : op[i][s] = ScanStep(s, text[i])
      OBVIOUS
    <3> HIDE DEF op
    <3> QED
      BY <3>1, <3>2
  <2> HIDE DEF n
  <2>2. \A s \in SUBSET (1 .. n) : s # {} => Max(s) \in 1 .. n /\ s \ {Max(s)} \in SUBSET (1 .. n)
    BY <1>0, MaxUpTo
  <2>3. PICK it \in [SUBSET (1 .. n) -> Scan] : Iterates(it, n, base, Op)
    BY <1>0, <2>1, IterationExists
  <2>4. ASSUME NEW s \in SUBSET (1 .. n)
        PROVE  it[s] = IF s = {} THEN base ELSE ScanStep(it[s \ {Max(s)}], text[Max(s)])
    <3>1. it[s] = IF s = {} THEN base ELSE Op[Max(s)][it[s \ {Max(s)}]]
      BY <2>3 DEF Iterates
    <3>2. s # {} => Max(s) \in 1 .. n /\ it[s \ {Max(s)}] \in Scan
      BY <2>2, <2>3
    <3> QED
      BY <2>1, <3>1, <3>2
  <2>5. it = [s \in SUBSET (1 .. n) |->
                IF s = {} THEN base ELSE ScanStep(it[s \ {Max(s)}], text[Max(s)])]
    BY <2>3, <2>4
  <2>6. PICK fold : Folds(fold) /\ scan = fold[1 .. n]
    BY <1>0, <2>5
  <2>7. Unfolds(fold, n, Scan, base, Op)
    <3>1. /\ fold[{}] = base
          /\ \A s \in SUBSET (1 .. n) : s # {} => fold[s] = ScanStep(fold[s \ {Max(s)}], text[Max(s)])
      BY <1>0, <2>6
    <3> QED
      BY <1>0, <2>1, <2>2, <3>1 DEF Unfolds
  <2>8. GoesThrough(fold, n, Scan, base, Op)
    BY <2>7, IterationSteps
  <2>9. PICK g \in [0 .. n -> Scan] : g[n] = fold[1 .. n]
    BY <2>8 DEF GoesThrough
  <2> QED
    BY <1>0, <2>6, <2>9
<1> HIDE DEF scan
<1> QED
  BY <1>2, <1>3

-----------------------------------------------------------------------------
(* What read_file cuts from a text. *)

(* The end of a range is before that of the text, of what was asked for    *)
(* and of the size.                                                        *)
EndsAt(end, o, wanted, size, n) ==
  /\ end = Min({o + wanted, o + Max({size - o, 0}), n})
  /\ \A i \in Int : i > o => (i <= end <=> i <= n /\ i <= o + wanted /\ i <= size)
LEMMA RangeEnd ==
  ASSUME NEW o \in Nat, NEW wanted \in Nat, NEW size \in Nat, NEW n \in Nat
  PROVE  \E end \in Int : EndsAt(end, o, wanted, size, n)
<1>1. PICK left \in Nat : left = Max({size - o, 0}) /\ left = IF size >= o THEN size - o ELSE 0
  BY MaxOfTwo
<1>2. PICK a \in Nat, b \in Nat : a = o + wanted /\ b = o + left
  OBVIOUS
<1>3. PICK end \in Int : end = Min({a, b, n}) /\ end \in {a, b, n} /\ end <= a /\ end <= b /\ end <= n
  <2>1. a \in Int /\ b \in Int /\ n \in Int
    OBVIOUS
  <2>2. Min({a, b, n}) \in {a, b, n} /\ \A y \in {a, b, n} : Min({a, b, n}) <= y
    BY <2>1, MinOfThree
  <2>3. Min({a, b, n}) \in Int
    BY <2>1, <2>2
  <2> QED
    BY <2>2, <2>3
<1>4. \A i \in Int : i > o => (i <= end <=> i <= n /\ i <= o + wanted /\ i <= size)
  BY <1>1, <1>2, <1>3
<1> QED
  BY <1>1, <1>2, <1>3, <1>4 DEF EndsAt

(* A range is what the file has there. *)
LEMMA RangeIsRange ==
  ASSUME NEW B, NEW text \in Seq(B), NEW size \in Nat,
         NEW p, p.offset \in Int, p.length \in Int, ReadRange(p, size, text).ok
  PROVE  IsRange(p, size, text, ReadRange(p, size, text))
<1>1. PICK o \in Nat, wanted \in Nat :
        o = p.offset /\ wanted = IF p.length <= 0 THEN DefaultLength ELSE p.length
  BY FileToolsAssumption DEF ReadRange, Failed
<1>2. PICK n \in Nat : n = Len(text) /\ DOMAIN text = 1 .. n /\ \A i \in 1 .. n : text[i] \in B
  OBVIOUS
<1>3. PICK end \in Int : EndsAt(end, o, wanted, size, n)
  BY RangeEnd
<1> DEFINE length == IF end > o THEN end - o ELSE 0
<1>4. /\ length \in Nat
      /\ end > o => length = end - o
      /\ end <= o => length = 0
  OBVIOUS
<1> HIDE DEF length
<1>5. PICK inside : inside = {i \in DOMAIN text : i > o /\ i <= o + wanted /\ i <= size}
  OBVIOUS
<1>6. inside = o + 1 .. end
  <2>1. ASSUME NEW i \in Int PROVE i \in inside <=> i \in o + 1 .. end
    <3>1. i \in inside <=> i >= 1 /\ i <= n /\ i > o /\ i <= o + wanted /\ i <= size
      BY <1>2, <1>5
    <3>2. i > o => (i <= end <=> i <= n /\ i <= o + wanted /\ i <= size)
      BY <1>3 DEF EndsAt
    <3>3. i \in o + 1 .. end <=> i > o /\ i <= end
      OBVIOUS
    <3> QED
      BY <3>1, <3>2, <3>3
  <2>2. inside \subseteq Int /\ o + 1 .. end \subseteq Int
    BY <1>2, <1>5
  <2> QED
    BY <2>1, <2>2
<1>7. PICK bytes : /\ bytes = SubSeq(text, o + 1, end)
                   /\ Len(bytes) = length /\ \A i \in 1 .. length : bytes[i] = text[o + i]
  <2>1. \A i \in o + 1 .. end : text[i] \in B
    BY <1>2, <1>5, <1>6
  <2>2. /\ Len(SubSeq(text, o + 1, end)) = IF o + 1 <= end THEN end - (o + 1) + 1 ELSE 0
        /\ \A i \in 1 .. end - (o + 1) + 1 : SubSeq(text, o + 1, end)[i] = text[(o + 1) + i - 1]
    BY <2>1, SubSeqProperties
  <2>3. PICK bytes : bytes = SubSeq(text, o + 1, end)
    OBVIOUS
  <2> QED
    BY <1>4, <2>2, <2>3
<1>8. PICK r : /\ r = ReadRange(p, size, text) /\ r.content = bytes
               /\ r.truncated <=> o + length < size
  <2> DEFINE last == Min({p.offset + (IF p.length <= 0 THEN DefaultLength ELSE p.length),
                          p.offset + Max({size - p.offset, 0}), Len(text)})
  <2>1. last = end
    BY <1>1, <1>2, <1>3, Zenon DEF EndsAt
  <2>2. /\ ReadRange(p, size, text).content = SubSeq(text, p.offset + 1, last)
        /\ ReadRange(p, size, text).truncated
              <=> p.offset + Len(SubSeq(text, p.offset + 1, last)) < size
    BY DEF ReadRange, Answer, Failed
  <2> HIDE DEF last
  <2> QED
    BY <1>1, <1>7, <2>1, <2>2
<1>9. Cardinality(inside) = length
  BY <1>4, <1>6, FS_Interval
<1>10. \A i \in inside : r.content[i - o] = text[i]
  <2> TAKE i \in inside
  <2>1. i - o \in 1 .. length /\ o + (i - o) = i
    BY <1>4, <1>6
  <2> QED
    BY <1>7, <1>8, <2>1
<1>11. r.truncated <=> \E i \in 1 .. size : i > o + Len(r.content)
  <2>1. o + length < size => size \in 1 .. size /\ size > o + length
    BY <1>4
  <2>2. \A i \in 1 .. size : i > o + length => o + length < size
    BY <1>4
  <2> QED
    BY <1>7, <1>8, <2>1, <2>2
<1>12. o >= 0 /\ Len(r.content) = Cardinality(inside)
  BY <1>7, <1>8, <1>9
<1> QED
  BY <1>1, <1>5, <1>8, <1>10, <1>11, <1>12 DEF IsRange

(* A head is as many lines as were asked for, or all. *)
LEMMA HeadIsHead ==
  ASSUME NEW B, NEW text \in Seq(B), NEW p, p.head \in Int, p.maxLines \in Int, ReadHead(p, text).ok
  PROVE  IsHead(p, Lines(text), ReadHead(p, text))
<1>1. PICK lines \in Seq(Seq(B)), n \in Nat : lines = Lines(text) /\ n = Len(lines)
  BY LinesType
<1>2. PICK h \in Int, m \in Int : h = p.head /\ m = p.maxLines
  OBVIOUS
<1>3. PICK stops : stops = {i \in {p.head, p.maxLines} : i > 0 /\ i <= Len(Lines(text))}
  OBVIOUS
<1>4. \A i : i \in stops <=> i \in {h, m} /\ i > 0 /\ i <= n
  BY <1>1, <1>2, <1>3
<1>5. stops # {} => Min(stops) \in stops /\ \A i \in stops : Min(stops) <= i
  <2>1. stops \in SUBSET Int
    BY <1>4
  <2>2. CASE h \in stops /\ (m \in stops => h <= m)
    <3>1. \A y \in stops : h <= y
      BY <1>4, <2>2
    <3> QED
      BY <2>1, <2>2, <3>1, LeastIsMin
  <2>3. CASE m \in stops /\ (h \in stops => m <= h)
    <3>1. \A y \in stops : m <= y
      BY <1>4, <2>3
    <3> QED
      BY <2>1, <2>3, <3>1, LeastIsMin
  <2>4. stops # {} => h \in stops \/ m \in stops
    BY <1>4
  <2>5. h <= m \/ m <= h
    OBVIOUS
  <2> QED
    BY <2>2, <2>3, <2>4, <2>5
<1> DEFINE kept == IF stops = {} THEN n ELSE Min(stops)
<1>6. /\ kept \in 0 .. n
      /\ stops # {} => kept \in {h, m}
      /\ stops = {} => kept = n
      /\ \A i \in {h, m} : i > 0 => kept <= i
  <2>1. /\ kept \in 0 .. n
        /\ stops # {} => kept \in stops
        /\ \A i \in stops : kept <= i
    BY <1>4, <1>5
  <2>2. stops = {} => kept = n
    OBVIOUS
  <2> HIDE DEF kept
  <2>3. ASSUME NEW i \in Int, i \in {h, m}, i > 0 PROVE kept <= i
    <3>1. CASE i <= n
      BY <1>4, <2>1, <2>3, <3>1
    <3>2. CASE i > n
      BY <2>1, <3>2
    <3> QED
      BY <3>1, <3>2
  <2>4. stops # {} => kept \in {h, m}
    BY <1>4, <2>1
  <2> QED
    BY <2>1, <2>2, <2>3, <2>4
<1> HIDE DEF kept
<1>7. PICK head : /\ head = SubSeq(lines, 1, kept) /\ head \in Seq(Seq(B))
                  /\ Len(head) = kept /\ SubSeq(head, 1, kept) = head
                  /\ kept = n => head = lines
  <2>1. DOMAIN lines = 1 .. n /\ \A i \in 1 .. n : lines[i] \in Seq(B)
    BY <1>1
  <2>2. \A i \in 1 .. kept : lines[i] \in Seq(B)
    BY <1>6, <2>1
  <2>3. PICK head : head = SubSeq(lines, 1, kept)
    OBVIOUS
  <2>4. head \in Seq(Seq(B)) /\ Len(head) = IF 1 <= kept THEN kept - 1 + 1 ELSE 0
    BY <1>6, <2>2, <2>3, SubSeqProperties
  <2>5. SubSeq(head, 1, Len(head)) = head /\ SubSeq(lines, 1, Len(lines)) = lines
    BY <2>4, SubSeqFull
  <2> QED
    BY <1>1, <1>6, <2>3, <2>4, <2>5
<1>8. PICK r : /\ r = ReadHead(p, text) /\ r.content = head
               /\ r.truncated <=> stops # {}
  <2>1. stops = {i \in {p.head, p.maxLines} : i > 0 /\ i <= Len(Lines(text))}
    BY <1>3
  <2>2. kept = IF stops = {} THEN Len(Lines(text)) ELSE Min(stops)
    BY <1>1 DEF kept
  <2>3. /\ ReadHead(p, text).content = SubSeq(Lines(text), 1, kept)
        /\ ReadHead(p, text).truncated <=> stops # {}
    BY <2>1, <2>2, Zenon DEF ReadHead, Answer, Failed
  <2> QED
    BY <1>1, <1>7, <2>3
<1>9. IsPrefix(head, lines)
  BY <1>1, <1>6, <1>7 DEF IsPrefix
<1>10. /\ \A i \in {p.head, p.maxLines} : i > 0 => Len(r.content) <= i
       /\ IF r.truncated THEN Len(r.content) \in {p.head, p.maxLines} ELSE r.content = lines
  BY <1>2, <1>6, <1>7, <1>8
<1> QED
  BY <1>1, <1>8, <1>9, <1>10 DEF IsHead

(* The slots of a ring: remainders.                                        *)
LEMMA MultipleIsLarge ==
  ASSUME NEW n \in Nat \ {0}, NEW k \in Nat \ {0}
  PROVE  n * k >= n
<1> DEFINE P == {m \in Nat : m = 0 \/ n * m >= n}
<1>1. 0 \in P
  OBVIOUS
<1>2. ASSUME NEW m \in Nat, m \in P PROVE m + 1 \in P
  <2>1. n * (m + 1) = n * m + n /\ n * m \in Nat
    OBVIOUS
  <2>2. n * m >= 0
    BY <2>1
  <2> QED
    BY <2>1, <2>2
<1>3. \A m \in Nat : m \in P
  <2> HIDE DEF P
  <2> QED
    BY <1>1, <1>2, NatSetInduction
<1> QED
  BY <1>3

(* What % is. *)
LEMMA QuotientAndRemainder ==
  ASSUME NEW n \in Nat \ {0}, NEW i \in Nat
  PROVE  \E q \in Int, r \in 0 .. n - 1 : r = i % n /\ i = n * q + r
<1>1. i = n * (i \div n) + (i % n)
  BY Z3
<1>2. i \div n \in Int
  OBVIOUS
<1>3. i % n \in 0 .. n - 1
  OBVIOUS
<1> QED
  BY <1>1, <1>2, <1>3

(* Quotient and remainder are unique. *)
LEMMA RemainderIsUnique ==
  ASSUME NEW n \in Nat \ {0}, NEW q \in Int, NEW r \in 0 .. n - 1, NEW i \in Nat, i = n * q + r
  PROVE  i % n = r
<1>1. PICK u \in Int, v \in 0 .. n - 1 : v = i % n /\ i = n * u + v
  BY QuotientAndRemainder
<1>2. CASE q > u
  <2>1. PICK k \in Nat \ {0} : k = q - u
    BY <1>2
  <2>2. n * q = n * u + n * k /\ n * k >= n
    BY <2>1, MultipleIsLarge
  <2>3. PICK a \in Int, b \in Int : a = n * u /\ b = n * k
    OBVIOUS
  <2> QED
    BY <1>1, <2>2, <2>3
<1>3. CASE u > q
  <2>1. PICK k \in Nat \ {0} : k = u - q
    BY <1>3
  <2>2. n * u = n * q + n * k /\ n * k >= n
    BY <2>1, MultipleIsLarge
  <2>3. PICK a \in Int, b \in Int : a = n * q /\ b = n * k
    OBVIOUS
  <2> QED
    BY <1>1, <2>2, <2>3
<1>4. CASE u = q
  <2>1. PICK a \in Int : a = n * q
    OBVIOUS
  <2> QED
    BY <1>1, <1>4, <2>1
<1> QED
  BY <1>2, <1>3, <1>4

(* n places further the slots begin again, and not before. *)
LEMMA SlotsRepeat ==
  ASSUME NEW n \in Nat \ {0}, NEW i \in Nat
  PROVE  /\ i % n \in 0 .. n - 1
         /\ i < n => i % n = i
         /\ (i + n) % n = i % n
         /\ \A d \in 1 .. n - 1 : (i + d) % n # i % n
<1>1. PICK u \in Int, v \in 0 .. n - 1 : v = i % n /\ i = n * u + v
  BY QuotientAndRemainder
<1>2. i < n => i % n = i
  <2>1. i < n => i \in 0 .. n - 1 /\ i = n * 0 + i
    OBVIOUS
  <2> QED
    BY <2>1, RemainderIsUnique
<1>3. (i + n) % n = v
  <2>1. PICK j \in Nat, w \in Int : j = i + n /\ w = u + 1
    OBVIOUS
  <2>2. n * w = n * u + n
    BY <2>1
  <2>3. j = n * w + v
    BY <1>1, <2>1, <2>2
  <2>4. j % n = v
    BY <2>3, RemainderIsUnique
  <2> QED
    BY <2>1, <2>4
<1>4. ASSUME NEW d \in 1 .. n - 1 PROVE (i + d) % n # v
  <2>1. CASE v + d <= n - 1
    <3>1. i + d = n * u + (v + d) /\ i + d \in Nat /\ v + d \in 0 .. n - 1 /\ v + d # v
      BY <1>1, <2>1
    <3> QED
      BY <3>1, RemainderIsUnique
  <2>2. CASE v + d >= n
    <3>1. PICK j \in Nat, w \in Int : j = i + d /\ w = u + 1
      OBVIOUS
    <3>2. PICK x \in 0 .. n - 1 : x = v + d - n /\ x # v
      BY <2>2
    <3>3. n * w = n * u + n
      BY <3>1
    <3>4. j = n * w + x
      BY <1>1, <3>1, <3>2, <3>3
    <3>5. j % n = x
      BY <3>4, RemainderIsUnique
    <3> QED
      BY <3>1, <3>2, <3>5
  <2> QED
    BY <2>1, <2>2
<1> QED
  BY <1>1, <1>2, <1>3, <1>4

(* The lines of a tail, put into the ring one after the other. *)
RingInSteps(n, lines, Slots) ==
  \E g \in [0 .. Len(lines) -> Slots] :
    /\ g[0] = [slot \in 0 .. n - 1 |-> <<>>] /\ g[Len(lines)] = Ring(n, lines)
    /\ \A i \in 1 .. Len(lines) : g[i] = [g[i - 1] EXCEPT ![(i - 1) % n] = lines[i]]

LEMMA RingSteps ==
  ASSUME NEW B, NEW lines \in Seq(Seq(B)), NEW n \in Nat \ {0}
  PROVE  RingInSteps(n, lines, [0 .. n - 1 -> Seq(B)])
<1> DEFINE total == Len(lines)
           Slots == [0 .. n - 1 -> Seq(B)]
           base == [slot \in 0 .. n - 1 |-> <<>>]
           Put(r, i) == [r EXCEPT ![(i - 1) % n] = lines[i]]
           seq == [i \in DOMAIN lines |-> i]
           Folds(iter) == iter = [s \in SUBSET DOMAIN seq |->
                            IF s = {} THEN base ELSE Put(iter[s \ {Max(s)}], seq[Max(s)])]
           ring == (CHOOSE iter : Folds(iter))[DOMAIN seq]
<1>0. /\ total \in Nat /\ DOMAIN seq = 1 .. total /\ base \in Slots
      /\ \A i \in 1 .. total : seq[i] = i /\ lines[i] \in Seq(B)
  OBVIOUS
<1>1. \A r \in Slots, i \in 1 .. total : Put(r, i) \in Slots
  BY <1>0
<1>2. Ring(n, lines) = ring
  BY DEF Ring, FoldLeftDomain, FoldLeft, MapThenFoldSet
<1> HIDE DEF Put, seq, base, Slots, total
<1>3. PICK Op \in [1 .. total -> [Slots -> Slots]] :
        \A i \in 1 .. total, r \in Slots : Op[i][r] = Put(r, i)
  <2> DEFINE op == [i \in 1 .. total |-> [r \in Slots |-> Put(r, i)]]
  <2>1. op \in [1 .. total -> [Slots -> Slots]]
    BY <1>1
  <2>2. \A i \in 1 .. total, r \in Slots : op[i][r] = Put(r, i)
    OBVIOUS
  <2> HIDE DEF op
  <2> QED
    BY <2>1, <2>2
<1>4. \A s \in SUBSET (1 .. total) :
        s # {} => Max(s) \in 1 .. total /\ s \ {Max(s)} \in SUBSET (1 .. total)
  BY <1>0, MaxUpTo
<1>5. PICK it \in [SUBSET (1 .. total) -> Slots] : Iterates(it, total, base, Op)
  BY <1>0, <1>3, IterationExists
<1>6. ASSUME NEW s \in SUBSET (1 .. total)
      PROVE  it[s] = IF s = {} THEN base ELSE Put(it[s \ {Max(s)}], seq[Max(s)])
  <2>1. it[s] = IF s = {} THEN base ELSE Op[Max(s)][it[s \ {Max(s)}]]
    BY <1>5 DEF Iterates
  <2>2. s # {} => Max(s) \in 1 .. total /\ it[s \ {Max(s)}] \in Slots /\ seq[Max(s)] = Max(s)
    BY <1>0, <1>4, <1>5
  <2> QED
    BY <1>3, <2>1, <2>2
<1>7. it = [s \in SUBSET (1 .. total) |->
              IF s = {} THEN base ELSE Put(it[s \ {Max(s)}], seq[Max(s)])]
  BY <1>5, <1>6
<1>8. PICK fold : Folds(fold) /\ ring = fold[1 .. total]
  BY <1>0, <1>7
<1>9. Unfolds(fold, total, Slots, base, Op)
  <2>1. /\ fold[{}] = base
        /\ \A s \in SUBSET (1 .. total) : s # {} => fold[s] = Put(fold[s \ {Max(s)}], Max(s))
    <3>1. ASSUME NEW s \in SUBSET (1 .. total)
          PROVE  fold[s] = IF s = {} THEN base ELSE Put(fold[s \ {Max(s)}], seq[Max(s)])
      <4>1. fold = [t \in SUBSET (1 .. total) |->
                      IF t = {} THEN base ELSE Put(fold[t \ {Max(t)}], seq[Max(t)])]
        BY <1>0, <1>8, Zenon
      <4> HIDE DEF Folds
      <4> QED
        BY <4>1
    <3>2. ASSUME NEW s \in SUBSET (1 .. total), s # {}
          PROVE  fold[s] = Put(fold[s \ {Max(s)}], Max(s))
      BY <1>0, <1>4, <3>1, <3>2
    <3> QED
      BY <3>1, <3>2
  <2> QED
    BY <1>0, <1>3, <1>4, <2>1 DEF Unfolds
<1>10. GoesThrough(fold, total, Slots, base, Op)
  BY <1>9, IterationSteps
<1>11. PICK g \in [0 .. total -> Slots] :
        /\ g[0] = base /\ g[total] = fold[1 .. total]
        /\ \A i \in 1 .. total : g[i] = Op[i][g[i - 1]]
  BY <1>10 DEF GoesThrough
<1>12. \A i \in 1 .. total : g[i] = Put(g[i - 1], i)
  <2> TAKE i \in 1 .. total
  <2>1. i - 1 \in 0 .. total
    BY <1>0
  <2>2. g[i - 1] \in Slots
    BY <1>11, <2>1
  <2> QED
    BY <1>3, <1>11, <2>2
<1> QED
  BY <1>2, <1>8, <1>11, <1>12 DEF RingInSteps, Put, base, Slots, total

(* A ring of n slots holds the last n lines. *)
LEMMA RingHolds ==
  ASSUME NEW B, NEW lines \in Seq(Seq(B)), NEW n \in Nat \ {0}
  PROVE  \A j \in 1 .. Len(lines) : j > Len(lines) - n => Ring(n, lines)[(j - 1) % n] = lines[j]
<1>0. PICK total \in Nat : total = Len(lines) /\ \A i \in 1 .. total : lines[i] \in Seq(B)
  OBVIOUS
<1>1. RingInSteps(n, lines, [0 .. n - 1 -> Seq(B)])
  BY RingSteps
<1>2. PICK g \in [0 .. total -> [0 .. n - 1 -> Seq(B)]] :
        /\ g[total] = Ring(n, lines)
        /\ \A i \in 1 .. total : g[i] = [g[i - 1] EXCEPT ![(i - 1) % n] = lines[i]]
  BY <1>0, <1>1 DEF RingInSteps
<1> DEFINE Held(i) == \A j \in 1 .. i : j > i - n => g[i][(j - 1) % n] = lines[j]
           P == {i \in 0 .. total : Held(i)}
<1>3. 0 \in P
  BY <1>0
<1>4. ASSUME NEW i \in 1 .. total, i - 1 \in P PROVE i \in P
  <2>0. PICK h \in Nat : h = i - 1 /\ h \in 0 .. total /\ i \in Nat
    BY <1>0
  <2>1. g[h] \in [0 .. n - 1 -> Seq(B)] /\ h % n \in 0 .. n - 1 /\ g[i] = [g[h] EXCEPT ![h % n] = lines[i]]
    BY <1>2, <2>0, SlotsRepeat
  <2>2. ASSUME NEW j \in 1 .. i, j > i - n PROVE g[i][(j - 1) % n] = lines[j]
    <3>1. CASE j = i
      BY <2>0, <2>1, <3>1
    <3>2. CASE j # i
      <4>1. j \in 1 .. h /\ j > h - n /\ j - 1 \in Nat /\ j \in Nat
        BY <2>0, <2>2, <3>2
      <4>2. PICK d \in 1 .. n - 1, k \in Nat : d = i - j /\ k = j - 1 /\ h = k + d
        BY <2>0, <2>2, <4>1
      <4>3. /\ k % n \in 0 .. n - 1
            /\ \A e \in 1 .. n - 1 : (k + e) % n # k % n
        BY <4>2, SlotsRepeat
      <4>4. h % n # k % n
        BY <4>2, <4>3
      <4>5. g[h][k % n] = lines[j]
        BY <1>4, <2>0, <4>1, <4>2
      <4> QED
        BY <2>1, <4>2, <4>3, <4>4, <4>5
    <3> QED
      BY <3>1, <3>2
  <2> QED
    BY <2>2
<1>5. \A i \in 0 .. total : i \in P
  <2> HIDE DEF P
  <2> QED
    BY <1>3, <1>4, UpTo
<1>6. Held(total)
  <2>1. total \in P
    <3> HIDE DEF P
    <3> QED
      BY <1>5
  <2> QED
    BY <2>1
<1> QED
  BY <1>0, <1>2, <1>6

(* What ends as a sequence does is its suffix. *)
LEMMA EndIsSuffix ==
  ASSUME NEW S, NEW c \in Seq(S), NEW l \in Seq(S), NEW m \in Nat, NEW n \in Nat,
         m = Len(c), n = Len(l), m <= n, \A i \in 1 .. m : c[i] = l[n - m + i]
  PROVE  IsSuffix(c, l)
<1>0. DOMAIN c = 1 .. m /\ DOMAIN l = 1 .. n
  OBVIOUS
<1>e. (\A i \in 1 .. m : c[i] \in S) /\ (\A i \in 1 .. n : l[i] \in S)
  OBVIOUS
<1>1. PICK rc \in Seq(S) : rc = Reverse(c) /\ Len(rc) = m /\ \A i \in 1 .. m : rc[i] = c[m - i + 1]
  <2> DEFINE rc == [i \in 1 .. m |-> c[m - i + 1]]
  <2>1. rc \in Seq(S) /\ Len(rc) = m /\ \A i \in 1 .. m : rc[i] = c[m - i + 1]
    <3>1. \A i \in 1 .. m : m - i + 1 \in 1 .. m
      OBVIOUS
    <3>2. \A i \in 1 .. m : c[m - i + 1] \in S
      BY <1>e, <3>1
    <3> QED
      BY <3>2
  <2>2. rc = Reverse(c)
    BY DEF Reverse
  <2> HIDE DEF rc
  <2> QED
    BY <2>1, <2>2
<1>2. PICK rl \in Seq(S) : rl = Reverse(l) /\ Len(rl) = n /\ \A i \in 1 .. n : rl[i] = l[n - i + 1]
  <2> DEFINE rl == [i \in 1 .. n |-> l[n - i + 1]]
  <2>1. rl \in Seq(S) /\ Len(rl) = n /\ \A i \in 1 .. n : rl[i] = l[n - i + 1]
    <3>1. \A i \in 1 .. n : n - i + 1 \in 1 .. n
      OBVIOUS
    <3>2. \A i \in 1 .. n : l[n - i + 1] \in S
      BY <1>e, <3>1
    <3> QED
      BY <3>2
  <2>2. rl = Reverse(l)
    BY DEF Reverse
  <2> HIDE DEF rl
  <2> QED
    BY <2>1, <2>2
<1>3. \A i \in 1 .. m : rc[i] = rl[i]
  <2> TAKE i \in 1 .. m
  <2>1. m - i + 1 \in 1 .. m /\ n - m + (m - i + 1) = n - i + 1 /\ i \in 1 .. n
    OBVIOUS
  <2>2. c[m - i + 1] = l[n - m + (m - i + 1)]
    BY <2>1
  <2> QED
    BY <1>1, <1>2, <2>1, <2>2
<1>4. PICK sc \in Seq(S) : sc = SubSeq(rc, 1, m) /\ Len(sc) = m /\ \A i \in 1 .. m : sc[i] = rc[i]
  <2>1. \A i \in 1 .. m : rc[i] \in S
    BY <1>1
  <2>2. PICK sc : sc = SubSeq(rc, 1, m)
    OBVIOUS
  <2>3. /\ sc \in Seq(S) /\ Len(sc) = IF 1 <= m THEN m - 1 + 1 ELSE 0
        /\ \A i \in 1 .. m - 1 + 1 : sc[i] = rc[1 + i - 1]
    BY <2>1, <2>2, SubSeqProperties
  <2>4. Len(sc) = m /\ m - 1 + 1 = m /\ \A i \in 1 .. m : 1 + i - 1 = i
    BY <2>3
  <2>5. \A i \in 1 .. m : sc[i] = rc[i]
    BY <2>3, <2>4
  <2> QED
    BY <2>2, <2>3, <2>4, <2>5
<1>5. PICK sl \in Seq(S) : sl = SubSeq(rl, 1, m) /\ Len(sl) = m /\ \A i \in 1 .. m : sl[i] = rl[i]
  <2>1. \A i \in 1 .. m : rl[i] \in S
    BY <1>2
  <2>2. PICK sl : sl = SubSeq(rl, 1, m)
    OBVIOUS
  <2>3. /\ sl \in Seq(S) /\ Len(sl) = IF 1 <= m THEN m - 1 + 1 ELSE 0
        /\ \A i \in 1 .. m - 1 + 1 : sl[i] = rl[1 + i - 1]
    BY <2>1, <2>2, SubSeqProperties
  <2>4. Len(sl) = m /\ m - 1 + 1 = m /\ \A i \in 1 .. m : 1 + i - 1 = i
    BY <2>3
  <2>5. \A i \in 1 .. m : sl[i] = rl[i]
    BY <2>3, <2>4
  <2> QED
    BY <2>2, <2>3, <2>4, <2>5
<1>6. sc = sl
  BY <1>3, <1>4, <1>5
<1> QED
  BY <1>1, <1>2, <1>4, <1>5, <1>6 DEF IsSuffix, IsPrefix

(* A tail is the end of the lines. *)
LEMMA TailIsTail ==
  ASSUME NEW B, NEW text \in Seq(B), NEW n \in Nat \ {0}, ReadTail(n, text).ok
  PROVE  IsTail(n, Lines(text), ReadTail(n, text))
<1>1. PICK lines \in Seq(Seq(B)), total \in Nat : lines = Lines(text) /\ total = Len(lines)
  BY LinesType
<1>2. PICK ring : ring = Ring(n, lines)
  OBVIOUS
<1>3. \A j \in 1 .. total : j > total - n => ring[(j - 1) % n] = lines[j]
  BY <1>1, <1>2, RingHolds
<1>4. DOMAIN lines = 1 .. total /\ \A i \in 1 .. total : lines[i] \in Seq(B)
  BY <1>1
<1> DEFINE all == [i \in 1 .. total |-> ring[i - 1]]
           last == [i \in 1 .. n |-> ring[(total + i - 1) % n]]
<1>5. PICK r : /\ r = ReadTail(n, text) /\ r.content = (IF total <= n THEN all ELSE last)
               /\ r.truncated <=> total > n
  <2>1. /\ ReadTail(n, text).content =
             IF Len(Lines(text)) <= n THEN [i \in 1 .. Len(Lines(text)) |-> Ring(n, Lines(text))[i - 1]]
             ELSE [i \in 1 .. n |-> Ring(n, Lines(text))[(Len(Lines(text)) + i - 1) % n]]
        /\ ReadTail(n, text).truncated <=> Len(Lines(text)) > n
    BY Zenon DEF ReadTail, Answer, Failed
  <2>2. Lines(text) = lines /\ Len(Lines(text)) = total /\ Ring(n, Lines(text)) = ring
    BY <1>1, <1>2
  <2>3. /\ ReadTail(n, text).content = IF total <= n THEN all ELSE last
        /\ ReadTail(n, text).truncated <=> total > n
    BY <2>1, <2>2, Zenon
  <2> QED
    BY <2>3
<1>6. CASE total <= n
  <2>1. \A i \in 1 .. total : all[i] = lines[i]
    <3> TAKE i \in 1 .. total
    <3>1. i > total - n /\ i - 1 \in Nat /\ i - 1 < n
      BY <1>6
    <3>2. (i - 1) % n = i - 1
      BY <3>1, SlotsRepeat
    <3> QED
      BY <1>3, <3>1, <3>2
  <2>2. all = lines
    BY <1>1, <1>4, <2>1
  <2>3. \A i \in 1 .. total : lines[i] = lines[total - total + i]
    OBVIOUS
  <2>4. total <= total /\ total = Len(lines)
    BY <1>1
  <2>5. IsSuffix(lines, lines)
    <3> HIDE DEF all, last
    <3> QED
      BY <2>3, <2>4, EndIsSuffix
  <2> HIDE DEF all, last
  <2>6. r.content = lines /\ ~r.truncated
    <3>1. ~(total > n)
      BY <1>6
    <3> QED
      BY <1>5, <1>6, <2>2, <3>1, Zenon
  <2> QED
    BY <1>1, <1>5, <1>6, <2>5, <2>6 DEF IsTail
<1>7. CASE total > n
  <2>1. ASSUME NEW i \in 1 .. n PROVE last[i] = lines[total - n + i]
    <3>1. PICK k \in Nat, j \in 1 .. total : j = total - n + i /\ k = j - 1
      BY <1>7
    <3>2. k + n = total + i - 1 /\ j > total - n
      BY <3>1
    <3>3. (total + i - 1) % n = k % n
      BY <3>2, SlotsRepeat
    <3>4. ring[k % n] = lines[j]
      BY <1>3, <3>1, <3>2
    <3> QED
      BY <3>1, <3>3, <3>4
  <2> HIDE DEF last
  <2>2. last \in Seq(Seq(B)) /\ Len(last) = n
    <3>1. \A i \in 1 .. n : last[i] \in Seq(B)
      <4> TAKE i \in 1 .. n
      <4>1. total - n + i \in 1 .. total
        BY <1>7
      <4> QED
        BY <1>4, <2>1, <4>1
    <3>2. last = [i \in 1 .. n |-> last[i]]
      BY Zenon DEF last
    <3>3. PICK e : e = last
      OBVIOUS
    <3>4. e = [i \in 1 .. n |-> e[i]] /\ \A i \in 1 .. n : e[i] \in Seq(B)
      BY <3>1, <3>2, <3>3, Zenon
    <3>5. e \in Seq(Seq(B)) /\ Len(e) = n
      <4>1. e \in [1 .. n -> Seq(B)]
        BY <3>4
      <4> QED
        BY <4>1
    <3> QED
      BY <3>3, <3>5
  <2>3. IsSuffix(last, lines)
    <3>1. n <= total
      BY <1>7
    <3>2. \A i \in 1 .. n : last[i] = lines[total - n + i]
      BY <2>1
    <3>3. PICK e : e = last
      OBVIOUS
    <3>4. e \in Seq(Seq(B)) /\ n = Len(e) /\ \A i \in 1 .. n : e[i] = lines[total - n + i]
      BY <2>2, <3>2, <3>3
    <3>5. IsSuffix(e, lines)
      BY <1>1, <3>1, <3>4, EndIsSuffix
    <3> QED
      BY <3>3, <3>5
  <2> QED
    BY <1>1, <1>5, <1>7, <2>2, <2>3 DEF IsTail
<1> QED
  BY <1>1, <1>6, <1>7

-----------------------------------------------------------------------------
(* What a search has found.                                                *)
Entry == [num : Int, mark : {"before", "match", "after"}]
Nums(found) == {found[k].num : k \in DOMAIN found}
Ascending(found) == \A k \in 2 .. Len(found) : found[k - 1].num < found[k].num

(* One line, unless it is there already. *)
AddLine(fs, n, mark) ==
  IF \E k \in DOMAIN fs : fs[k].num = n THEN fs
  ELSE Append(fs, [num |-> n, mark |-> mark])

(* WithLines adds the lines one after the other. *)
LinesInSteps(found, lo, hi, mark, m) ==
  \E g \in [0 .. m -> Seq(Entry)] :
    /\ g[0] = found /\ g[m] = WithLines(found, lo, hi, mark)
    /\ \A i \in 1 .. m : g[i] = AddLine(g[i - 1], lo + i - 1, mark)

LEMMA LinesSteps ==
  ASSUME NEW found \in Seq(Entry), NEW lo \in Int, NEW hi \in Int,
         NEW mark \in {"before", "match", "after"}, NEW m \in Nat, 1 .. hi - lo + 1 = 1 .. m
  PROVE  LinesInSteps(found, lo, hi, mark, m)
<1> DEFINE Founds == Seq(Entry)
           Put(r, n) == AddLine(r, n, mark)
           seq == [k \in 1 .. hi - lo + 1 |-> lo + k - 1]
           Folds(iter) == iter = [s \in SUBSET DOMAIN seq |->
                            IF s = {} THEN found ELSE Put(iter[s \ {Max(s)}], seq[Max(s)])]
           all == (CHOOSE iter : Folds(iter))[DOMAIN seq]
<1>0. /\ DOMAIN seq = 1 .. m /\ found \in Founds
      /\ \A i \in 1 .. m : seq[i] = lo + i - 1 /\ seq[i] \in Int
  OBVIOUS
<1>1. \A r \in Founds, n \in Int : Put(r, n) \in Founds
  <2> TAKE r \in Founds, n \in Int
  <2>1. [num |-> n, mark |-> mark] \in Entry
    BY DEF Entry
  <2> QED
    BY <2>1 DEF AddLine
<1>2. WithLines(found, lo, hi, mark) = all
  BY DEF WithLines, FoldLeft, MapThenFoldSet, AddLine
<1> HIDE DEF Put, seq, Founds
<1>3. PICK Op \in [1 .. m -> [Founds -> Founds]] :
        \A i \in 1 .. m, r \in Founds : Op[i][r] = Put(r, seq[i])
  <2> DEFINE op == [i \in 1 .. m |-> [r \in Founds |-> Put(r, seq[i])]]
  <2>1. op \in [1 .. m -> [Founds -> Founds]]
    BY <1>0, <1>1
  <2>2. \A i \in 1 .. m, r \in Founds : op[i][r] = Put(r, seq[i])
    OBVIOUS
  <2> HIDE DEF op
  <2> QED
    BY <2>1, <2>2
<1>4. \A s \in SUBSET (1 .. m) :
        s # {} => Max(s) \in 1 .. m /\ s \ {Max(s)} \in SUBSET (1 .. m)
  BY MaxUpTo
<1>5. PICK it \in [SUBSET (1 .. m) -> Founds] : Iterates(it, m, found, Op)
  BY <1>0, <1>3, IterationExists
<1>6. ASSUME NEW s \in SUBSET (1 .. m)
      PROVE  it[s] = IF s = {} THEN found ELSE Put(it[s \ {Max(s)}], seq[Max(s)])
  <2>1. it[s] = IF s = {} THEN found ELSE Op[Max(s)][it[s \ {Max(s)}]]
    BY <1>5 DEF Iterates
  <2>2. s # {} => Max(s) \in 1 .. m /\ it[s \ {Max(s)}] \in Founds
    BY <1>4, <1>5
  <2> QED
    BY <1>3, <2>1, <2>2
<1>7. it = [s \in SUBSET (1 .. m) |->
              IF s = {} THEN found ELSE Put(it[s \ {Max(s)}], seq[Max(s)])]
  BY <1>5, <1>6
<1>8. PICK fold : Folds(fold) /\ all = fold[1 .. m]
  BY <1>0, <1>7
<1>9. Unfolds(fold, m, Founds, found, Op)
  <2>1. /\ fold[{}] = found
        /\ \A s \in SUBSET (1 .. m) : s # {} => fold[s] = Put(fold[s \ {Max(s)}], seq[Max(s)])
    <3>1. ASSUME NEW s \in SUBSET (1 .. m)
          PROVE  fold[s] = IF s = {} THEN found ELSE Put(fold[s \ {Max(s)}], seq[Max(s)])
      <4>1. fold = [t \in SUBSET (1 .. m) |->
                      IF t = {} THEN found ELSE Put(fold[t \ {Max(t)}], seq[Max(t)])]
        BY <1>0, <1>8, Zenon
      <4> HIDE DEF Folds
      <4> QED
        BY <4>1
    <3>2. ASSUME NEW s \in SUBSET (1 .. m), s # {}
          PROVE  fold[s] = Put(fold[s \ {Max(s)}], seq[Max(s)])
      BY <1>0, <1>4, <3>1, <3>2
    <3> QED
      BY <3>1, <3>2
  <2> QED
    BY <1>0, <1>3, <1>4, <2>1 DEF Unfolds
<1>10. GoesThrough(fold, m, Founds, found, Op)
  BY <1>9, IterationSteps
<1>11. PICK g \in [0 .. m -> Founds] :
        /\ g[0] = found /\ g[m] = fold[1 .. m]
        /\ \A i \in 1 .. m : g[i] = Op[i][g[i - 1]]
  BY <1>10 DEF GoesThrough
<1>12. \A i \in 1 .. m : g[i] = Put(g[i - 1], lo + i - 1)
  <2> TAKE i \in 1 .. m
  <2>1. i - 1 \in 0 .. m
    OBVIOUS
  <2>2. g[i - 1] \in Founds
    BY <1>11, <2>1
  <2> QED
    BY <1>0, <1>3, <1>11, <2>2
<1> QED
  BY <1>2, <1>8, <1>11, <1>12 DEF LinesInSteps, Put, Founds

(* Lines lo to hi can follow what was found: those not found come after.   *)
Fits(found, lo, hi) ==
  /\ Ascending(found)
  /\ \A n \in lo .. hi : n \in Nums(found) \/ \A k \in DOMAIN found : found[k].num < n
(* f is what was found and the lines lo to hi. *)
Grown(f, found, lo, hi, mark) ==
  /\ f \in Seq(Entry) /\ Ascending(f) /\ Nums(f) = Nums(found) \cup lo .. hi
  /\ \A k \in DOMAIN found : k \in DOMAIN f /\ f[k] = found[k]
  /\ \A k \in DOMAIN f : \/ k \in DOMAIN found
                         \/ f[k].mark = mark /\ f[k].num \in lo .. hi /\ f[k].num \notin Nums(found)

(* The next line keeps the order and whatever was there. *)
LEMMA OneMoreLine ==
  ASSUME NEW found \in Seq(Entry), NEW lo \in Int, NEW hi \in Int, NEW n \in lo .. hi,
         NEW mark \in {"before", "match", "after"}, NEW f, NEW h \in Int, h = n - 1,
         Fits(found, lo, hi), Grown(f, found, lo, h, mark)
  PROVE  Grown(AddLine(f, n, mark), found, lo, n, mark)
<1>1. /\ f \in Seq(Entry) /\ Ascending(f) /\ Nums(f) = Nums(found) \cup lo .. h
      /\ \A k \in DOMAIN found : k \in DOMAIN f /\ f[k] = found[k]
      /\ \A k \in DOMAIN f : \/ k \in DOMAIN found
                             \/ f[k].mark = mark /\ f[k].num \in lo .. h /\ f[k].num \notin Nums(found)
  BY DEF Grown
<1>2. lo .. n = lo .. h \cup {n} /\ n \in Int
  OBVIOUS
<1>3. CASE n \in Nums(f)
  <2>1. AddLine(f, n, mark) = f
    BY <1>3 DEF AddLine, Nums
  <2>2. Nums(f) = Nums(found) \cup lo .. n
    BY <1>1, <1>2, <1>3
  <2>3. lo .. h \subseteq lo .. n
    BY <1>2
  <2> QED
    BY <1>1, <2>1, <2>2, <2>3 DEF Grown
<1>4. CASE n \notin Nums(f)
  <2>1. PICK e \in Entry : e = [num |-> n, mark |-> mark] /\ e.num = n /\ e.mark = mark
    <3>1. [num |-> n, mark |-> mark] \in Entry
      BY <1>2 DEF Entry
    <3>2. PICK e \in Entry : e = [num |-> n, mark |-> mark]
      BY <3>1
    <3> QED
      BY <3>2
  <2>2. PICK q : q = Append(f, e) /\ AddLine(f, n, mark) = q
    BY <1>4, <2>1 DEF AddLine, Nums
  <2>3. PICK l \in Nat : l = Len(f) /\ DOMAIN f = 1 .. l
    BY <1>1
  <2>4. /\ q \in Seq(Entry) /\ Len(q) = l + 1 /\ DOMAIN q = 1 .. (l + 1) /\ q[l + 1] = e
        /\ \A k \in 1 .. l : q[k] = f[k]
    BY <1>1, <2>1, <2>2, <2>3
  <2>5. n \notin Nums(found) /\ n \notin lo .. h
    BY <1>1, <1>4
  <2>6. \A k \in 1 .. l : f[k].num < n
    <3> TAKE k \in 1 .. l
    <3>1. CASE k \in DOMAIN found
      BY <1>1, <2>5, <3>1 DEF Fits
    <3>2. CASE f[k].num \in lo .. h
      BY <3>2
    <3> QED
      BY <1>1, <2>3, <3>1, <3>2
  <2>7. Ascending(q)
    <3>1. ASSUME NEW k \in 2 .. (l + 1) PROVE q[k - 1].num < q[k].num
      <4>1. CASE k = l + 1
        <5>1. k - 1 \in 1 .. l /\ k - 1 = l
          BY <2>3, <4>1
        <5> QED
          BY <2>1, <2>4, <2>6, <4>1, <5>1
      <4>2. CASE k # l + 1
        <5>1. k - 1 \in 1 .. l /\ k \in 1 .. l /\ k \in 2 .. l
          BY <2>3, <4>2
        <5> QED
          BY <1>1, <2>3, <2>4, <5>1 DEF Ascending
      <4> QED
        BY <4>1, <4>2
    <3> QED
      BY <2>4, <3>1 DEF Ascending
  <2>8. Nums(q) = Nums(found) \cup lo .. n
    <3>1. Nums(q) = Nums(f) \cup {n}
      <4>1. l + 1 \in 1 .. (l + 1) /\ \A k \in 1 .. (l + 1) : k = l + 1 \/ k \in 1 .. l
        BY <2>3
      <4>2. \A k \in 1 .. l : k \in 1 .. (l + 1)
        BY <2>3
      <4>3. \A x : x \in Nums(q) <=> \E k \in 1 .. (l + 1) : x = q[k].num
        BY <2>4 DEF Nums
      <4>4. \A x : x \in Nums(f) <=> \E k \in 1 .. l : x = f[k].num
        BY <2>3 DEF Nums
      <4>5. q[l + 1].num = n
        BY <2>1, <2>4
      <4>6. \A k \in 1 .. l : q[k].num = f[k].num
        BY <2>4
      <4> QED
        BY <4>1, <4>2, <4>3, <4>4, <4>5, <4>6
    <3> QED
      BY <1>1, <1>2, <3>1
  <2>9. \A k \in DOMAIN found : k \in DOMAIN q /\ q[k] = found[k]
    <3>1. \A k \in 1 .. l : k \in 1 .. (l + 1)
      BY <2>3
    <3> QED
      BY <1>1, <2>3, <2>4, <3>1
  <2>10. ASSUME NEW k \in DOMAIN q
         PROVE  \/ k \in DOMAIN found
                \/ q[k].mark = mark /\ q[k].num \in lo .. n /\ q[k].num \notin Nums(found)
    <3>1. CASE k = l + 1
      BY <1>2, <2>1, <2>4, <2>5, <3>1
    <3>2. CASE k \in 1 .. l
      BY <1>1, <1>2, <2>3, <2>4, <3>2
    <3> QED
      BY <2>3, <2>4, <3>1, <3>2
  <2> QED
    BY <2>2, <2>4, <2>7, <2>8, <2>9, <2>10 DEF Grown
<1> QED
  BY <1>3, <1>4

(* So do all lines of a range. *)
LEMMA WithLinesGrows ==
  ASSUME NEW found \in Seq(Entry), NEW lo \in Int, NEW hi \in Int,
         NEW mark \in {"before", "match", "after"}, Fits(found, lo, hi)
  PROVE  Grown(WithLines(found, lo, hi, mark), found, lo, hi, mark)
<1> DEFINE m == IF hi >= lo THEN hi - lo + 1 ELSE 0
<1>1. /\ m \in Nat /\ 1 .. hi - lo + 1 = 1 .. m
      /\ m > 0 => m = hi - lo + 1
      /\ m = 0 => hi < lo
  OBVIOUS
<1> HIDE DEF m
<1>2. LinesInSteps(found, lo, hi, mark, m)
  BY <1>1, LinesSteps
<1>3. PICK g \in [0 .. m -> Seq(Entry)] :
        /\ g[0] = found /\ g[m] = WithLines(found, lo, hi, mark)
        /\ \A i \in 1 .. m : g[i] = AddLine(g[i - 1], lo + i - 1, mark)
  BY <1>2 DEF LinesInSteps
<1> DEFINE P == {i \in 0 .. m : Grown(g[i], found, lo, lo + i - 1, mark)}
<1>4. 0 \in P
  <2>1. PICK z \in Int : z = lo + 0 - 1 /\ z < lo /\ lo .. z = {}
    OBVIOUS
  <2>2. Grown(found, found, lo, z, mark)
    BY <2>1 DEF Grown, Fits
  <2> QED
    BY <1>1, <1>3, <2>1, <2>2
<1>5. ASSUME NEW i \in 1 .. m, i - 1 \in P PROVE i \in P
  <2>1. PICK j \in 0 .. m, n \in lo .. hi, h \in Int : j = i - 1 /\ n = lo + i - 1 /\ h = n - 1 /\ h = lo + j - 1
    BY <1>1
  <2>2. Grown(g[j], found, lo, h, mark)
    BY <1>5, <2>1
  <2>3. Grown(AddLine(g[j], n, mark), found, lo, n, mark)
    <3> HIDE DEF P
    <3> QED
      BY <2>1, <2>2, OneMoreLine
  <2>4. g[i] = AddLine(g[j], n, mark)
    BY <1>3, <2>1
  <2> QED
    BY <2>1, <2>3, <2>4
<1>6. m \in P
  <2> HIDE DEF P
  <2>1. \A i \in 0 .. m : i \in P
    BY <1>1, <1>4, <1>5, UpTo
  <2> QED
    BY <1>1, <2>1
<1>7. CASE m > 0
  <2>1. lo + m - 1 = hi
    BY <1>1, <1>7
  <2> QED
    BY <1>3, <1>6, <2>1
<1>8. CASE m = 0
  <2>1. lo .. hi = {}
    BY <1>1, <1>8
  <2>2. g[m] = found
    BY <1>3, <1>8
  <2> QED
    BY <1>3, <2>1, <2>2 DEF Grown, Fits
<1> QED
  BY <1>1, <1>7, <1>8

(* The lines around those of C, in a text of n lines. *)
Around(C, bf, af, n) ==
  {i \in 1 .. n : \E c \in C : i = c \/ i \in c - bf .. c \/ i \in c .. c + af}
(* What was found is those lines, in order and once each, and a line of C  *)
(* is marked as a match unless it came as the context of an earlier one.   *)
Shows(found, C, bf, af, n) ==
  /\ found \in Seq(Entry) /\ Ascending(found) /\ Nums(found) = Around(C, bf, af, n)
  /\ \A k \in DOMAIN found : found[k].mark = "match" => found[k].num \in C
  /\ \A c \in C : \E k \in DOMAIN found :
       found[k].num = c /\ (found[k].mark = "match" \/ \E d \in C : d < c /\ c <= d + af)

(* What lies between the context of i and a line shown is shown: contexts  *)
(* have no gaps.                                                           *)
LEMMA ContextFits ==
  ASSUME NEW bf \in Int, NEW af \in Int, NEW n \in Nat, NEW i \in 1 .. n, NEW C \in SUBSET (1 .. n),
         \A c \in C : c < i, NEW j \in Around(C, bf, af, n), NEW x \in 1 .. n, x <= j, i - bf <= x
  PROVE  x \in Around(C, bf, af, n)
<1>1. PICK c \in C : j = c \/ j \in c - bf .. c \/ j \in c .. c + af
  BY DEF Around
<1>2. c \in Int /\ c < i /\ i \in Int /\ x \in Int /\ j \in Int
  BY DEF Around
<1>3. CASE x > c
  <2>1. x \in c .. c + af
    BY <1>1, <1>2, <1>3
  <2> QED
    BY <2>1 DEF Around
<1>4. CASE x <= c
  <2>1. x \in c - bf .. c
    BY <1>2, <1>4
  <2> QED
    BY <2>1 DEF Around
<1> QED
  BY <1>2, <1>3, <1>4

(* From line i on it can only be the context after an earlier match.       *)
LEMMA AfterFits ==
  ASSUME NEW bf \in Int, NEW af \in Int, NEW n \in Nat, NEW i \in 1 .. n, NEW C \in SUBSET (1 .. n),
         \A c \in C : c < i, NEW j \in Around(C, bf, af, n), NEW x \in 1 .. n, x <= j, i <= x
  PROVE  /\ x \in Around(C, bf, af, n)
         /\ \E d \in C : d < x /\ x <= d + af
<1>1. PICK c \in C : j = c \/ j \in c - bf .. c \/ j \in c .. c + af
  BY DEF Around
<1>2. c \in Int /\ c < i /\ i \in Int /\ x \in Int /\ j \in Int
  BY DEF Around
<1>3. x \in c .. c + af /\ c < x /\ x <= c + af
  BY <1>1, <1>2
<1> QED
  BY <1>3 DEF Around

(* A matching line i with its context, after those of C.                   *)
LEMMA ShowsMore ==
  ASSUME NEW bf \in Int, NEW af \in Int, NEW n \in Nat, NEW i \in 1 .. n, NEW C \in SUBSET (1 .. n),
         \A c \in C : c < i, NEW found, Shows(found, C, bf, af, n),
         NEW lo \in Int, NEW hi \in Int, NEW h \in Int, NEW k1 \in Int,
         lo = IF 1 >= i - bf THEN 1 ELSE i - bf, hi = IF n <= i + af THEN n ELSE i + af,
         h = i - 1, k1 = i + 1
  PROVE  Shows(WithLines(WithLines(WithLines(found, lo, h, "before"), i, i, "match"), k1, hi, "after"),
               C \cup {i}, bf, af, n)
<1> DEFINE A == Around(C, bf, af, n)
<1>0. i \in Int /\ A \subseteq 1 .. n /\ lo >= 1 /\ lo >= i - bf /\ hi <= n /\ hi <= i + af
  BY DEF Around
<1>1. /\ found \in Seq(Entry) /\ Ascending(found) /\ Nums(found) = A
      /\ \A k \in DOMAIN found : found[k].num \in A
      /\ \A k \in DOMAIN found : found[k].mark = "match" => found[k].num \in C
      /\ \A c \in C : \E k \in DOMAIN found :
           found[k].num = c /\ (found[k].mark = "match" \/ \E d \in C : d < c /\ c <= d + af)
  BY DEF Shows, Nums
<1> HIDE DEF A
<1>c. ASSUME NEW j \in A, NEW x \in 1 .. n, x <= j, i - bf <= x PROVE x \in A
  BY <1>c, ContextFits DEF A
<1>a. ASSUME NEW j \in A, NEW x \in 1 .. n, x <= j, i <= x
      PROVE  x \in A /\ \E d \in C : d < x /\ x <= d + af
  BY <1>a, AfterFits DEF A
<1>2. PICK b : b = WithLines(found, lo, h, "before") /\ Grown(b, found, lo, h, "before")
  <2>1. Fits(found, lo, h)
    <3>1. ASSUME NEW x \in lo .. h, x \notin A, NEW k \in DOMAIN found PROVE found[k].num < x
      <4>1. x \in 1 .. n /\ i - bf <= x /\ x \in Int
        BY <1>0
      <4>2. PICK j \in A : j = found[k].num /\ j \in Int
        BY <1>0, <1>1
      <4>3. ~(x <= j)
        BY <1>c, <3>1, <4>1
      <4> QED
        BY <4>1, <4>2, <4>3
    <3> QED
      BY <1>1, <3>1 DEF Fits
  <2> QED
    BY <1>1, <2>1, WithLinesGrows
<1>3. /\ b \in Seq(Entry) /\ Ascending(b) /\ Nums(b) = A \cup lo .. h
      /\ \A k \in DOMAIN b : b[k].num \in A \cup lo .. h
      /\ \A k \in DOMAIN found : k \in DOMAIN b /\ b[k] = found[k]
      /\ \A k \in DOMAIN b : k \in DOMAIN found \/ b[k].mark = "before"
  <2>1. \A k \in DOMAIN b : b[k].num \in Nums(b)
    BY DEF Nums
  <2>2. Nums(b) = A \cup lo .. h
    BY <1>1, <1>2 DEF Grown
  <2> QED
    BY <1>2, <2>1, <2>2 DEF Grown
<1>4. PICK t : t = WithLines(b, i, i, "match") /\ Grown(t, b, i, i, "match")
  <2>1. Fits(b, i, i)
    <3>1. ASSUME i \notin A, NEW k \in DOMAIN b PROVE b[k].num < i
      <4>1. PICK j \in A \cup lo .. h : j = b[k].num /\ j \in Int
        <5>1. b[k].num \in A \cup lo .. h /\ A \cup lo .. h \subseteq Int
          BY <1>0, <1>3
        <5> QED
          BY <5>1
      <4>2. CASE j \in A
        <5>1. ~(i <= j)
          BY <1>0, <1>a, <3>1, <4>2
        <5> QED
          BY <1>0, <4>1, <5>1
      <4>3. CASE j \in lo .. h
        BY <1>0, <4>1, <4>3
      <4> QED
        BY <4>2, <4>3
    <3>2. i .. i = {i}
      BY <1>0
    <3> QED
      BY <1>3, <3>1, <3>2 DEF Fits
  <2> QED
    BY <1>0, <1>3, <2>1, WithLinesGrows
<1>5. /\ t \in Seq(Entry) /\ Ascending(t) /\ Nums(t) = A \cup lo .. h \cup {i}
      /\ \A k \in DOMAIN t : t[k].num \in A \cup lo .. h \cup {i}
      /\ \A k \in DOMAIN b : k \in DOMAIN t /\ t[k] = b[k]
      /\ \A k \in DOMAIN t : k \in DOMAIN b \/ (t[k].mark = "match" /\ t[k].num = i)
  <2>1. i .. i = {i}
    BY <1>0
  <2>2. Nums(t) = A \cup lo .. h \cup {i}
    BY <1>3, <1>4, <2>1 DEF Grown
  <2>3. ASSUME NEW k \in DOMAIN t
        PROVE  k \in DOMAIN b \/ (t[k].mark = "match" /\ t[k].num = i)
    <3>1. k \in DOMAIN b \/ (t[k].mark = "match" /\ t[k].num \in i .. i)
      BY <1>4 DEF Grown
    <3> QED
      BY <2>1, <3>1
  <2>4. \A k \in DOMAIN t : t[k].num \in Nums(t)
    BY DEF Nums
  <2> QED
    BY <1>4, <2>2, <2>3, <2>4 DEF Grown
<1>6. PICK a : a = WithLines(t, k1, hi, "after") /\ Grown(a, t, k1, hi, "after")
  <2>1. Fits(t, k1, hi)
    <3>1. ASSUME NEW x \in k1 .. hi, x \notin A, NEW k \in DOMAIN t PROVE t[k].num < x
      <4>1. x \in 1 .. n /\ i <= x /\ i < x /\ x \in Int
        BY <1>0
      <4>2. PICK j \in A \cup lo .. h \cup {i} : j = t[k].num /\ j \in Int
        <5>1. t[k].num \in A \cup lo .. h \cup {i} /\ A \cup lo .. h \cup {i} \subseteq Int
          BY <1>0, <1>5
        <5> QED
          BY <5>1
      <4>3. CASE j \in A
        <5>1. ~(x <= j)
          BY <1>a, <3>1, <4>1, <4>3
        <5> QED
          BY <4>1, <4>2, <5>1
      <4>4. CASE j \in lo .. h \cup {i}
        BY <1>0, <4>1, <4>2, <4>4
      <4> QED
        BY <4>3, <4>4
    <3> QED
      BY <1>5, <3>1 DEF Fits
  <2> QED
    BY <1>5, <2>1, WithLinesGrows
<1>7. /\ a \in Seq(Entry) /\ Ascending(a) /\ Nums(a) = A \cup lo .. h \cup {i} \cup k1 .. hi
      /\ \A k \in DOMAIN t : k \in DOMAIN a /\ a[k] = t[k]
      /\ \A k \in DOMAIN a : k \in DOMAIN t \/ a[k].mark = "after"
  BY <1>5, <1>6 DEF Grown
<1>8. Nums(a) = Around(C \cup {i}, bf, af, n)
  <2>1. ASSUME NEW x \in 1 .. n
        PROVE  x \in Around(C \cup {i}, bf, af, n)
                 <=> x \in A \/ x = i \/ x \in i - bf .. i \/ x \in i .. i + af
    BY DEF Around, A
  <2>2. ASSUME NEW x \in 1 .. n
        PROVE  x = i \/ x \in i - bf .. i \/ x \in i .. i + af
                 <=> x \in lo .. h \/ x = i \/ x \in k1 .. hi
    BY <1>0
  <2>3. Nums(a) \subseteq 1 .. n
    <3>1. lo .. h \subseteq 1 .. n /\ k1 .. hi \subseteq 1 .. n
      BY <1>0
    <3> QED
      BY <1>0, <1>7, <3>1
  <2>4. Around(C \cup {i}, bf, af, n) \subseteq 1 .. n
    BY DEF Around
  <2>5. ASSUME NEW x \in 1 .. n PROVE x \in Nums(a) <=> x \in Around(C \cup {i}, bf, af, n)
    BY <1>7, <2>1, <2>2
  <2> QED
    BY <2>3, <2>4, <2>5
<1>9. ASSUME NEW k \in DOMAIN a, a[k].mark = "match" PROVE a[k].num \in C \cup {i}
  <2>1. "after" # "match" /\ "before" # "match"
    OBVIOUS
  <2>2. k \in DOMAIN t /\ a[k] = t[k]
    BY <1>7, <1>9, <2>1
  <2>3. CASE k \in DOMAIN b
    <3>1. t[k] = b[k] /\ k \in DOMAIN found /\ b[k] = found[k]
      BY <1>3, <1>5, <1>9, <2>1, <2>2, <2>3
    <3> QED
      BY <1>1, <1>9, <2>2, <3>1
  <2> QED
    BY <1>5, <2>2, <2>3
<1>10. ASSUME NEW c \in C \cup {i}
       PROVE  \E k \in DOMAIN a :
                a[k].num = c /\ (a[k].mark = "match" \/ \E d \in C \cup {i} : d < c /\ c <= d + af)
  <2>1. CASE c \in C
    <3>1. PICK k \in DOMAIN found :
            found[k].num = c /\ (found[k].mark = "match" \/ \E d \in C : d < c /\ c <= d + af)
      BY <1>1, <2>1
    <3>2. k \in DOMAIN a /\ a[k] = found[k]
      BY <1>3, <1>5, <1>7
    <3> QED
      BY <3>1, <3>2
  <2>2. CASE c = i
    <3>1. PICK k \in DOMAIN t : t[k].num = i
      <4>1. i \in Nums(t)
        BY <1>5
      <4> QED
        BY <4>1 DEF Nums
    <3>2. k \in DOMAIN a /\ a[k] = t[k]
      BY <1>7
    <3>3. CASE k \in DOMAIN b
      <4>1. i \in A
        <5>1. b[k].num = i /\ i \notin lo .. h
          BY <1>0, <1>5, <3>1, <3>3
        <5> QED
          BY <1>3, <3>3, <5>1
      <4>2. \E d \in C : d < i /\ i <= d + af
        BY <1>0, <1>a, <4>1
      <4> QED
        BY <2>2, <3>1, <3>2, <4>2
    <3>4. CASE k \notin DOMAIN b
      BY <1>5, <2>2, <3>1, <3>2, <3>4
    <3> QED
      BY <3>3, <3>4
  <2> QED
    BY <2>1, <2>2
<1>11. Shows(a, C \cup {i}, bf, af, n)
  BY <1>7, <1>8, <1>9, <1>10 DEF Shows
<1> QED
  BY <1>2, <1>4, <1>6, <1>11

-----------------------------------------------------------------------------
(* A search, line by line. *)
Searched == [found : Seq(Entry), count : Nat, stop : BOOLEAN]
SearchResult(p, lines) ==
  FoldLeftDomain(LAMBDA acc, i : SearchStep(p, lines, acc, i),
                 [found |-> <<>>, count |-> 0, stop |-> FALSE], lines)
SearchInSteps(p, lines) ==
  \E g \in [0 .. Len(lines) -> Searched] :
    /\ g[0] = [found |-> <<>>, count |-> 0, stop |-> FALSE]
    /\ g[Len(lines)] = SearchResult(p, lines)
    /\ \A i \in 1 .. Len(lines) : g[i] = SearchStep(p, lines, g[i - 1], i)

LEMMA SearchSteps ==
  ASSUME NEW B, NEW lines \in Seq(B), NEW p,
         \A s \in Searched, i \in 1 .. Len(lines) : SearchStep(p, lines, s, i) \in Searched
  PROVE  SearchInSteps(p, lines)
<1> DEFINE total == Len(lines)
           base == [found |-> <<>>, count |-> 0, stop |-> FALSE]
           seq == [i \in DOMAIN lines |-> i]
           Put(s, i) == SearchStep(p, lines, s, i)
           Folds(iter) == iter = [s \in SUBSET DOMAIN seq |->
                            IF s = {} THEN base ELSE Put(iter[s \ {Max(s)}], seq[Max(s)])]
           res == (CHOOSE iter : Folds(iter))[DOMAIN seq]
<1>0. /\ total \in Nat /\ DOMAIN seq = 1 .. total
      /\ \A i \in 1 .. total : seq[i] = i
  OBVIOUS
<1>b. base \in Searched
  <2>1. <<>> \in Seq(Entry)
    OBVIOUS
  <2> QED
    BY <2>1 DEF Searched
<1>1. \A s \in Searched, i \in 1 .. total : Put(s, i) \in Searched
  OBVIOUS
<1>2. SearchResult(p, lines) = res
  BY DEF SearchResult, FoldLeftDomain, FoldLeft, MapThenFoldSet
<1> HIDE DEF Put, seq, base, total
<1>3. PICK Op \in [1 .. total -> [Searched -> Searched]] :
        \A i \in 1 .. total, s \in Searched : Op[i][s] = Put(s, i)
  <2> DEFINE op == [i \in 1 .. total |-> [s \in Searched |-> Put(s, i)]]
  <2>1. op \in [1 .. total -> [Searched -> Searched]]
    BY <1>1
  <2>2. \A i \in 1 .. total, s \in Searched : op[i][s] = Put(s, i)
    OBVIOUS
  <2> HIDE DEF op
  <2> QED
    BY <2>1, <2>2
<1>4. \A s \in SUBSET (1 .. total) :
        s # {} => Max(s) \in 1 .. total /\ s \ {Max(s)} \in SUBSET (1 .. total)
  BY <1>0, MaxUpTo
<1>5. PICK it \in [SUBSET (1 .. total) -> Searched] : Iterates(it, total, base, Op)
  BY <1>0, <1>b, <1>3, IterationExists
<1>6. ASSUME NEW s \in SUBSET (1 .. total)
      PROVE  it[s] = IF s = {} THEN base ELSE Put(it[s \ {Max(s)}], seq[Max(s)])
  <2>1. it[s] = IF s = {} THEN base ELSE Op[Max(s)][it[s \ {Max(s)}]]
    BY <1>5 DEF Iterates
  <2>2. s # {} => Max(s) \in 1 .. total /\ it[s \ {Max(s)}] \in Searched /\ seq[Max(s)] = Max(s)
    BY <1>0, <1>4, <1>5
  <2> QED
    BY <1>3, <2>1, <2>2
<1>7. it = [s \in SUBSET (1 .. total) |->
              IF s = {} THEN base ELSE Put(it[s \ {Max(s)}], seq[Max(s)])]
  BY <1>5, <1>6
<1>8. PICK fold : Folds(fold) /\ res = fold[1 .. total]
  BY <1>0, <1>7
<1>9. Unfolds(fold, total, Searched, base, Op)
  <2>1. /\ fold[{}] = base
        /\ \A s \in SUBSET (1 .. total) : s # {} => fold[s] = Put(fold[s \ {Max(s)}], Max(s))
    <3>1. ASSUME NEW s \in SUBSET (1 .. total)
          PROVE  fold[s] = IF s = {} THEN base ELSE Put(fold[s \ {Max(s)}], seq[Max(s)])
      <4>1. fold = [t \in SUBSET (1 .. total) |->
                      IF t = {} THEN base ELSE Put(fold[t \ {Max(t)}], seq[Max(t)])]
        BY <1>0, <1>8, Zenon
      <4> HIDE DEF Folds
      <4> QED
        BY <4>1
    <3>2. ASSUME NEW s \in SUBSET (1 .. total), s # {}
          PROVE  fold[s] = Put(fold[s \ {Max(s)}], Max(s))
      BY <1>0, <1>4, <3>1, <3>2
    <3> QED
      BY <3>1, <3>2
  <2>2. ASSUME NEW s \in SUBSET (1 .. total), s # {}, fold[s \ {Max(s)}] \in Searched
        PROVE  fold[s] = Op[Max(s)][fold[s \ {Max(s)}]]
    <3>1. Max(s) \in 1 .. total /\ fold[s] = Put(fold[s \ {Max(s)}], Max(s))
      BY <1>4, <2>1, <2>2
    <3> QED
      BY <1>3, <2>2, <3>1
  <2> QED
    BY <1>0, <1>b, <1>3, <2>1, <2>2 DEF Unfolds
<1>10. GoesThrough(fold, total, Searched, base, Op)
  BY <1>9, IterationSteps
<1>11. PICK g \in [0 .. total -> Searched] :
        /\ g[0] = base /\ g[total] = fold[1 .. total]
        /\ \A i \in 1 .. total : g[i] = Op[i][g[i - 1]]
  BY <1>10 DEF GoesThrough
<1>12. \A i \in 1 .. total : g[i] = Put(g[i - 1], i)
  <2> TAKE i \in 1 .. total
  <2>1. i - 1 \in 0 .. total
    BY <1>0
  <2>2. g[i - 1] \in Searched
    BY <1>11, <2>1
  <2> QED
    BY <1>3, <1>11, <2>2
<1> QED
  BY <1>2, <1>8, <1>11, <1>12 DEF SearchInSteps, Put, base, total

(* Whatever the range, a list of lines results. *)
LEMMA WithLinesType ==
  ASSUME NEW found \in Seq(Entry), NEW lo \in Int, NEW hi \in Int,
         NEW mark \in {"before", "match", "after"}
  PROVE  WithLines(found, lo, hi, mark) \in Seq(Entry)
<1> DEFINE m == IF hi >= lo THEN hi - lo + 1 ELSE 0
<1>1. m \in Nat /\ 1 .. hi - lo + 1 = 1 .. m
  OBVIOUS
<1> HIDE DEF m
<1>2. LinesInSteps(found, lo, hi, mark, m)
  BY <1>1, LinesSteps
<1> QED
  BY <1>1, <1>2 DEF LinesInSteps

(* A request with these numbers, and a matching line i in its context.     *)
IsSearching(p, bf, af, max) == p.before = bf /\ p.after = af /\ p.max = max
Context(found, i, bf, af, n) ==
  WithLines(WithLines(WithLines(found, IF 1 >= i - bf THEN 1 ELSE i - bf, i - 1, "before"), i, i, "match"),
            i + 1, IF n <= i + af THEN n ELSE i + af, "after")

LEMMA ContextType ==
  ASSUME NEW found \in Seq(Entry), NEW i \in Nat, NEW bf \in Int, NEW af \in Int, NEW n \in Nat
  PROVE  Context(found, i, bf, af, n) \in Seq(Entry)
<1>1. PICK lo \in Int, hi \in Int, h \in Int, k1 \in Int :
        /\ lo = (IF 1 >= i - bf THEN 1 ELSE i - bf) /\ h = i - 1
        /\ hi = (IF n <= i + af THEN n ELSE i + af) /\ k1 = i + 1
  <2>1. /\ (IF 1 >= i - bf THEN 1 ELSE i - bf) \in Int /\ i - 1 \in Int
        /\ (IF n <= i + af THEN n ELSE i + af) \in Int /\ i + 1 \in Int
    OBVIOUS
  <2> QED
    BY <2>1, Zenon
<1>2. PICK b \in Seq(Entry) : b = WithLines(found, lo, h, "before")
  BY WithLinesType
<1>3. PICK t \in Seq(Entry) : t = WithLines(b, i, i, "match")
  BY WithLinesType
<1>4. WithLines(t, k1, hi, "after") \in Seq(Entry)
  BY WithLinesType
<1> QED
  BY <1>1, <1>2, <1>3, <1>4, Zenon DEF Context

(* One step: the line is skipped, counted, too much, or shown in context. *)
StepIs(p, line, s, r, context, max) ==
  /\ s.stop \/ ~Matches(p, line) => r = s
  /\ ~s.stop /\ Matches(p, line) /\ p.countOnly =>
       r = [found |-> s.found, count |-> s.count + 1, stop |-> FALSE]
  /\ ~s.stop /\ Matches(p, line) /\ ~p.countOnly /\ max > 0 /\ s.count + 1 > max =>
       r = [found |-> s.found, count |-> s.count + 1, stop |-> TRUE]
  /\ ~s.stop /\ Matches(p, line) /\ ~p.countOnly /\ ~(max > 0 /\ s.count + 1 > max) =>
       r = [found |-> context, count |-> s.count + 1, stop |-> FALSE]

LEMMA SearchStepIs ==
  ASSUME NEW p, NEW lines, NEW n \in Nat, n = Len(lines), NEW i \in 1 .. n, NEW s \in Searched,
         NEW bf \in Int, NEW af \in Int, NEW max \in Int, IsSearching(p, bf, af, max)
  PROVE  StepIs(p, lines[i], s, SearchStep(p, lines, s, i), Context(s.found, i, bf, af, n), max)
<1>1. s = [found |-> s.found, count |-> s.count, stop |-> s.stop] /\ s.stop \in BOOLEAN
  BY DEF Searched
<1>2. Max({1, i - p.before}) = IF 1 >= i - bf THEN 1 ELSE i - bf
  BY MaxOfTwo DEF IsSearching
<1>3. Min({Len(lines), i + p.after}) = IF n <= i + af THEN n ELSE i + af
  BY MinOfTwo DEF IsSearching
<1>4. s.stop \/ ~Matches(p, lines[i]) => SearchStep(p, lines, s, i) = s
  BY DEF SearchStep
<1>5. ASSUME ~s.stop, Matches(p, lines[i]), p.countOnly
      PROVE  SearchStep(p, lines, s, i) = [found |-> s.found, count |-> s.count + 1, stop |-> FALSE]
  <2>1. SearchStep(p, lines, s, i) = [s EXCEPT !.count = s.count + 1]
    BY <1>5 DEF SearchStep
  <2> QED
    BY <1>1, <1>5, <2>1
<1>6. ASSUME ~s.stop, Matches(p, lines[i]), ~p.countOnly, max > 0, s.count + 1 > max
      PROVE  SearchStep(p, lines, s, i) = [found |-> s.found, count |-> s.count + 1, stop |-> TRUE]
  <2>1. SearchStep(p, lines, s, i) = [s EXCEPT !.count = s.count + 1, !.stop = TRUE]
    BY <1>6 DEF SearchStep, IsSearching
  <2> QED
    BY <1>1, <1>6, <2>1
<1>7. ASSUME ~s.stop, Matches(p, lines[i]), ~p.countOnly, ~(max > 0 /\ s.count + 1 > max)
      PROVE  SearchStep(p, lines, s, i) =
               [found |-> Context(s.found, i, bf, af, n), count |-> s.count + 1, stop |-> FALSE]
  <2> DEFINE new == WithLines(WithLines(WithLines(s.found, Max({1, i - p.before}), i - 1, "before"),
                                        i, i, "match"),
                              i + 1, Min({Len(lines), i + p.after}), "after")
  <2>1. new = Context(s.found, i, bf, af, n)
    BY <1>2, <1>3, Zenon DEF Context
  <2>2. SearchStep(p, lines, s, i) = [s EXCEPT !.count = s.count + 1, !.found = new]
    BY <1>7 DEF SearchStep, IsSearching
  <2> HIDE DEF new
  <2> QED
    BY <1>1, <1>7, <2>1, <2>2
<1> QED
  BY <1>4, <1>5, <1>6, <1>7 DEF StepIs

LEMMA SearchStepType ==
  ASSUME NEW p, NEW lines, NEW n \in Nat, n = Len(lines), NEW i \in 1 .. n, NEW s \in Searched,
         NEW bf \in Int, NEW af \in Int, NEW max \in Int, IsSearching(p, bf, af, max)
  PROVE  SearchStep(p, lines, s, i) \in Searched
<1>1. s.found \in Seq(Entry) /\ s.count + 1 \in Nat /\ s.stop \in BOOLEAN /\ i \in Nat
  BY DEF Searched
<1>2. PICK c \in Seq(Entry) : c = Context(s.found, i, bf, af, n)
  BY <1>1, ContextType
<1>3. /\ [found |-> s.found, count |-> s.count + 1, stop |-> FALSE] \in Searched
      /\ [found |-> s.found, count |-> s.count + 1, stop |-> TRUE] \in Searched
      /\ [found |-> c, count |-> s.count + 1, stop |-> FALSE] \in Searched
  BY <1>1 DEF Searched
<1>4. StepIs(p, lines[i], s, SearchStep(p, lines, s, i), c, max)
  BY <1>2, SearchStepIs
<1> QED
  BY <1>3, <1>4, Zenon DEF StepIs

(* The matching lines up to line i. *)
Seen(H, i) == {j \in H : j <= i}

LEMMA SeenFacts ==
  ASSUME NEW n \in Nat, NEW H \in SUBSET (1 .. n)
  PROVE  /\ \A i \in Int : IsFiniteSet(Seen(H, i)) /\ Cardinality(Seen(H, i)) \in Nat
         /\ \A i, j \in Int : i <= j => Cardinality(Seen(H, i)) <= Cardinality(Seen(H, j))
         /\ Seen(H, n) = H /\ Seen(H, 0) = {} /\ Cardinality(Seen(H, 0)) = 0
         /\ \A i \in 1 .. n : i \in H =>
              /\ Seen(H, i) = Seen(H, i - 1) \cup {i}
              /\ Cardinality(Seen(H, i)) = Cardinality(Seen(H, i - 1)) + 1
         /\ \A i \in 1 .. n : i \notin H => Seen(H, i) = Seen(H, i - 1)
<1>0. \A x \in H : x \in Int /\ 1 <= x /\ x <= n
  OBVIOUS
<1>1. IsFiniteSet(H)
  <2>1. IsFiniteSet(1 .. n)
    BY FS_Interval
  <2> QED
    BY <2>1, FS_Subset
<1>2. ASSUME NEW i \in Int PROVE IsFiniteSet(Seen(H, i)) /\ Cardinality(Seen(H, i)) \in Nat
  <2>1. Seen(H, i) \subseteq H
    BY DEF Seen
  <2>2. IsFiniteSet(Seen(H, i))
    BY <1>1, <2>1, FS_Subset
  <2> QED
    BY <2>2, FS_CardinalityType
<1>3. ASSUME NEW i \in Int, NEW j \in Int, i <= j
      PROVE  Cardinality(Seen(H, i)) <= Cardinality(Seen(H, j))
  <2>1. Seen(H, i) \subseteq Seen(H, j)
    <3>1. \A x \in H : x <= i => x <= j
      BY <1>0, <1>3
    <3> QED
      BY <3>1 DEF Seen
  <2> QED
    BY <1>2, <2>1, FS_Subset
<1>4. Seen(H, n) = H /\ Seen(H, 0) = {}
  <2>1. \A x \in H : x <= n /\ ~(x <= 0)
    BY <1>0
  <2> QED
    BY <2>1 DEF Seen
<1>5. Cardinality(Seen(H, 0)) = 0
  BY <1>4, FS_EmptySet
<1>6. ASSUME NEW i \in 1 .. n, i \in H
      PROVE  /\ Seen(H, i) = Seen(H, i - 1) \cup {i}
             /\ Cardinality(Seen(H, i)) = Cardinality(Seen(H, i - 1)) + 1
  <2>1. PICK h \in Int : h = i - 1 /\ i \notin Seen(H, h)
    BY DEF Seen
  <2>2. Seen(H, i) = Seen(H, h) \cup {i}
    <3>1. \A x \in H : x <= i <=> x <= h \/ x = i
      BY <1>0, <2>1
    <3> QED
      BY <1>6, <3>1 DEF Seen
  <2>3. Cardinality(Seen(H, h) \cup {i}) = Cardinality(Seen(H, h)) + 1
    BY <1>2, <2>1, FS_AddElement
  <2> QED
    BY <2>1, <2>2, <2>3
<1>7. ASSUME NEW i \in 1 .. n, i \notin H PROVE Seen(H, i) = Seen(H, i - 1)
  <2>1. \A x \in H : x <= i <=> x <= i - 1
    BY <1>0, <1>7
  <2> QED
    BY <2>1 DEF Seen
<1> QED
  BY <1>2, <1>3, <1>4, <1>5, <1>6, <1>7

(* Line i is done: all matches up to it are shown, or one too many was met. *)
Running(s, C, all, bf, af, n) == s.count = Cardinality(all) /\ Shows(s.found, C, bf, af, n)
SearchInv(s, i, co, H, bf, af, max, n) ==
  /\ s \in Searched
  /\ ~s.stop /\ co => Running(s, {}, Seen(H, i), bf, af, n)
  /\ ~s.stop /\ ~co => /\ Running(s, Seen(H, i), Seen(H, i), bf, af, n)
                       /\ max <= 0 \/ s.count <= max
  /\ s.stop => /\ ~co /\ max > 0 /\ s.count = max + 1
               /\ \E m \in 1 .. i : /\ m \in H /\ Cardinality(Seen(H, m)) = max + 1
                                    /\ Shows(s.found, Seen(H, m - 1), bf, af, n)

(* Before the first line. *)
LEMMA NothingShown ==
  ASSUME NEW bf \in Int, NEW af \in Int, NEW n \in Nat
  PROVE  Shows(<<>>, {}, bf, af, n)
<1>1. Around({}, bf, af, n) = {}
  BY DEF Around
<1>2. Nums(<<>>) = {}
  BY DEF Nums
<1>3. Ascending(<<>>) /\ <<>> \in Seq(Entry)
  BY DEF Ascending
<1>4. DOMAIN <<>> = {}
  OBVIOUS
<1> QED
  BY <1>1, <1>2, <1>3, <1>4 DEF Shows

LEMMA ContextShows ==
  ASSUME NEW bf \in Int, NEW af \in Int, NEW n \in Nat, NEW i \in 1 .. n, NEW C \in SUBSET (1 .. n),
         \A c \in C : c < i, NEW found, Shows(found, C, bf, af, n)
  PROVE  Shows(Context(found, i, bf, af, n), C \cup {i}, bf, af, n)
<1> DEFINE lo == IF 1 >= i - bf THEN 1 ELSE i - bf
           hi == IF n <= i + af THEN n ELSE i + af
           h == i - 1
           k1 == i + 1
<1>1. lo \in Int /\ hi \in Int /\ h \in Int /\ k1 \in Int
  OBVIOUS
<1>2. Context(found, i, bf, af, n) =
        WithLines(WithLines(WithLines(found, lo, h, "before"), i, i, "match"), k1, hi, "after")
  BY DEF Context
<1>3. lo = (IF 1 >= i - bf THEN 1 ELSE i - bf) /\ hi = (IF n <= i + af THEN n ELSE i + af)
  OBVIOUS
<1>4. h = i - 1 /\ k1 = i + 1
  OBVIOUS
<1> HIDE DEF lo, hi, h, k1
<1>5. Shows(WithLines(WithLines(WithLines(found, lo, h, "before"), i, i, "match"), k1, hi, "after"),
            C \cup {i}, bf, af, n)
  BY <1>1, <1>3, <1>4, ShowsMore
<1> QED
  BY <1>2, <1>5

(* Line i is searched after the lines before it. *)
IsStep(p, line, i, H, s, r, bf, af, max, n) ==
  /\ n \in Nat /\ i \in 1 .. n /\ H \in SUBSET (1 .. n) /\ (i \in H <=> Matches(p, line))
  /\ bf \in Int /\ af \in Int /\ max \in Int /\ r \in Searched
  /\ \E h \in Int : h = i - 1 /\ SearchInv(s, h, p.countOnly, H, bf, af, max, n)
  /\ StepIs(p, line, s, r, Context(s.found, i, bf, af, n), max)

LEMMA SearchInvStep ==
  ASSUME NEW p, NEW line, NEW n, NEW i, NEW H, NEW s, NEW r, NEW bf, NEW af, NEW max,
         IsStep(p, line, i, H, s, r, bf, af, max, n)
  PROVE  SearchInv(r, i, p.countOnly, H, bf, af, max, n)
<1>i. /\ n \in Nat /\ i \in 1 .. n /\ H \in SUBSET (1 .. n) /\ (i \in H <=> Matches(p, line))
      /\ bf \in Int /\ af \in Int /\ max \in Int /\ r \in Searched
      /\ StepIs(p, line, s, r, Context(s.found, i, bf, af, n), max)
  BY DEF IsStep
<1>h. PICK h \in Int : h = i - 1 /\ SearchInv(s, h, p.countOnly, H, bf, af, max, n)
  BY DEF IsStep
<1> USE <1>i, <1>h
<1>1. s \in Searched /\ s.stop \in BOOLEAN /\ s.count \in Nat /\ s.found \in Seq(Entry)
  BY DEF SearchInv, Searched
<1>2. CASE s.stop
  <2>1. r = s
    BY <1>2 DEF StepIs
  <2>2. PICK m \in 1 .. h : /\ m \in H /\ Cardinality(Seen(H, m)) = max + 1
                            /\ Shows(s.found, Seen(H, m - 1), bf, af, n)
    BY <1>2 DEF SearchInv
  <2>3. m \in 1 .. i
    OBVIOUS
  <2> QED
    BY <1>1, <1>2, <2>1, <2>2, <2>3 DEF SearchInv
<1>3. CASE ~s.stop /\ i \notin H
  <2>1. r = s
    BY <1>3 DEF StepIs
  <2>2. Seen(H, i) = Seen(H, h)
    BY <1>3, SeenFacts
  <2> QED
    BY <1>3, <2>1, <2>2 DEF SearchInv
<1>4. CASE ~s.stop /\ i \in H
  <2>1. /\ Seen(H, i) = Seen(H, h) \cup {i}
        /\ Cardinality(Seen(H, i)) = Cardinality(Seen(H, h)) + 1
        /\ Cardinality(Seen(H, h)) \in Nat
    <3>0. \A x \in 1 .. n : x \in H =>
            /\ Seen(H, x) = Seen(H, x - 1) \cup {x}
            /\ Cardinality(Seen(H, x)) = Cardinality(Seen(H, x - 1)) + 1
      BY SeenFacts
    <3>1. /\ Seen(H, i) = Seen(H, i - 1) \cup {i}
          /\ Cardinality(Seen(H, i)) = Cardinality(Seen(H, i - 1)) + 1
      BY <1>4, <3>0
    <3>2. Cardinality(Seen(H, h)) \in Nat
      BY SeenFacts
    <3> QED
      BY <3>1, <3>2
  <2>2. s.count = Cardinality(Seen(H, h))
    BY <1>4 DEF SearchInv, Running
  <2>3. CASE p.countOnly
    <3>1. r = [found |-> s.found, count |-> s.count + 1, stop |-> FALSE]
      BY <1>4, <2>3 DEF StepIs
    <3>2. r.found = s.found /\ r.count = s.count + 1 /\ ~r.stop
      BY <3>1
    <3> QED
      BY <1>4, <2>1, <2>2, <2>3, <3>2 DEF SearchInv, Running
  <2>4. CASE ~p.countOnly /\ max > 0 /\ s.count + 1 > max
    <3>1. r = [found |-> s.found, count |-> s.count + 1, stop |-> TRUE]
      BY <1>4, <2>4 DEF StepIs
    <3>2. r.found = s.found /\ r.count = s.count + 1 /\ r.stop
      BY <3>1
    <3>3. s.count = max
      <4>1. s.count <= max
        BY <1>4, <2>4 DEF SearchInv
      <4> QED
        BY <1>1, <2>4, <4>1
    <3>4. i \in 1 .. i /\ Cardinality(Seen(H, i)) = max + 1 /\ r.count = max + 1
      BY <2>1, <2>2, <3>2, <3>3
    <3>5. Shows(r.found, Seen(H, i - 1), bf, af, n)
      BY <1>4, <2>4, <3>2 DEF SearchInv, Running
    <3> QED
      BY <1>4, <2>4, <3>2, <3>4, <3>5 DEF SearchInv
  <2>5. CASE ~p.countOnly /\ ~(max > 0 /\ s.count + 1 > max)
    <3>1. PICK c : c = Context(s.found, i, bf, af, n)
      OBVIOUS
    <3>2. r = [found |-> c, count |-> s.count + 1, stop |-> FALSE]
      BY <1>4, <2>5, <3>1 DEF StepIs
    <3>3. r.found = c /\ r.count = s.count + 1 /\ ~r.stop
      BY <3>2
    <3>4. Shows(c, Seen(H, h) \cup {i}, bf, af, n)
      <4>1. Seen(H, h) \in SUBSET (1 .. n) /\ \A x \in Seen(H, h) : x < i
        <5>1. \A x \in H : x \in Int /\ (x <= h => x < i)
          OBVIOUS
        <5> QED
          BY <5>1 DEF Seen
      <4>2. Shows(s.found, Seen(H, h), bf, af, n)
        BY <1>4, <2>5 DEF SearchInv, Running
      <4> QED
        BY <3>1, <4>1, <4>2, ContextShows
    <3>5. max <= 0 \/ r.count <= max
      BY <1>1, <2>5, <3>3
    <3> QED
      BY <1>4, <2>1, <2>2, <2>5, <3>3, <3>4, <3>5 DEF SearchInv, Running
  <2> QED
    BY <2>3, <2>4, <2>5
<1> QED
  BY <1>1, <1>2, <1>3, <1>4

(* What search_file_content answers is what it should be.                  *)
LEMMA SearchIsSearch ==
  ASSUME NEW B, NEW text \in Seq(B), NEW p, p.before \in Int, p.after \in Int, p.max \in Int,
         SearchFileContent(p, text).ok
  PROVE  IsSearch(p, text, SearchFileContent(p, text))
<1>1. PICK lines \in Seq(Seq(B)), n \in Nat :
        lines = Lines(text) /\ n = Len(lines) /\ DOMAIN lines = 1 .. n
  BY LinesType
<1>2. PICK bf \in Int, af \in Int, max \in Int :
        IsSearching(p, bf, af, max) /\ p.before = bf /\ p.after = af /\ p.max = max
  BY DEF IsSearching
<1>3. PICK H : H = Hits(p, lines) /\ H \in SUBSET (1 .. n) /\ \A i \in 1 .. n : i \in H <=> Matches(p, lines[i])
  <2>1. /\ Hits(p, lines) \in SUBSET (1 .. n)
        /\ \A i \in 1 .. n : i \in Hits(p, lines) <=> Matches(p, lines[i])
    BY <1>1, Zenon DEF Hits
  <2> QED
    BY <2>1, Zenon
<1>4. PICK g \in [0 .. n -> Searched] :
        /\ g[0] = [found |-> <<>>, count |-> 0, stop |-> FALSE]
        /\ g[n] = SearchResult(p, lines)
        /\ \A i \in 1 .. n : g[i] = SearchStep(p, lines, g[i - 1], i)
  <2>1. \A s \in Searched, i \in 1 .. n : SearchStep(p, lines, s, i) \in Searched
    BY <1>1, <1>2, SearchStepType
  <2>2. SearchInSteps(p, lines)
    BY <1>1, <2>1, SearchSteps
  <2> QED
    BY <1>1, <2>2 DEF SearchInSteps
<1> DEFINE Done(i) == SearchInv(g[i], i, p.countOnly, H, bf, af, max, n)
           P == {i \in 0 .. n : Done(i)}
<1>5. 0 \in P
  <2>1. Seen(H, 0) = {} /\ Cardinality(Seen(H, 0)) = 0
    BY <1>3, SeenFacts
  <2>2. g[0].found = <<>> /\ g[0].count = 0 /\ ~g[0].stop /\ g[0] \in Searched
    <3>1. 0 \in 0 .. n
      OBVIOUS
    <3>2. g[0] \in Searched
      BY <1>4, <3>1
    <3>3. g[0].found = <<>> /\ g[0].count = 0 /\ ~g[0].stop
      BY <1>4
    <3> QED
      BY <3>2, <3>3
  <2>3. Shows(<<>>, {}, bf, af, n)
    BY NothingShown
  <2>4. Done(0)
    <3>1. PICK z : z = g[0]
      OBVIOUS
    <3>2. z.found = <<>> /\ z.count = 0 /\ ~z.stop /\ z \in Searched
      BY <2>2, <3>1
    <3>3. Running(z, {}, Seen(H, 0), bf, af, n) /\ Running(z, Seen(H, 0), Seen(H, 0), bf, af, n)
      BY <2>1, <2>3, <3>2, Zenon DEF Running
    <3>4. max <= 0 \/ z.count <= max
      BY <3>2
    <3>5. SearchInv(z, 0, p.countOnly, H, bf, af, max, n)
      BY <3>2, <3>3, <3>4, Zenon DEF SearchInv
    <3> QED
      BY <3>1, <3>5
  <2> QED
    BY <2>4
<1>6. ASSUME NEW i \in 1 .. n, i - 1 \in P PROVE i \in P
  <2>1. PICK h \in 0 .. n : h = i - 1 /\ h \in Int
    OBVIOUS
  <2>2. SearchInv(g[h], h, p.countOnly, H, bf, af, max, n) /\ g[h] \in Searched /\ g[i] \in Searched
    BY <1>4, <1>6, <2>1
  <2>3. StepIs(p, lines[i], g[h], SearchStep(p, lines, g[h], i), Context(g[h].found, i, bf, af, n), max)
    <3> HIDE DEF P
    <3> QED
      BY <1>1, <1>2, <2>2, SearchStepIs
  <2>4. g[i] = SearchStep(p, lines, g[h], i) /\ (i \in H <=> Matches(p, lines[i]))
    BY <1>3, <1>4, <2>1
  <2>5. Done(i)
    <3> HIDE DEF P
    <3>1. PICK a, b : a = g[h] /\ b = g[i]
      OBVIOUS
    <3>2. /\ SearchInv(a, h, p.countOnly, H, bf, af, max, n) /\ b \in Searched
          /\ StepIs(p, lines[i], a, b, Context(a.found, i, bf, af, n), max)
      BY <2>2, <2>3, <2>4, <3>1, Zenon
    <3>3. SearchInv(b, i, p.countOnly, H, bf, af, max, n)
      <4>1. IsStep(p, lines[i], i, H, a, b, bf, af, max, n)
        BY <1>3, <2>1, <2>4, <3>2, Zenon DEF IsStep
      <4> QED
        BY <4>1, SearchInvStep
    <3> QED
      BY <3>1, <3>3
  <2> QED
    BY <2>5
<1>7. SearchInv(g[n], n, p.countOnly, H, bf, af, max, n)
  <2>1. n \in P
    <3> HIDE DEF P
    <3>1. \A i \in 0 .. n : i \in P
      BY <1>5, <1>6, UpTo
    <3> QED
      BY <3>1
  <2> QED
    BY <2>1
<1> HIDE DEF P
<1>8. PICK s : s = g[n] /\ s \in Searched /\ s.count \in Nat /\ s.stop \in BOOLEAN
  BY <1>7 DEF SearchInv, Searched
<1>9. PICK r : r = SearchFileContent(p, text) /\ r.content = s.found /\ r.lines = s.count
  <2>1. /\ SearchFileContent(p, text).content = SearchResult(p, Lines(text)).found
        /\ SearchFileContent(p, text).lines = SearchResult(p, Lines(text)).count
    BY DEF SearchFileContent, SearchResult, Answer, Failed
  <2> QED
    BY <1>1, <1>4, <1>8, <2>1
<1>10. /\ \A i \in Int : Cardinality(Seen(H, i)) \in Nat
       /\ \A i, j \in Int : i <= j => Cardinality(Seen(H, i)) <= Cardinality(Seen(H, j))
       /\ Seen(H, n) = H
  BY <1>3, SeenFacts
<1>11. PICK chosen : chosen = {i \in H : ~p.countOnly /\ (max > 0 => Cardinality(Seen(H, i)) <= max)}
  OBVIOUS
<1>h. \A i \in H : i \in Int /\ 1 <= i /\ i <= n
  BY <1>3
<1>12. /\ Shows(s.found, chosen, bf, af, n)
       /\ p.countOnly \/ max <= 0 => s.count = Cardinality(H)
       /\ ~p.countOnly /\ max > 0 => s.count = Min({Cardinality(H), max + 1})
  <2>0. Cardinality(H) \in Nat /\ max + 1 \in Int
    BY <1>10
  <2>1. Min({Cardinality(H), max + 1}) = IF Cardinality(H) <= max + 1 THEN Cardinality(H) ELSE max + 1
    <3>1. PICK c \in Int, e \in Int : c = Cardinality(H) /\ e = max + 1
      BY <2>0
    <3>2. Min({c, e}) = IF c <= e THEN c ELSE e
      BY MinOfTwo
    <3> QED
      BY <3>1, <3>2
  <2>2. CASE ~s.stop /\ p.countOnly
    <3>1. chosen = {}
      BY <1>11, <2>2
    <3>2. Running(s, {}, H, bf, af, n)
      BY <1>7, <1>8, <1>10, <2>2 DEF SearchInv
    <3> QED
      BY <2>2, <3>1, <3>2 DEF Running
  <2>3. CASE ~s.stop /\ ~p.countOnly
    <3>1. Running(s, H, H, bf, af, n) /\ (max <= 0 \/ s.count <= max)
      BY <1>7, <1>8, <1>10, <2>3 DEF SearchInv
    <3>2. \A i \in H : max > 0 => Cardinality(Seen(H, i)) <= max
      <4> TAKE i \in H
      <4>1. Cardinality(Seen(H, i)) <= Cardinality(Seen(H, n)) /\ Cardinality(Seen(H, i)) \in Nat
        BY <1>10, <1>h
      <4>2. s.count = Cardinality(Seen(H, n))
        BY <1>10, <3>1 DEF Running
      <4> QED
        BY <1>8, <3>1, <4>1, <4>2
    <3>3. chosen = H
      BY <1>11, <2>3, <3>2
    <3>4. s.count = Cardinality(H)
      BY <3>1 DEF Running
    <3>5. max > 0 => s.count = Min({Cardinality(H), max + 1})
      BY <2>0, <2>1, <3>1, <3>4
    <3> QED
      BY <2>3, <3>1, <3>3, <3>4, <3>5 DEF Running
  <2>4. CASE s.stop
    <3>1. /\ ~p.countOnly /\ max > 0 /\ s.count = max + 1
          /\ \E m \in 1 .. n : /\ m \in H /\ Cardinality(Seen(H, m)) = max + 1
                               /\ Shows(s.found, Seen(H, m - 1), bf, af, n)
      BY <1>7, <1>8, <2>4 DEF SearchInv
    <3>2. PICK m \in 1 .. n : /\ m \in H /\ Cardinality(Seen(H, m)) = max + 1
                              /\ Shows(s.found, Seen(H, m - 1), bf, af, n)
      BY <3>1
    <3>3. PICK h \in Int : h = m - 1 /\ m \in Int /\ n \in Int
      OBVIOUS
    <3>4. Cardinality(Seen(H, h)) = max
      <4>1. \A x \in 1 .. n : x \in H =>
              /\ Seen(H, x) = Seen(H, x - 1) \cup {x}
              /\ Cardinality(Seen(H, x)) = Cardinality(Seen(H, x - 1)) + 1
        BY <1>3, SeenFacts
      <4>2. Cardinality(Seen(H, m)) = Cardinality(Seen(H, h)) + 1
        BY <3>2, <3>3, <4>1
      <4>3. Cardinality(Seen(H, h)) \in Nat
        BY <1>10, <3>3
      <4> QED
        BY <3>2, <4>2, <4>3
    <3>5. ASSUME NEW i \in H PROVE Cardinality(Seen(H, i)) <= max <=> i <= h
      <4>1. i \in Int /\ Cardinality(Seen(H, i)) \in Nat
        BY <1>10, <1>h
      <4>2. CASE i <= h
        <5>1. Cardinality(Seen(H, i)) <= Cardinality(Seen(H, h))
          BY <1>10, <3>3, <4>1, <4>2
        <5> QED
          BY <3>4, <4>2, <5>1
      <4>3. CASE m <= i
        <5>1. Cardinality(Seen(H, m)) <= Cardinality(Seen(H, i))
          BY <1>10, <3>3, <4>1, <4>3
        <5>2. ~(i <= h)
          BY <3>3, <4>1, <4>3
        <5> QED
          BY <3>2, <4>1, <5>1, <5>2
      <4> QED
        BY <3>3, <4>1, <4>2, <4>3
    <3>6. chosen = Seen(H, h)
      BY <1>11, <3>1, <3>5 DEF Seen
    <3>7. Cardinality(Seen(H, m)) <= Cardinality(H)
      <4>1. m <= n
        OBVIOUS
      <4> QED
        BY <1>10, <3>3, <4>1
    <3>8. s.count = Min({Cardinality(H), max + 1})
      BY <2>0, <2>1, <3>1, <3>2, <3>7
    <3>9. Shows(s.found, Seen(H, h), bf, af, n)
      BY <3>2, <3>3
    <3> QED
      BY <3>1, <3>6, <3>8, <3>9
  <2> QED
    BY <1>8, <2>2, <2>3, <2>4
<1>13. /\ {s.found[k].num : k \in DOMAIN s.found} =
            {i \in DOMAIN lines : \E c \in chosen : i = c \/ i \in c - bf .. c \/ i \in c .. c + af}
       /\ \A k \in 2 .. Len(s.found) : s.found[k - 1].num < s.found[k].num
       /\ \A k \in DOMAIN s.found : s.found[k].mark = "match" => s.found[k].num \in chosen
       /\ \A c \in chosen : \E k \in DOMAIN s.found :
            s.found[k].num = c /\ (s.found[k].mark = "match" \/ \E d \in chosen : d < c /\ c <= d + af)
  BY <1>1, <1>12, Zenon DEF Shows, Nums, Around, Ascending
<1>14. s.count = IF p.countOnly \/ max <= 0 THEN Cardinality(H) ELSE Min({Cardinality(H), max + 1})
  <2>1. ~(max <= 0) => max > 0
    OBVIOUS
  <2> QED
    BY <1>12, <2>1
<1> DEFINE hits == Hits(p, Lines(text))
           C == {i \in hits : ~p.countOnly /\ (p.max > 0 => Cardinality({j \in hits : j <= i}) <= p.max)}
           around == {i \in DOMAIN Lines(text) :
                        \E c \in C : i = c \/ i \in c - p.before .. c \/ i \in c .. c + p.after}
<1>15. hits = H /\ C = chosen
  <2>1. hits = H
    BY <1>1, <1>3
  <2>2. C = {i \in H : ~p.countOnly /\ (max > 0 => Cardinality({j \in H : j <= i}) <= max)}
    BY <1>2, <2>1, Zenon
  <2> QED
    BY <1>11, <2>1, <2>2, Zenon DEF Seen
<1> HIDE DEF hits, C
<1>16. around = {i \in DOMAIN lines : \E c \in chosen : i = c \/ i \in c - bf .. c \/ i \in c .. c + af}
  BY <1>1, <1>2, <1>15, Zenon
<1> HIDE DEF around
<1>17. /\ {r.content[k].num : k \in DOMAIN r.content} = around
       /\ \A k \in 2 .. Len(r.content) : r.content[k - 1].num < r.content[k].num
       /\ \A k \in DOMAIN r.content : r.content[k].mark = "match" => r.content[k].num \in C
       /\ \A c \in C : \E k \in DOMAIN r.content :
            r.content[k].num = c /\ (r.content[k].mark = "match"
              \/ \E d \in C : d < c /\ c <= d + p.after)
       /\ r.lines = IF p.countOnly \/ p.max <= 0 THEN Cardinality(hits)
                    ELSE Min({Cardinality(hits), p.max + 1})
  <2>1. r.lines = IF p.countOnly \/ p.max <= 0 THEN Cardinality(hits)
                    ELSE Min({Cardinality(hits), p.max + 1})
    BY <1>2, <1>9, <1>14, <1>15, Zenon
  <2>2. r.content = s.found /\ C = chosen /\ p.after = af
    BY <1>2, <1>9, <1>15
  <2>3. {r.content[k].num : k \in DOMAIN r.content} = around
    <3>1. Nums(r.content) = Nums(s.found)
      BY <2>2
    <3>2. Nums(s.found) = around
      BY <1>13, <1>16, Zenon DEF Nums
    <3> QED
      BY <3>1, <3>2, Zenon DEF Nums
  <2> QED
    BY <1>13, <2>1, <2>2, <2>3, Zenon
<1>18. IsSearch(p, text, r)
  BY <1>17, Zenon DEF IsSearch, around, C, hits
<1> QED
  BY <1>9, <1>18

(* What read_file answers is what it should be.                            *)
LEMMA ReadingIsReading ==
  ASSUME NEW B, NEW text \in Seq(B), NEW size \in Nat, NEW maxMB, NEW p,
         p.offset \in Int, p.length \in Int, p.tail \in Int, p.head \in Int, p.maxLines \in Int
  PROVE  IsReading(p, size, text, maxMB, ReadFile(p, size, text, maxMB))
<1> DEFINE Binary == \E i \in 1 .. Min({ProbeBytes, Len(text)}) : text[i] = "nul"
<1>1. Binary => "nul" \in ToSet(text)
  <2>0. ProbeBytes \in Nat
    BY FileToolsAssumption
  <2>m. PICK m \in Int : m = ProbeBytes
    BY <2>0
  <2>2. PICK n \in Nat : n = Len(text) /\ DOMAIN text = 1 .. n
    OBVIOUS
  <2>3. Min({m, n}) = IF m <= n THEN m ELSE n
    BY MinOfTwo
  <2>4. PICK k \in Int : k = Min({ProbeBytes, Len(text)}) /\ k <= n
    <3>1. Min({m, n}) \in Int /\ Min({m, n}) <= n
      BY <2>3
    <3> QED
      BY <2>m, <2>2, <3>1
  <2>5. \A i \in 1 .. k : i \in DOMAIN text
    BY <2>2, <2>4
  <2> QED
    BY <2>4, <2>5 DEF ToSet
<1> HIDE DEF Binary
<1> DEFINE r == ReadFile(p, size, text, maxMB)
<1>2. SUFFICES ASSUME r.ok
      PROVE  \/ "nul" \in ToSet(text) /\ r.content = <<>>
             \/ /\ ~(size > maxMB * MB)
                /\ IF p.offset > 0 \/ p.length > 0 THEN IsRange(p, size, text, r)
                   ELSE IF p.tail > 0 THEN IsTail(p.tail, Lines(text), r)
                   ELSE IsHead(p, Lines(text), r)
  BY Zenon DEF IsReading
<1>3. CASE Binary
  <2>1. r = Answer(<<>>, 0, FALSE)
    BY <1>3, Zenon DEF ReadFile, Binary
  <2>2. r.content = <<>>
    BY <2>1 DEF Answer
  <2> QED
    BY <1>1, <1>3, <2>2
<1>4. CASE ~Binary
  <2>1. r = IF size > maxMB * MB THEN Failed
            ELSE IF p.offset > 0 \/ p.length > 0 THEN ReadRange(p, size, text)
            ELSE IF p.tail > 0 THEN ReadTail(p.tail, text)
            ELSE ReadHead(p, text)
    BY <1>4, Zenon DEF ReadFile, Binary
  <2> HIDE DEF r
  <2>2. ~(size > maxMB * MB)
    BY <1>2, <2>1 DEF Failed
  <2>3. CASE p.offset > 0 \/ p.length > 0
    <3>1. r = ReadRange(p, size, text)
      BY <2>1, <2>2, <2>3, Zenon
    <3>2. IsRange(p, size, text, r)
      BY <1>2, <3>1, RangeIsRange
    <3> QED
      BY <2>2, <2>3, <3>2
  <2>4. CASE ~(p.offset > 0 \/ p.length > 0) /\ p.tail > 0
    <3>1. r = ReadTail(p.tail, text)
      BY <2>1, <2>2, <2>4, Zenon
    <3>2. PICK n \in Nat \ {0} : n = p.tail
      BY <2>4
    <3>3. IsTail(n, Lines(text), r)
      BY <1>2, <3>1, <3>2, TailIsTail
    <3> QED
      BY <2>2, <2>4, <3>2, <3>3
  <2>5. CASE ~(p.offset > 0 \/ p.length > 0) /\ ~(p.tail > 0)
    <3>1. r = ReadHead(p, text)
      BY <2>1, <2>2, <2>5, Zenon
    <3>2. IsHead(p, Lines(text), r)
      BY <1>2, <3>1, HeadIsHead
    <3> QED
      BY <2>2, <2>5, <3>2
  <2> QED
    BY <2>3, <2>4, <2>5
<1> QED
  BY <1>3, <1>4

-----------------------------------------------------------------------------
USE RuntimeAssumption

-----------------------------------------------------------------------------
(* What settings permit.                                                   *)
(*                                                                         *)
(* The check of a handler is made on the settings it took when it started, *)
(* and those were in force then: the invariant follows the settings from   *)
(* the lock to the answer.                                                 *)
GuardedKinds == FileKinds \cup {"run", "api"}
AtWork == {"permitted", "sized", "opened", "unlinked", "running"}

Shape ==
  /\ pc \in [Call -> Stages]
  /\ DOMAIN seen = Call /\ DOMAIN snap = Call /\ DOMAIN limit = Call /\ DOMAIN answer = Call
  /\ up \in BOOLEAN

(* A process that is down has no handlers. *)
NoneWhenDown == ~up => \A c \in Call : pc[c] \in Over

(* What is in force has been seen by every handler that runs; a guarded    *)
(* one has taken settings that it has seen, a reader its limit too; past   *)
(* the check the settings it took permit what it was asked.                *)
HandlerInv(c) ==
  /\ pc[c] \notin Over => security \in seen[c]
  /\ IsA(c, GuardedKinds) /\ pc[c] \in {"guarded", "limited"} \cup AtWork => snap[c] \in seen[c]
  /\ IsA(c, {"read"}) /\ pc[c] \in {"limited"} \cup AtWork => \E s \in seen[c] : s.limit = limit[c]
  /\ IsA(c, GuardedKinds) /\ pc[c] \in AtWork => Permits(snap[c], ask[c])
  /\ IsA(c, GuardedKinds) /\ Worked(c) => \E s \in seen[c] : Permits(s, ask[c])
  /\ IsA(c, {"read"}) /\ Worked(c) => \E s \in seen[c] : s.limit = limit[c]
  /\ IsA(c, {"get"}) /\ Worked(c) => pc[c] = "answered" /\ answer[c].settings \in seen[c]
  /\ IsA(c, {"get", "set"}) => pc[c] \notin {"guarded", "limited"} \cup AtWork

PermitInv == Shape /\ NoneWhenDown /\ \A c \in Call : HandlerInv(c)

LEMMA InitPermitInv == Init => PermitInv
  BY DEF Init, PermitInv, Shape, NoneWhenDown, HandlerInv, Worked, Over, AtWork, Stages

(* A step of one handler concerns the invariant of this one only.          *)
LEMMA OneHandlerMoves ==
  ASSUME PermitInv, NEW c \in Call, Shape', NoneWhenDown', HandlerInv(c)',
         UNCHANGED <<security, ask>>,
         \A d \in Call \ {c} : /\ pc'[d] = pc[d] /\ seen'[d] = seen[d] /\ snap'[d] = snap[d]
                               /\ limit'[d] = limit[d] /\ answer'[d] = answer[d]
  PROVE  PermitInv'
<1>1. ASSUME NEW d \in Call \ {c} PROVE HandlerInv(d)'
  BY <1>1 DEF PermitInv, HandlerInv, Worked, IsA
<1> QED
  BY <1>1 DEF PermitInv

(* A handler that goes on without taking anything.                         *)
LEMMA GoesOn ==
  ASSUME PermitInv, NEW c \in Call, NEW from, NEW to \in Stages, Goes(c, from, to),
         UNCHANGED <<up, security, seen, snap, limit, ask>>,
         from \notin Over, to \notin Over \cup {"guarded", "limited"},
         to \in AtWork =>
           /\ IsA(c, GuardedKinds)
           /\ from \in AtWork \/ (Permits(snap[c], ask[c]) /\ from \in {"guarded", "limited"})
           /\ IsA(c, {"read"}) => from # "guarded"
  PROVE  PermitInv'
<1>1. /\ up /\ answer' = answer /\ pc[c] = from
      /\ \A d \in Call : pc'[d] = IF d = c THEN to ELSE pc[d]
  BY DEF Goes, PermitInv, Shape
<1>2. Shape' /\ NoneWhenDown'
  BY <1>1 DEF Goes, PermitInv, Shape, NoneWhenDown
<1>3. HandlerInv(c)'
  <2> USE <1>1 DEF PermitInv, HandlerInv, AtWork
  <2>1. ~Worked(c)' \/ to \in AtWork \ {"permitted"}
    BY DEF Worked, Over
  <2>2. CASE to \in AtWork
    <3>1. ~IsA(c, {"get", "set"})
      BY <2>2 DEF IsA, GuardedKinds, FileKinds
    <3> QED
      BY <2>2, <3>1, <2>1 DEF IsA
  <2>3. CASE to \notin AtWork
    BY <2>1, <2>3 DEF IsA
  <2> QED
    BY <2>2, <2>3
<1> QED
  BY <1>1, <1>2, <1>3, OneHandlerMoves

(* A handler that returns has worked only if it was permitted to.          *)
LEMMA ReturnsPermitted ==
  ASSUME PermitInv, NEW c \in Call, NEW from, NEW result, Returns(c, from, result),
         UNCHANGED <<up, security, seen, snap, limit, ask>>,
         result.ok => \/ from \in AtWork
                      \/ IsA(c, {"set"})
                      \/ IsA(c, {"get"}) /\ result.settings = security /\ from \notin Over
  PROVE  PermitInv'
<1>1. /\ up /\ pc[c] = from /\ answer'[c] = result /\ pc'[c] = "answered"
      /\ \A d \in Call \ {c} : pc'[d] = pc[d] /\ answer'[d] = answer[d]
  BY DEF Returns, PermitInv, Shape
<1>2. Shape' /\ NoneWhenDown'
  BY <1>1 DEF Returns, PermitInv, Shape, NoneWhenDown, Stages
<1>3. HandlerInv(c)'
  <2> USE <1>1 DEF PermitInv, HandlerInv, AtWork
  <2>1. Worked(c)' => result.ok
    BY DEF Worked
  <2>2. pc'[c] \in Over /\ pc'[c] \notin AtWork \cup {"guarded", "limited"}
    BY DEF Over
  <2>3. CASE IsA(c, {"get", "set"})
    <3>1. ~IsA(c, GuardedKinds) /\ ~IsA(c, {"read"})
      BY <2>3 DEF IsA, GuardedKinds, FileKinds
    <3> QED
      BY <2>1, <2>2, <2>3, <3>1 DEF IsA
  <2>4. CASE ~IsA(c, {"get", "set"})
    <3>1. ~IsA(c, {"get"}) /\ ~IsA(c, {"set"})
      BY <2>4 DEF IsA
    <3>2. IsA(c, {"read"}) => IsA(c, GuardedKinds)
      BY DEF IsA, GuardedKinds, FileKinds
    <3> QED
      BY <2>1, <2>2, <3>1, <3>2 DEF IsA
  <2> QED
    BY <2>3, <2>4
<1> QED
  BY <1>1, <1>2, <1>3, OneHandlerMoves

(* The kind of a request decides which handler it has.                     *)
LEMMA KindsApart ==
  ASSUME NEW c \in Call
  PROVE  /\ IsA(c, {"set"}) => ~IsA(c, GuardedKinds) /\ ~IsA(c, {"get"}) /\ ~IsA(c, {"read"})
         /\ IsA(c, {"get"}) => ~IsA(c, GuardedKinds) /\ ~IsA(c, {"set"}) /\ ~IsA(c, {"read"})
         /\ IsA(c, FileKinds) \/ IsA(c, {"run"}) \/ IsA(c, {"api"}) <=> IsA(c, GuardedKinds)
         /\ \A k \in FileKinds : IsA(c, {k}) => IsA(c, GuardedKinds)
  BY DEF IsA, GuardedKinds, FileKinds

(* The end of the process ends all handlers, and no answer is given.       *)
LEMMA DownPermitInv == ASSUME PermitInv, Down PROVE PermitInv'
<1> USE DEF configVars, localVars, pastVars
<1>1. /\ up' = FALSE /\ UNCHANGED <<security, seen, snap, limit, ask, answer>>
      /\ \A d \in Call : pc'[d] = IF pc[d] \in Over THEN pc[d] ELSE "gone"
  BY DEF Down
<1>2. Shape' /\ NoneWhenDown'
  BY <1>1 DEF Down, PermitInv, Shape, NoneWhenDown, Stages, Over
<1>3. ASSUME NEW d \in Call PROVE HandlerInv(d)'
  BY <1>1, <1>3 DEF PermitInv, HandlerInv, Worked, IsA, AtWork, Over
<1> QED
  BY <1>2, <1>3 DEF PermitInv

(* Steps that the handlers do not see. *)
LEMMA UnseenPermitInv ==
  ASSUME PermitInv, UNCHANGED <<up, security, seen, snap, limit, ask, pc, answer>>
  PROVE  PermitInv'
<1>1. ASSUME NEW d \in Call PROVE HandlerInv(d)'
  BY <1>1 DEF PermitInv, HandlerInv, Worked, IsA
<1> QED
  BY <1>1 DEF PermitInv, Shape, NoneWhenDown

LEMMA StartPermitInv == ASSUME PermitInv, NEW c \in Call, Start(c) PROVE PermitInv'
<1> USE DEF configVars, localVars
<1>1. /\ up /\ pc[c] = "idle" /\ pc'[c] = "new" /\ seen'[c] = {security}
      /\ \A d \in Call \ {c} : pc'[d] = pc[d] /\ seen'[d] = seen[d]
      /\ UNCHANGED <<up, security, snap, limit, ask, answer>>
  BY DEF Start, Goes, PermitInv, Shape
<1>2. Shape' /\ NoneWhenDown'
  BY <1>1 DEF Start, Goes, PermitInv, Shape, NoneWhenDown, Stages
<1>3. HandlerInv(c)'
  BY <1>1 DEF HandlerInv, Worked, AtWork
<1> QED
  BY <1>1, <1>2, <1>3, OneHandlerMoves

(* set_agent_config: what becomes the settings in force is seen by all.    *)
LEMMA SetPermitInv == ASSUME PermitInv, NEW c \in Call, Set(c) PROVE PermitInv'
<1> USE DEF configVars, localVars, pastVars, Stages, Over, AtWork
<1>1. CASE Validate(c)
  <2>1. CASE Goes(c, "new", "valid")
    BY <1>1, <2>1, GoesOn DEF Validate
  <2>2. CASE Returns(c, "new", Failed)
    BY <1>1, <2>2, ReturnsPermitted DEF Validate, Failed
  <2> QED
    BY <1>1, <2>1, <2>2 DEF Validate
<1>2. CASE ReadConfig(c)
  <2>1. CASE Goes(c, "valid", "parsed") /\ snap' = [snap EXCEPT ![c] = file]
               /\ UNCHANGED <<file, security, up, crashes, diskVars, limit, stat, pastVars, ask, job>>
    <3>1. /\ up /\ pc'[c] = "parsed" /\ pc[c] = "valid"
          /\ \A d \in Call \ {c} : pc'[d] = pc[d] /\ snap'[d] = snap[d]
          /\ UNCHANGED <<up, security, seen, limit, ask, answer>>
      BY <2>1 DEF Goes, PermitInv, Shape
    <3>2. Shape' /\ NoneWhenDown'
      BY <2>1, <3>1 DEF Goes, PermitInv, Shape, NoneWhenDown
    <3>3. HandlerInv(c)'
      BY <3>1 DEF PermitInv, HandlerInv, Worked
    <3> QED
      BY <3>1, <3>2, <3>3, OneHandlerMoves
  <2>2. CASE Returns(c, "valid", Failed) /\ UNCHANGED <<configVars, localVars, pastVars, ask>>
    BY <2>2, ReturnsPermitted DEF Failed
  <2>3. CASE Down
    BY <2>3, DownPermitInv
  <2> QED
    BY <1>2, <2>1, <2>2, <2>3 DEF ReadConfig
<1>3. CASE TruncateConfig(c)
  BY <1>3, GoesOn DEF TruncateConfig
<1>4. CASE WriteConfig(c)
  BY <1>4, GoesOn DEF WriteConfig
<1>5. CASE WriteConfigFails(c)
  BY <1>5, ReturnsPermitted DEF WriteConfigFails, Failed
<1>6. CASE SetSecurity(c)
  <2>1. /\ up /\ pc[c] = "stored" /\ pc'[c] = "answered"
        /\ \A d \in Call \ {c} : pc'[d] = pc[d] /\ answer'[d] = answer[d]
        /\ \A d \in Call : /\ seen[d] \subseteq seen'[d]
                           /\ pc[d] \notin Over => security' \in seen'[d]
        /\ UNCHANGED <<up, snap, limit, ask>>
    BY <1>6 DEF SetSecurity, Returns, PermitInv, Shape
  <2>2. Shape' /\ NoneWhenDown'
    BY <1>6, <2>1 DEF SetSecurity, Returns, PermitInv, Shape, NoneWhenDown
  <2>3. ASSUME NEW d \in Call \ {c} PROVE HandlerInv(d)'
    BY <2>1, <2>3 DEF PermitInv, HandlerInv, Worked, IsA
  <2>4. HandlerInv(c)'
    <3>1. ~IsA(c, GuardedKinds) /\ ~IsA(c, {"get"}) /\ ~IsA(c, {"read"})
      BY <1>6, KindsApart DEF SetSecurity
    <3> QED
      BY <2>1, <3>1 DEF HandlerInv, IsA
  <2> QED
    BY <2>2, <2>3, <2>4 DEF PermitInv
<1> QED
  BY <1>1, <1>2, <1>3, <1>4, <1>5, <1>6 DEF Set

(* A guarded handler takes the settings in force, and is checked by them.  *)
LEMMA GuardedPermitInv == ASSUME PermitInv, NEW c \in Call, Guarded(c) PROVE PermitInv'
<1> USE DEF configVars, localVars, pastVars, Stages, Over, AtWork
<1>1. CASE Snapshot(c)
  <2>1. /\ up /\ pc[c] = "new" /\ pc'[c] = "guarded" /\ snap'[c] = security
        /\ \A d \in Call \ {c} : pc'[d] = pc[d] /\ snap'[d] = snap[d]
        /\ UNCHANGED <<up, security, seen, limit, ask, answer>>
    BY <1>1 DEF Snapshot, Goes, PermitInv, Shape
  <2>2. Shape' /\ NoneWhenDown'
    BY <1>1, <2>1 DEF Snapshot, Goes, PermitInv, Shape, NoneWhenDown
  <2>3. IsA(c, GuardedKinds) /\ ~IsA(c, {"get", "set"})
    BY <1>1 DEF Snapshot, IsA, GuardedKinds, FileKinds
  <2>4. HandlerInv(c)'
    BY <2>1, <2>3 DEF PermitInv, HandlerInv, Worked, IsA
  <2> QED
    BY <2>1, <2>2, <2>4, OneHandlerMoves
<1>2. CASE TakeLimit(c)
  <2>1. /\ up /\ pc[c] = "guarded" /\ pc'[c] = "limited" /\ limit'[c] = security.limit
        /\ \A d \in Call \ {c} : pc'[d] = pc[d] /\ limit'[d] = limit[d]
        /\ UNCHANGED <<up, security, seen, snap, ask, answer>>
    BY <1>2 DEF TakeLimit, Goes, PermitInv, Shape
  <2>2. Shape' /\ NoneWhenDown'
    BY <1>2, <2>1 DEF TakeLimit, Goes, PermitInv, Shape, NoneWhenDown
  <2>3. ~IsA(c, {"get", "set"})
    BY <1>2 DEF TakeLimit, IsA
  <2>4. HandlerInv(c)'
    BY <2>1, <2>3 DEF PermitInv, HandlerInv, Worked, IsA
  <2> QED
    BY <2>1, <2>2, <2>4, OneHandlerMoves
<1>3. CASE Check(c)
  <2> DEFINE from == IF IsA(c, {"read"}) THEN "limited" ELSE "guarded"
  <2>1. CASE Permits(snap[c], ask[c]) /\ Goes(c, from, "permitted")
    BY <1>3, <2>1, GoesOn DEF Check, GuardedKinds
  <2>2. CASE Returns(c, from, Failed)
    BY <1>3, <2>2, ReturnsPermitted DEF Check, Failed
  <2> QED
    BY <1>3, <2>1, <2>2 DEF Check
<1>4. CASE GivesUp(c)
  <2>1. \E from \in AtWork : Returns(c, from, Failed)
    BY <1>4 DEF GivesUp
  <2> QED
    BY <1>4, <2>1, ReturnsPermitted DEF GivesUp, Failed
<1> QED
  BY <1>1, <1>2, <1>3, <1>4 DEF Guarded

(* The tools only work behind the check. *)
LEMMA FileToolPermitInv == ASSUME PermitInv, NEW c \in Call, FileTool(c) PROVE PermitInv'
<1> USE DEF configVars, localVars, pastVars, Stages, Over, AtWork
<1>k. IsA(c, GuardedKinds) /\ UNCHANGED <<up, security, seen, snap, limit, ask>>
  BY KindsApart DEF FileTool, StatFileForRead, ReadContent, Search, StatFile, CheckPathExists,
     ListDirectory, StatFileForWrite, OpenForWrite, WriteContent, FileKinds
<1>1. CASE \E from \in AtWork : \E result : Returns(c, from, result)
  BY <1>1, <1>k, ReturnsPermitted
<1>2. CASE \E from \in AtWork, to \in AtWork : Goes(c, from, to)
  BY <1>2, <1>k, GoesOn
<1>3. \/ \E from \in AtWork : \E result : Returns(c, from, result)
      \/ \E from \in AtWork, to \in AtWork : Goes(c, from, to)
  <2>1. CASE StatFileForRead(c)
    BY <2>1 DEF StatFileForRead
  <2>2. CASE ReadContent(c)
    BY <2>2 DEF ReadContent
  <2>3. CASE Search(c)
    BY <2>3 DEF Search
  <2>4. CASE StatFile(c) \/ CheckPathExists(c) \/ ListDirectory(c)
    BY <2>4 DEF StatFile, CheckPathExists, ListDirectory
  <2>5. CASE StatFileForWrite(c)
    BY <2>5 DEF StatFileForWrite
  <2>6. CASE OpenForWrite(c)
    BY <2>6 DEF OpenForWrite
  <2>7. CASE WriteContent(c)
    BY <2>7 DEF WriteContent
  <2> QED
    BY <2>1, <2>2, <2>3, <2>4, <2>5, <2>6, <2>7 DEF FileTool
<1> QED
  BY <1>1, <1>2, <1>3

LEMMA ProcessPermitInv ==
  ASSUME PermitInv, NEW c \in Call,
         \/ GetConfig(c) \/ CallApi(c) \/ StartProcess(c) \/ Collect(c)
         \/ (\E o \in Channel : Emit(c, o)) \/ ExitsByItself(c) \/ Kill(c) \/ Expire(c)
  PROVE  PermitInv'
<1> USE DEF configVars, localVars, pastVars, OthersOfJob, Stages, Over, AtWork
<1>1. CASE GetConfig(c)
  BY <1>1, ReturnsPermitted DEF GetConfig
<1>2. CASE CallApi(c)
  BY <1>2, ReturnsPermitted DEF CallApi
<1>3. CASE StartProcess(c)
  <2>1. CASE Goes(c, "permitted", "running")
    BY <1>3, <2>1, KindsApart, GoesOn DEF StartProcess, IsA
  <2>2. CASE Returns(c, "permitted", Failed)
    BY <1>3, <2>2, ReturnsPermitted DEF StartProcess
  <2> QED
    BY <1>3, <2>1, <2>2 DEF StartProcess
<1>4. CASE Finish(c)
  <2>1. \E result : Returns(c, "running", result)
    BY <1>4 DEF Finish
  <2> QED
    BY <1>4, <2>1, ReturnsPermitted DEF Finish
<1>5. CASE UNCHANGED <<OthersOfJob, pc, answer>>
  BY <1>5, UnseenPermitInv
<1> QED
  BY <1>1, <1>2, <1>3, <1>4, <1>5 DEF Collect, Emit, ExitsByItself, Kill, Exit, Expire, Copy,
     CopyEnds, Wait

LEMMA NextPermitInv == ASSUME PermitInv, Next PROVE PermitInv'
<1> USE DEF configVars, localVars, pastVars
<1>1. ASSUME NEW text \in Texts, ChangeDisk(text) PROVE PermitInv'
  <2>1. /\ UNCHANGED <<up, security, seen, snap, limit, ask, answer>>
        /\ \A d \in Call : pc'[d] = pc[d] \/ (pc[d] = "opened" /\ pc'[d] = "unlinked")
    BY <1>1 DEF ChangeDisk
  <2>2. Shape' /\ NoneWhenDown'
    BY <1>1, <2>1 DEF ChangeDisk, PermitInv, Shape, NoneWhenDown, Stages, Over
  <2>3. ASSUME NEW d \in Call PROVE HandlerInv(d)'
    <3>1. pc'[d] \in Over <=> pc[d] \in Over
      BY <2>1 DEF Over
    <3>2. Worked(d)' <=> Worked(d)
      BY <2>1 DEF Worked
    <3>3. pc'[d] \in AtWork <=> pc[d] \in AtWork
      BY <2>1 DEF AtWork
    <3>4. pc'[d] \in {"guarded", "limited"} \cup AtWork <=> pc[d] \in {"guarded", "limited"} \cup AtWork
      BY <2>1, <3>3
    <3>5. pc'[d] = "answered" <=> pc[d] = "answered"
      BY <2>1
    <3>6. pc'[d] \in {"limited"} \cup AtWork <=> pc[d] \in {"limited"} \cup AtWork
      BY <2>1, <3>3
    <3> QED
      BY <2>1, <3>1, <3>2, <3>3, <3>4, <3>5, <3>6 DEF PermitInv, HandlerInv, IsA
  <2> QED
    BY <2>2, <2>3 DEF PermitInv
<1>2. CASE Crash
  BY <1>2, DownPermitInv DEF Crash
<1>3. CASE Restart
  <2>1. /\ ~up /\ up' = TRUE /\ UNCHANGED <<seen, snap, limit, ask, pc, answer>>
    BY <1>3 DEF Restart
  <2>2. Shape' /\ NoneWhenDown'
    BY <2>1 DEF PermitInv, Shape, NoneWhenDown
  <2>3. ASSUME NEW d \in Call PROVE HandlerInv(d)'
    BY <2>1, <2>3 DEF PermitInv, NoneWhenDown, HandlerInv, Worked, IsA
  <2> QED
    BY <2>2, <2>3 DEF PermitInv
<1> QED
  BY <1>1, <1>2, <1>3, StartPermitInv, SetPermitInv, GuardedPermitInv, FileToolPermitInv,
     ProcessPermitInv DEF Next, Handler

LEMMA PermitInvariance == Spec => []PermitInv
<1>1. PermitInv /\ UNCHANGED vars => PermitInv'
  BY UnseenPermitInv DEF vars, configVars, localVars, pastVars
<1> QED
  BY <1>1, InitPermitInv, NextPermitInv, PTL DEF Spec

(* Whatever a handler of the agent has done, settings that were in force   *)
(* while its call ran permitted it, over any number of updates, crashes    *)
(* and restarts meanwhile.                                                 *)
THEOREM WorkIsPermitted == Spec => []PermittedWhileRunning
<1>1. PermitInv => PermittedWhileRunning
  BY DEF PermitInv, HandlerInv, PermittedWhileRunning, GuardedKinds
<1> QED
  BY <1>1, PermitInvariance, PTL

-----------------------------------------------------------------------------
(* The configuration file and the memory.                                  *)
(*                                                                         *)
(* As long as nothing went wrong at most one update is between the reading *)
(* of the file and its end, and its place there says what the file holds.  *)
SetsSettings == \A c \in Call : IsA(c, {"set"}) => ask[c].settings \in Settings
OneUpdates == \A c, d \in Updating : c = d
FileFollows == \A c \in Updating :
  /\ pc[c] = "parsed"    => file \in Settings
  /\ pc[c] = "truncated" => file = Empty
  /\ pc[c] = "stored"    => file = ask[c].settings
  /\ snap[c] \in Settings
MemoryFollows ==
  (\A c \in Updating : pc[c] = "parsed") =>
    file \in Settings /\ (up => Effective(file) = Effective(security))

ConfigInv == clean \in BOOLEAN /\ SetsSettings /\ (clean => OneUpdates /\ FileFollows /\ MemoryFollows)

(* Load completes what it has completed already to the same settings.      *)
LEMMA EffectiveTwice == ASSUME NEW s PROVE Effective(Effective(s)) = Effective(s)
<1> DEFINE t == Effective(s)
<1>1. t = [f \in DOMAIN s |-> t[f]] /\ Effective(t) = [f \in DOMAIN s |-> Effective(t)[f]]
  BY DEF Effective
<1>2. \A f \in DOMAIN s : Effective(t)[f] = t[f]
  BY DEF Effective
<1> QED
  BY <1>1, <1>2
(* Steps that neither touch the configuration nor move an update.          *)
LEMMA UnseenConfigInv ==
  ASSUME ConfigInv, UNCHANGED <<file, security, up, clean, ask>>,
         \A c \in Call : IsA(c, {"set"}) =>
           /\ snap'[c] = snap[c]
           /\ pc'[c] = pc[c] \/ {pc[c], pc'[c]} \cap {"parsed", "truncated", "stored"} = {}
  PROVE  ConfigInv'
<1>1. Updating' = Updating /\ \A c \in Updating : pc'[c] = pc[c] /\ snap'[c] = snap[c]
  BY DEF Updating, IsA
<1>2. SetsSettings'
  BY DEF ConfigInv, SetsSettings, IsA
<1> QED
  BY <1>1, <1>2 DEF ConfigInv, OneUpdates, FileFollows, MemoryFollows

LEMMA InitConfigInv == Init => ConfigInv
<1> SUFFICES ASSUME Init PROVE ConfigInv
  OBVIOUS
<1>1. Updating = {}
  BY DEF Init, Updating
<1>2. SetsSettings
  BY DEF Init, SetsSettings, IsA
<1> QED
  BY <1>1, <1>2, EffectiveTwice DEF Init, ConfigInv, OneUpdates, FileFollows, MemoryFollows

(* The end of the process ends the update, with the file as it is. *)
LEMMA DownConfigInv ==
  ASSUME PermitInv, ConfigInv, Down,
         clean' => clean /\ \A c \in Call : ~ (IsA(c, {"set"}) /\ pc[c] = "truncated"),
         clean' \in BOOLEAN
  PROVE  ConfigInv'
<1>1. Updating' = {} /\ ~up' /\ file' = file
  BY DEF Down, Updating, Over
<1>2. SetsSettings'
  BY DEF Down, ConfigInv, SetsSettings, IsA
<1>3. ASSUME clean' PROVE file \in Settings
  <2>1. CASE \A c \in Updating : pc[c] = "parsed"
    BY <1>3, <2>1 DEF ConfigInv, MemoryFollows
  <2>2. CASE \E c \in Updating : pc[c] # "parsed"
    <3>1. PICK c \in Updating : pc[c] = "stored"
      BY <1>3, <2>2 DEF Updating
    <3> QED
      BY <1>3, <3>1 DEF ConfigInv, FileFollows, SetsSettings, Updating
  <2> QED
    BY <2>1, <2>2
<1> QED
  BY <1>1, <1>2, <1>3 DEF ConfigInv, OneUpdates, FileFollows, MemoryFollows

LEMMA SetConfigInv == ASSUME PermitInv, ConfigInv, NEW c \in Call, Set(c) PROVE ConfigInv'
<1> USE DEF configVars, diskVars, localVars, pastVars
<1>s. IsA(c, {"set"}) /\ UNCHANGED ask
  BY DEF Set, Validate, ReadConfig, TruncateConfig, WriteConfig, WriteConfigFails, SetSecurity, Down
<1>t. SetsSettings /\ SetsSettings' /\ ask[c].settings \in Settings
  BY <1>s DEF ConfigInv, SetsSettings, IsA
<1>p. pc \in [Call -> Stages] /\ DOMAIN snap = Call
  BY DEF PermitInv, Shape
<1>1. CASE Validate(c)
  <2>1. UNCHANGED <<file, security, up, clean, ask, snap>>
    BY <1>1 DEF Validate
  <2>2. pc[c] = "new" /\ pc'[c] \in {"valid", "answered"} /\ \A d \in Call \ {c} : pc'[d] = pc[d]
    BY <1>1, <1>p DEF Validate, Goes, Returns
  <2> QED
    BY <2>1, <2>2, UnseenConfigInv
<1>2. CASE ReadConfig(c)
  <2>1. CASE /\ file # Empty /\ Goes(c, "valid", "parsed")
             /\ snap' = [snap EXCEPT ![c] = file]
             /\ clean' = (clean /\ Updating = {})
             /\ UNCHANGED <<file, security, up, crashes, diskVars, limit, stat, pastVars, ask, job>>
    <3>1. /\ pc[c] = "valid" /\ pc'[c] = "parsed" /\ snap'[c] = file
          /\ \A d \in Call \ {c} : pc'[d] = pc[d]
      BY <2>1, <1>p DEF Goes
    <3>2. Updating = {} => Updating' = {c}
      BY <2>1, <3>1, <1>s DEF Updating, IsA
    <3>3. clean /\ Updating = {} => OneUpdates' /\ FileFollows' /\ MemoryFollows'
      BY <2>1, <3>1, <3>2 DEF ConfigInv, OneUpdates, FileFollows, MemoryFollows
    <3> QED
      BY <2>1, <3>3, <1>t DEF ConfigInv
  <2>2. CASE Returns(c, "valid", Failed) /\ UNCHANGED <<configVars, diskVars, localVars, pastVars, ask, job>>
    <3>1. pc[c] = "valid" /\ pc'[c] = "answered" /\ \A d \in Call \ {c} : pc'[d] = pc[d]
      BY <2>2, <1>p DEF Returns
    <3> QED
      BY <2>2, <3>1, UnseenConfigInv
  <2>3. CASE Down /\ clean' = FALSE
    BY <2>3, DownConfigInv
  <2> QED
    BY <1>2, <2>1, <2>2, <2>3 DEF ReadConfig
<1>3. CASE TruncateConfig(c)
  <2>1. /\ pc[c] = "parsed" /\ pc'[c] = "truncated" /\ file' = Empty
        /\ \A d \in Call \ {c} : pc'[d] = pc[d]
        /\ UNCHANGED <<security, up, clean, snap>>
    BY <1>3, <1>p DEF TruncateConfig, Goes
  <2>2. c \in Updating /\ Updating' = Updating
    BY <2>1, <1>s DEF Updating, IsA
  <2>3. clean => OneUpdates' /\ FileFollows' /\ MemoryFollows'
    BY <2>1, <2>2 DEF ConfigInv, OneUpdates, FileFollows, MemoryFollows
  <2> QED
    BY <2>1, <2>3, <1>t DEF ConfigInv
<1>4. CASE WriteConfig(c)
  <2>1. /\ pc[c] = "truncated" /\ pc'[c] = "stored"
        /\ \A d \in Call \ {c} : pc'[d] = pc[d]
        /\ UNCHANGED <<security, up, clean, snap>>
    BY <1>4, <1>p DEF WriteConfig, Goes
  <2>2. c \in Updating /\ Updating' = Updating
    BY <2>1, <1>s DEF Updating, IsA
  <2>3. clean => file = Empty /\ snap[c] # Garbled
    BY <2>1, <2>2 DEF ConfigInv, FileFollows
  <2>4. clean => file' = ask[c].settings
    BY <1>4, <2>3 DEF WriteConfig
  <2>5. clean => OneUpdates' /\ FileFollows' /\ MemoryFollows'
    BY <1>s, <2>1, <2>2, <2>4 DEF ConfigInv, OneUpdates, FileFollows, MemoryFollows
  <2> QED
    BY <2>1, <2>5, <1>t DEF ConfigInv
<1>5. CASE WriteConfigFails(c)
  BY <1>5, <1>t DEF WriteConfigFails, ConfigInv
<1>6. CASE SetSecurity(c)
  <2>1. /\ pc[c] = "stored" /\ pc'[c] = "answered" /\ security' = ask[c].settings
        /\ \A d \in Call \ {c} : pc'[d] = pc[d]
        /\ UNCHANGED <<file, up, clean, snap>>
    BY <1>6, <1>p DEF SetSecurity, Returns
  <2>2. c \in Updating /\ Updating' = Updating \ {c}
    BY <2>1, <1>s DEF Updating, IsA
  <2>3. clean => Updating' = {} /\ file' = ask[c].settings
    BY <2>1, <2>2 DEF ConfigInv, OneUpdates, FileFollows
  <2>4. clean => OneUpdates' /\ FileFollows' /\ MemoryFollows'
    BY <2>1, <2>3, <1>t DEF OneUpdates, FileFollows, MemoryFollows
  <2> QED
    BY <2>1, <2>4, <1>t DEF ConfigInv
<1> QED
  BY <1>1, <1>2, <1>3, <1>4, <1>5, <1>6 DEF Set

(* The handlers of other requests leave updates and settings alone.        *)
LEMMA OthersConfigInv ==
  ASSUME PermitInv, ConfigInv, NEW c \in Call,
         \/ GetConfig(c) \/ Guarded(c) \/ CallApi(c) \/ FileTool(c) \/ StartProcess(c)
  PROVE  ConfigInv'
<1> USE DEF configVars, diskVars, localVars, pastVars, OthersOfJob
<1>1. UNCHANGED <<file, security, up, clean, ask>>
  BY DEF GetConfig, Guarded, Snapshot, TakeLimit, Check, GivesUp, CallApi, FileTool,
     StatFileForRead, ReadContent, Search, StatFile, CheckPathExists, ListDirectory,
     StatFileForWrite, OpenForWrite, WriteContent, StartProcess
<1>2. \/ \E from \in Stages : \E to : Goes(c, from, to)
      \/ \E from \in Stages : \E result : Returns(c, from, result)
  <2> USE DEF Stages
  <2>1. CASE GetConfig(c) \/ CallApi(c)
    BY <2>1 DEF GetConfig, CallApi
  <2>2. CASE Snapshot(c) \/ TakeLimit(c)
    BY <2>2 DEF Snapshot, TakeLimit
  <2>3. CASE Check(c)
    BY <2>3 DEF Check
  <2>4. CASE GivesUp(c)
    BY <2>4 DEF GivesUp
  <2>5. CASE StatFileForRead(c) \/ StatFileForWrite(c)
    BY <2>5 DEF StatFileForRead, StatFileForWrite
  <2>6. CASE ReadContent(c) \/ Search(c)
    BY <2>6 DEF ReadContent, Search
  <2>7. CASE StatFile(c) \/ CheckPathExists(c) \/ ListDirectory(c)
    BY <2>7 DEF StatFile, CheckPathExists, ListDirectory
  <2>8. CASE OpenForWrite(c) \/ WriteContent(c)
    BY <2>8 DEF OpenForWrite, WriteContent
  <2>9. CASE StartProcess(c)
    BY <2>9 DEF StartProcess
  <2> QED
    BY <2>1, <2>2, <2>3, <2>4, <2>5, <2>6, <2>7, <2>8, <2>9 DEF Guarded, FileTool
<1>3. /\ pc[c] \in Stages
      /\ \A d \in Call \ {c} : pc'[d] = pc[d]
  BY <1>2 DEF Goes, Returns, PermitInv, Shape
<1>4. \A d \in Call \ {c} : snap'[d] = snap[d]
  BY DEF GetConfig, Guarded, Snapshot, TakeLimit, Check, GivesUp, CallApi, FileTool,
     StatFileForRead, ReadContent, Search, StatFile, CheckPathExists, ListDirectory,
     StatFileForWrite, OpenForWrite, WriteContent, StartProcess, PermitInv, Shape
<1>5. ~IsA(c, {"set"})
  BY DEF IsA, GetConfig, Guarded, Snapshot, TakeLimit, Check, GivesUp, CallApi, FileTool,
     StatFileForRead, ReadContent, Search, StatFile, CheckPathExists, ListDirectory,
     StatFileForWrite, OpenForWrite, WriteContent, StartProcess, FileKinds
<1> QED
  BY <1>1, <1>3, <1>4, <1>5, UnseenConfigInv

LEMMA NextConfigInv == ASSUME PermitInv, ConfigInv, Next PROVE ConfigInv'
<1> USE DEF configVars, diskVars, localVars, pastVars, OthersOfJob
<1>1. ASSUME NEW c \in Call, Start(c) PROVE ConfigInv'
  <2>1. pc[c] = "idle" /\ pc'[c] = "new" /\ \A d \in Call \ {c} : pc'[d] = pc[d]
    BY <1>1 DEF Start, Goes, PermitInv, Shape
  <2> QED
    BY <1>1, <2>1, UnseenConfigInv DEF Start
<1>2. ASSUME NEW text \in Texts, ChangeDisk(text) PROVE ConfigInv'
  <2>1. \A c \in Call : IsA(c, {"set"}) =>
          pc'[c] = pc[c] \/ {pc[c], pc'[c]} \cap {"parsed", "truncated", "stored"} = {}
    BY <1>2 DEF ChangeDisk
  <2> QED
    BY <1>2, <2>1, UnseenConfigInv DEF ChangeDisk
<1>3. CASE Crash
  BY <1>3, DownConfigInv DEF Crash, ConfigInv
<1>4. CASE Restart
  <2>1. Updating = {} /\ Updating' = {}
    BY <1>4 DEF Restart, PermitInv, NoneWhenDown, Updating, Over, IsA
  <2>2. SetsSettings'
    BY <1>4 DEF Restart, ConfigInv, SetsSettings, IsA
  <2> QED
    BY <1>4, <2>1, <2>2, EffectiveTwice
       DEF Restart, ConfigInv, OneUpdates, FileFollows, MemoryFollows
<1>5. ASSUME NEW c \in Call,
             \/ (\E o \in Channel : CopyEnds(c, o) \/ \E n \in 1 .. PipeSize : Copy(c, o, n))
             \/ Wait(c) \/ (\E o \in Channel : Emit(c, o)) \/ ExitsByItself(c) \/ Kill(c) \/ Expire(c)
      PROVE  ConfigInv'
  <2>1. UNCHANGED <<file, security, up, clean, ask, snap, pc>>
    BY <1>5 DEF CopyEnds, Copy, Wait, Emit, ExitsByItself, Kill, Exit, Expire
  <2> QED
    BY <2>1, UnseenConfigInv
<1>6. ASSUME NEW c \in Call, Finish(c) PROVE ConfigInv'
  <2>1. pc[c] = "running" /\ pc'[c] = "answered" /\ \A d \in Call \ {c} : pc'[d] = pc[d]
    BY <1>6 DEF Finish, Returns, PermitInv, Shape
  <2> QED
    BY <1>6, <2>1, UnseenConfigInv DEF Finish
<1> QED
  BY <1>1, <1>2, <1>3, <1>4, <1>5, <1>6, SetConfigInv, OthersConfigInv DEF Next, Handler, Collect

(* set_agent_config keeps the file and the memory together: as long as no  *)
(* update overlapped another, failed or was cut short, a restart brings    *)
(* back what is in force.                                                  *)
THEOREM ConfigAgrees == Spec => []ConfigSurvives
<1>1. PermitInv /\ ConfigInv /\ [Next]_vars => ConfigInv'
  <2>1. ConfigInv /\ UNCHANGED vars => ConfigInv'
    BY UnseenConfigInv DEF vars, configVars, localVars
  <2> QED
    BY <2>1, NextConfigInv
<1>2. ConfigInv => ConfigSurvives
  <2> SUFFICES ASSUME ConfigInv, clean
               PROVE  /\ file \in Settings \/ \E c \in Call : IsA(c, {"set"}) /\ pc[c] = "truncated"
                      /\ up /\ Updating = {} => Effective(file) = Effective(security)
    BY DEF ConfigSurvives
  <2>1. CASE \A c \in Updating : pc[c] = "parsed"
    BY <2>1 DEF ConfigInv, MemoryFollows
  <2>2. CASE \E c \in Updating : pc[c] # "parsed"
    <3>1. PICK c \in Updating : pc[c] \in {"truncated", "stored"} /\ IsA(c, {"set"})
      BY <2>2 DEF Updating
    <3> QED
      BY <3>1 DEF ConfigInv, FileFollows, SetsSettings, Updating
  <2> QED
    BY <2>1, <2>2
<1> QED
  BY <1>1, <1>2, InitConfigInv, PermitInvariance, PTL DEF Spec
-----------------------------------------------------------------------------
(* Exclusive writes.                                                       *)
(*                                                                         *)
(* As long as the file is not removed it is there once a call has opened   *)
(* it, so no other call can create it.                                     *)
Wrote(c) ==
  IsA(c, {"write"}) /\ ~ask[c].overwrite /\ pc[c] # "sized" /\ Worked(c)

FileInv ==
  /\ disk \in Seq(Byte) \cup {Missing} /\ DOMAIN texts = Call
  /\ \A c \in Call : IsA(c, {"write"}) => ask[c].content \in Seq(Byte)
  /\ \A c \in Call : pc[c] \notin Over => disk \in texts[c]
  /\ \A c \in Call : pc[c] = "opened" => disk # Missing
FirstInv ==
  ~removed => /\ \A c, d \in Call : Wrote(c) /\ Wrote(d) => c = d
              /\ \A c \in Call : Wrote(c) => disk # Missing /\ Missing \in texts[c]
WriteInv == FileInv /\ FirstInv

LEMMA InitWriteInv == Init => WriteInv
  BY DEF Init, WriteInv, FileInv, FirstInv, Wrote, Worked, Over, IsA

(* A step that leaves the file alone, and opens it for nobody.             *)
LEMMA FileStays ==
  ASSUME WriteInv, UNCHANGED <<disk, removed, ask, texts>>,
         \A c \in Call : /\ pc'[c] \notin Over => pc[c] \notin Over
                         /\ pc'[c] = "opened" => pc[c] = "opened"
                         /\ Wrote(c)' => Wrote(c)
  PROVE  WriteInv'
<1>1. \A c \in Call : \A K : IsA(c, K)' <=> IsA(c, K)
  BY DEF IsA
<1>2. FileInv'
  BY <1>1 DEF WriteInv, FileInv
<1> QED
  BY <1>2 DEF WriteInv, FirstInv

(* A handler goes on or returns, without having written. *)
LEMMA HandlerLeavesFile ==
  ASSUME PermitInv, WriteInv, NEW c \in Call, UNCHANGED <<disk, removed, ask, texts>>,
         \/ \E from \in Stages \ Over, to \in Stages \ (Over \cup {"opened", "unlinked"}) :
              /\ Goes(c, from, to)
              /\ to = "running" => ~IsA(c, {"write"})
         \/ \E from \in Stages \ Over : \E result :
              /\ Returns(c, from, result)
              /\ result.ok => ~IsA(c, {"write"})
  PROVE  WriteInv'
<1>1. /\ \A d \in Call \ {c} : pc'[d] = pc[d] /\ answer'[d] = answer[d]
      /\ pc[c] \notin Over /\ pc'[c] # "opened"
  BY DEF Goes, Returns, PermitInv, Shape
<1>2. ~Wrote(c)'
  <2>1. CASE \E from \in Stages \ Over, to \in Stages \ (Over \cup {"opened", "unlinked"}) :
               Goes(c, from, to) /\ (to = "running" => ~IsA(c, {"write"}))
    <3>1. /\ pc'[c] \notin Over \cup {"opened", "unlinked"}
          /\ pc'[c] = "running" => ~IsA(c, {"write"})
      BY <2>1 DEF Goes, PermitInv, Shape
    <3> QED
      BY <3>1 DEF Wrote, Worked, IsA, Over
  <2>2. CASE \E from \in Stages \ Over : \E result :
               Returns(c, from, result) /\ (result.ok => ~IsA(c, {"write"}))
    <3>1. pc'[c] = "answered" /\ (answer'[c].ok => ~IsA(c, {"write"}))
      BY <2>2 DEF Returns, PermitInv, Shape
    <3> QED
      BY <3>1 DEF Wrote, Worked, IsA
  <2> QED
    BY <2>1, <2>2
<1>3. \A d \in Call \ {c} : Wrote(d)' <=> Wrote(d)
  BY <1>1 DEF Wrote, Worked, IsA
<1> QED
  BY <1>1, <1>2, <1>3, FileStays

LEMMA DownWriteInv == ASSUME PermitInv, WriteInv, Down PROVE WriteInv'
<1> USE DEF configVars, diskVars, localVars, pastVars
<1>1. /\ UNCHANGED <<disk, removed, ask, texts, answer>>
      /\ \A c \in Call : pc'[c] = IF pc[c] \in Over THEN pc[c] ELSE "gone"
  BY DEF Down
<1>2. \A c \in Call : /\ pc'[c] \in Over /\ pc'[c] # "opened"
                      /\ Wrote(c)' => Wrote(c)
  BY <1>1 DEF Wrote, Worked, IsA, Over
<1> QED
  BY <1>1, <1>2, FileStays

LEMMA HandlersWriteInv ==
  ASSUME PermitInv, WriteInv, NEW c \in Call,
         Set(c) \/ GetConfig(c) \/ Guarded(c) \/ CallApi(c) \/ StartProcess(c)
  PROVE  WriteInv'
<1> USE DEF configVars, diskVars, localVars, pastVars, OthersOfJob, Stages, Over
<1>w. \A k \in {"set", "get", "api", "run"} : IsA(c, {k}) => ~IsA(c, {"write"})
  BY DEF IsA
<1>1. CASE Validate(c)
  <2>1. CASE Goes(c, "new", "valid")
    BY <1>1, <2>1, HandlerLeavesFile DEF Validate
  <2>2. CASE Returns(c, "new", Failed)
    BY <1>1, <2>2, HandlerLeavesFile DEF Validate, Failed
  <2> QED
    BY <1>1, <2>1, <2>2 DEF Validate
<1>2. CASE ReadConfig(c)
  <2>1. CASE Goes(c, "valid", "parsed") /\ UNCHANGED <<disk, removed, ask, texts>>
    BY <2>1, HandlerLeavesFile
  <2>2. CASE Returns(c, "valid", Failed) /\ UNCHANGED <<disk, removed, ask, texts>>
    BY <2>2, HandlerLeavesFile DEF Failed
  <2>3. CASE Down
    BY <2>3, DownWriteInv
  <2> QED
    BY <1>2, <2>1, <2>2, <2>3 DEF ReadConfig
<1>3. CASE TruncateConfig(c) \/ WriteConfig(c)
  <2>1. \/ Goes(c, "parsed", "truncated")
        \/ Goes(c, "truncated", "stored")
    BY <1>3 DEF TruncateConfig, WriteConfig
  <2>2. UNCHANGED <<disk, removed, ask, texts>>
    BY <1>3 DEF TruncateConfig, WriteConfig
  <2> QED
    BY <2>1, <2>2, HandlerLeavesFile
<1>4. CASE WriteConfigFails(c)
  BY <1>4, HandlerLeavesFile DEF WriteConfigFails, Failed
<1>5. CASE SetSecurity(c)
  BY <1>5, <1>w, HandlerLeavesFile DEF SetSecurity
<1>6. CASE GetConfig(c)
  BY <1>6, <1>w, HandlerLeavesFile DEF GetConfig
<1>7. CASE Snapshot(c) \/ TakeLimit(c)
  <2>1. Goes(c, "new", "guarded") \/ Goes(c, "guarded", "limited")
    BY <1>7 DEF Snapshot, TakeLimit
  <2>2. UNCHANGED <<disk, removed, ask, texts>>
    BY <1>7 DEF Snapshot, TakeLimit
  <2> QED
    BY <2>1, <2>2, HandlerLeavesFile
<1>8. CASE Check(c)
  <2>1. PICK from \in {"limited", "guarded"} : Goes(c, from, "permitted") \/ Returns(c, from, Failed)
    BY <1>8 DEF Check
  <2>2. UNCHANGED <<disk, removed, ask, texts>>
    BY <1>8 DEF Check
  <2> QED
    BY <2>1, <2>2, HandlerLeavesFile DEF Failed
<1>9. CASE GivesUp(c)
  <2>1. PICK from \in {"permitted", "sized"} : Returns(c, from, Failed)
    BY <1>9 DEF GivesUp
  <2> QED
    BY <1>9, <2>1, HandlerLeavesFile DEF GivesUp, Failed
<1>10. CASE CallApi(c)
  BY <1>10, <1>w, HandlerLeavesFile DEF CallApi
<1>11. CASE StartProcess(c)
  <2>1. CASE Goes(c, "permitted", "running")
    BY <1>11, <2>1, <1>w, HandlerLeavesFile DEF StartProcess
  <2>2. CASE Returns(c, "permitted", Failed)
    BY <1>11, <2>2, HandlerLeavesFile DEF StartProcess, Failed
  <2> QED
    BY <1>11, <2>1, <2>2 DEF StartProcess
<1> QED
  BY <1>1, <1>2, <1>3, <1>4, <1>5, <1>6, <1>7, <1>8, <1>9, <1>10, <1>11 DEF Set, Guarded

(* read_file, search_file_content, stat_file, check_path_exists and        *)
(* list_directory do not write.                                            *)
LEMMA ReadersWriteInv ==
  ASSUME PermitInv, WriteInv, NEW c \in Call,
         \/ StatFileForRead(c) \/ ReadContent(c) \/ Search(c) \/ StatFile(c)
         \/ CheckPathExists(c) \/ ListDirectory(c) \/ StatFileForWrite(c)
  PROVE  WriteInv'
<1> USE DEF configVars, diskVars, localVars, pastVars, Stages, Over
<1>1. UNCHANGED <<disk, removed, ask, texts>>
  BY DEF StatFileForRead, ReadContent, Search, StatFile, CheckPathExists, ListDirectory,
         StatFileForWrite
<1>2. CASE StatFileForWrite(c)
  BY <1>1, <1>2, HandlerLeavesFile DEF StatFileForWrite
<1>3. CASE ~StatFileForWrite(c)
  <2>1. ~IsA(c, {"write"})
    BY <1>3 DEF IsA, StatFileForRead, ReadContent, Search, StatFile, CheckPathExists, ListDirectory
  <2>2. PICK from \in {"permitted", "sized"} :
          Goes(c, from, "sized") \/ \E result : Returns(c, from, result)
    BY <1>3 DEF StatFileForRead, ReadContent, Search, StatFile, CheckPathExists, ListDirectory
  <2> QED
    BY <1>1, <2>1, <2>2, HandlerLeavesFile
<1> QED
  BY <1>2, <1>3

(* write_file: the one that opens the file first is the only one.          *)
LEMMA OpenWriteInv == ASSUME PermitInv, WriteInv, NEW c \in Call, OpenForWrite(c) PROVE WriteInv'
<1> USE DEF configVars, diskVars, localVars, pastVars, Stages, Over
<1>1. CASE /\ ask[c].overwrite \/ disk = Missing
           /\ Goes(c, "sized", "opened") /\ DiskBecomes(<<>>)
  <2>1. /\ pc[c] = "sized" /\ pc'[c] = "opened" /\ UNCHANGED <<answer, ask, removed>>
        /\ \A d \in Call \ {c} : pc'[d] = pc[d]
        /\ disk' = <<>> /\ disk' \in Seq(Byte) /\ disk' # Missing
        /\ DOMAIN texts' = Call
        /\ \A d \in Call : texts'[d] = IF pc[d] \in Over THEN texts[d] ELSE texts[d] \cup {disk'}
    BY <1>1, EmptySeq DEF Goes, OpenForWrite, DiskBecomes, PermitInv, Shape
  <2>2. FileInv'
    BY <2>1 DEF WriteInv, FileInv, IsA
  <2>3. \A d \in Call \ {c} : Wrote(d)' <=> Wrote(d)
    BY <2>1 DEF Wrote, Worked, IsA
  <2>4. Wrote(c)' => disk = Missing /\ Missing \in texts'[c]
    BY <1>1, <2>1 DEF WriteInv, FileInv, Wrote, IsA
  <2>5. FirstInv'
    BY <2>1, <2>3, <2>4 DEF WriteInv, FirstInv
  <2> QED
    BY <2>2, <2>5 DEF WriteInv
<1>2. CASE Returns(c, "sized", Failed) /\ UNCHANGED <<disk, texts>>
  BY <1>2, HandlerLeavesFile DEF OpenForWrite, Failed
<1> QED
  BY <1>1, <1>2 DEF OpenForWrite

(* What is written over a content of the file is a content of the file.    *)
LEMMA OverwrittenText ==
  ASSUME NEW new \in Seq(Byte), NEW old \in Seq(Byte)
  PROVE  new \o SubSeq(old, Len(new) + 1, Len(old)) \in Seq(Byte)
<1>1. Len(new) \in Nat /\ Len(old) \in Nat
  BY LenProperties
<1>2. \A i \in Len(new) + 1 .. Len(old) : old[i] \in Byte
  BY <1>1, ElementOfSeq
<1>3. SubSeq(old, Len(new) + 1, Len(old)) \in Seq(Byte)
  BY <1>1, <1>2, SubSeqProperties
<1> QED
  BY <1>3, ConcatProperties

(* The content of the file becomes another one. *)
LEMMA TextChanges ==
  ASSUME PermitInv, WriteInv, NEW text \in Seq(Byte) \cup {Missing}, DiskBecomes(text),
         UNCHANGED ask,
         ~removed' => ~removed /\ text # Missing,
         \A c \in Call : /\ pc'[c] \notin Over => pc[c] \notin Over
                         /\ pc'[c] = "opened" => pc[c] = "opened" /\ text # Missing
                         /\ Wrote(c)' => Wrote(c)
  PROVE  WriteInv'
<1>1. /\ disk' = text /\ DOMAIN texts' = Call
      /\ \A c \in Call : texts'[c] = IF pc[c] \in Over THEN texts[c] ELSE texts[c] \cup {text}
  BY DEF DiskBecomes
<1>2. FileInv'
  BY <1>1 DEF WriteInv, FileInv, IsA
<1>3. FirstInv'
  BY <1>1 DEF WriteInv, FirstInv
<1> QED
  BY <1>2, <1>3 DEF WriteInv

LEMMA ContentWriteInv == ASSUME PermitInv, WriteInv, NEW c \in Call, WriteContent(c) PROVE WriteInv'
<1> USE DEF configVars, diskVars, localVars, pastVars, Over
<1>1. PICK from \in {"opened", "unlinked"} : \E result : Returns(c, from, result)
  BY DEF WriteContent
<1>2. /\ pc[c] = from /\ pc'[c] = "answered"
      /\ \A d \in Call \ {c} : pc'[d] = pc[d] /\ answer'[d] = answer[d]
  BY <1>1 DEF Returns, PermitInv, Shape
<1>3. IsA(c, {"write"}) /\ UNCHANGED <<removed, ask>>
  BY DEF WriteContent
<1>4. Wrote(c)' => Wrote(c)
  BY <1>2, <1>3 DEF Wrote, Worked, IsA
<1>5. \A d \in Call \ {c} : Wrote(d)' <=> Wrote(d)
  BY <1>2, <1>3 DEF Wrote, Worked, IsA
<1>6. CASE UNCHANGED <<disk, texts>>
  BY <1>2, <1>3, <1>4, <1>5, <1>6, FileStays
<1>7. CASE /\ pc[c] = "opened"
           /\ DiskBecomes(ask[c].content \o SubSeq(disk, Len(ask[c].content) + 1, Len(disk)))
  <2> DEFINE text == ask[c].content \o SubSeq(disk, Len(ask[c].content) + 1, Len(disk))
  <2>1. disk \in Seq(Byte) /\ ask[c].content \in Seq(Byte)
    BY <1>3, <1>7 DEF WriteInv, FileInv
  <2>2. text \in Seq(Byte) /\ text # Missing
    BY <2>1, OverwrittenText
  <2> HIDE DEF text
  <2>3. DiskBecomes(text)
    BY <1>7 DEF text
  <2>4. ~removed' => ~removed /\ text # Missing
    BY <1>3, <2>2
  <2> QED
    BY <1>2, <1>3, <1>4, <1>5, <2>2, <2>3, <2>4, TextChanges
<1> QED
  BY <1>6, <1>7 DEF WriteContent, Returns

LEMMA NextWriteInv == ASSUME PermitInv, WriteInv, Next PROVE WriteInv'
<1> USE DEF configVars, diskVars, localVars, pastVars, OthersOfJob, Stages, Over
<1>1. ASSUME NEW c \in Call, Start(c) PROVE WriteInv'
  <2>1. /\ pc[c] = "idle" /\ pc'[c] = "new" /\ texts'[c] = {disk} /\ DOMAIN texts' = Call
        /\ \A d \in Call \ {c} : pc'[d] = pc[d] /\ texts'[d] = texts[d]
        /\ UNCHANGED <<disk, removed, ask, answer>>
    BY <1>1 DEF Start, Goes, PermitInv, Shape, WriteInv, FileInv
  <2>2. FileInv'
    BY <2>1 DEF WriteInv, FileInv, IsA
  <2>3. ~Wrote(c)' /\ \A d \in Call \ {c} : Wrote(d)' <=> Wrote(d)
    BY <2>1 DEF Wrote, Worked, IsA
  <2> QED
    BY <2>1, <2>2, <2>3 DEF WriteInv, FirstInv
<1>2. ASSUME NEW text \in Texts, ChangeDisk(text) PROVE WriteInv'
  <2>1. \A c \in Call :
          pc'[c] = IF text = Missing /\ pc[c] = "opened" THEN "unlinked" ELSE pc[c]
    BY <1>2 DEF ChangeDisk
  <2>2. /\ UNCHANGED <<ask, answer>> /\ DiskBecomes(text)
        /\ ~removed' => ~removed /\ text # Missing
    BY <1>2 DEF ChangeDisk
  <2>3. \A c \in Call : Wrote(c)' <=> Wrote(c)
    BY <2>1, <2>2 DEF Wrote, Worked, IsA
  <2> QED
    BY <2>1, <2>2, <2>3, TextChanges
<1>3. CASE Crash
  BY <1>3, DownWriteInv DEF Crash
<1>4. ASSUME UNCHANGED <<disk, removed, ask, texts, pc, answer>> PROVE WriteInv'
  <2>1. \A c \in Call : Wrote(c)' <=> Wrote(c)
    BY <1>4 DEF Wrote, Worked, IsA
  <2> QED
    BY <1>4, <2>1, FileStays
<1>5. ASSUME NEW c \in Call, Finish(c) PROVE WriteInv'
  <2>1. CASE ~IsA(c, {"write"})
    BY <1>5, <2>1, HandlerLeavesFile DEF Finish
  <2>2. CASE IsA(c, {"write"})
    <3>1. /\ pc[c] = "running" /\ pc'[c] = "answered"
          /\ \A d \in Call \ {c} : pc'[d] = pc[d] /\ answer'[d] = answer[d]
          /\ UNCHANGED <<disk, removed, ask, texts>>
      BY <1>5 DEF Finish, Returns, PermitInv, Shape
    <3>2. Wrote(c)' => Wrote(c)
      BY <3>1 DEF Wrote, Worked, IsA
    <3>3. \A d \in Call \ {c} : Wrote(d)' <=> Wrote(d)
      BY <3>1 DEF Wrote, Worked, IsA
    <3> QED
      BY <3>1, <3>2, <3>3, FileStays
  <2> QED
    BY <2>1, <2>2
<1>6. CASE Restart
  BY <1>4, <1>6 DEF Restart
<1>7. ASSUME NEW c \in Call,
             \/ (\E o \in Channel : CopyEnds(c, o) \/ \E n \in 1 .. PipeSize : Copy(c, o, n))
             \/ Wait(c) \/ (\E o \in Channel : Emit(c, o)) \/ ExitsByItself(c) \/ Kill(c) \/ Expire(c)
      PROVE  WriteInv'
  BY <1>4, <1>7 DEF CopyEnds, Copy, Wait, Emit, ExitsByItself, Kill, Exit, Expire
<1> QED
  BY <1>1, <1>2, <1>3, <1>5, <1>6, <1>7, HandlersWriteInv, ReadersWriteInv, OpenWriteInv,
     ContentWriteInv DEF Next, Handler, Collect, FileTool

LEMMA WriteInvariance == Spec => []WriteInv
<1>1. PermitInv /\ WriteInv /\ [Next]_vars => WriteInv'
  <2>1. WriteInv /\ UNCHANGED vars => WriteInv'
    <3> SUFFICES ASSUME WriteInv, UNCHANGED vars PROVE WriteInv'
      OBVIOUS
    <3>1. UNCHANGED <<disk, removed, ask, texts, pc, answer>>
      BY DEF vars, diskVars, pastVars
    <3>2. \A c \in Call : Wrote(c)' <=> Wrote(c)
      BY <3>1 DEF Wrote, Worked, IsA
    <3> QED
      BY <3>1, <3>2, FileStays
  <2> QED
    BY <2>1, NextWriteInv
<1> QED
  BY <1>1, InitWriteInv, PermitInvariance, PTL DEF Spec

(* Of all calls of write_file without overwrite one at most writes to a    *)
(* file that nobody removes, and it is one that found the file missing.    *)
THEOREM OneExclusiveWriter == Spec => []ExclusiveWritesExclude
<1>1. WriteInv => ExclusiveWritesExclude
  <2> SUFFICES ASSUME WriteInv, ~removed
               PROVE  LET wrote == {c \in Call : Wrote(c)}
                      IN  Cardinality(wrote) <= 1 /\ \A c \in wrote : Missing \in texts[c]
    BY DEF ExclusiveWritesExclude, Wrote
  <2> DEFINE wrote == {c \in Call : Wrote(c)}
  <2>1. \A c, d \in wrote : c = d
    BY DEF WriteInv, FirstInv
  <2>2. wrote = {} \/ \E c : wrote = {c}
    BY <2>1
  <2>3. Cardinality(wrote) <= 1
    <3> HIDE DEF wrote
    <3>1. CASE wrote = {}
      <4>1. Cardinality(wrote) = 0
        BY <3>1, FS_EmptySet
      <4> QED
        BY <4>1
    <3>2. CASE \E c : wrote = {c}
      <4>1. Cardinality(wrote) = 1
        BY <3>2, FS_Singleton
      <4> QED
        BY <4>1
    <3> QED
      BY <2>2, <3>1, <3>2
  <2> QED
    BY <2>3 DEF WriteInv, FirstInv
<1> QED
  BY <1>1, WriteInvariance, PTL

-----------------------------------------------------------------------------
(* The output of processes.                                                *)
(*                                                                         *)
(* What has left a pipe has been kept up to the limit and counted as cut   *)
(* beyond it; when Wait closes the pipes they are empty or marked as lost. *)
Copied(c, o) == job[c].sent[o] - job[c].pipe[o]
JobInv(c) ==
  /\ job[c] \in JobType
  /\ job[c].state # "none" => IsA(c, {"run"})
  /\ job[c].state = "none" =>
       ~job[c].open /\ ~job[c].closed /\ \A o \in Channel : job[c].pipe[o] = 0
  /\ job[c].state # "none" => \A o \in Channel :
       /\ job[c].pipe[o] <= job[c].sent[o]
       /\ job[c].kept[o] = IF Copied(c, o) <= OutputLimit(c) THEN Copied(c, o) ELSE OutputLimit(c)
       /\ job[c].cut[o] <=> Copied(c, o) > OutputLimit(c)
  /\ job[c].closed /\ ~job[c].lost => \A o \in Channel : job[c].pipe[o] = 0
  /\ IsA(c, {"run"}) /\ pc[c] = "answered" /\ answer[c].ok =>
       /\ job[c].closed /\ answer[c].kept = job[c].kept
       /\ answer[c].truncated <=> \E o \in Channel : job[c].cut[o]
OutputInv ==
  /\ DOMAIN job = Call
  /\ \A c \in Call : IsA(c, {"run"}) => ask[c].max \in Int
  /\ \A c \in Call : JobInv(c)

LEMMA NoJobType == NoJob \in JobType
  BY DEF NoJob, JobType, Silent

LEMMA LimitType == ASSUME OutputInv, NEW c \in Call, IsA(c, {"run"}) PROVE OutputLimit(c) \in Nat
  BY DEF OutputInv, OutputLimit

LEMMA InitOutputInv == Init => OutputInv
<1> SUFFICES ASSUME Init PROVE OutputInv
  OBVIOUS
<1>1. ASSUME NEW c \in Call PROVE JobInv(c)
  BY <1>1, NoJobType DEF Init, JobInv, NoJob, Silent
<1> QED
  BY <1>1 DEF Init, OutputInv, IsA

(* A step that leaves the processes alone and gives no answer of one.      *)
LEMMA JobsStay ==
  ASSUME OutputInv, UNCHANGED <<ask, job>>,
         \A c \in Call : \/ pc'[c] = pc[c] /\ answer'[c] = answer[c]
                         \/ pc'[c] # "answered" \/ ~IsA(c, {"run"}) \/ ~answer'[c].ok
  PROVE  OutputInv'
<1>1. ASSUME NEW c \in Call PROVE JobInv(c)'
  BY <1>1 DEF OutputInv, JobInv, Copied, OutputLimit, IsA
<1> QED
  BY <1>1 DEF OutputInv, IsA

(* A step of the process of c. *)
LEMMA JobMoves ==
  ASSUME OutputInv, NEW c \in Call, NEW next, Job(c, next), JobInv(c)',
         UNCHANGED ask, \A d \in Call \ {c} : pc'[d] = pc[d] /\ answer'[d] = answer[d]
  PROVE  OutputInv'
<1>1. DOMAIN job' = Call /\ \A d \in Call \ {c} : job'[d] = job[d]
  BY DEF Job, OutputInv
<1>2. ASSUME NEW d \in Call \ {c} PROVE JobInv(d)'
  BY <1>1, <1>2 DEF OutputInv, JobInv, Copied, OutputLimit, IsA
<1> QED
  BY <1>1, <1>2 DEF OutputInv, IsA

LEMMA BothGrow ==
  ASSUME NEW m \in Nat, NEW n \in Nat
  PROVE  (m + 1) - (n + 1) = m - n /\ (n <= m => n + 1 <= m + 1)
  OBVIOUS

LEMMA EmitOutputInv == ASSUME OutputInv, NEW c \in Call, NEW o \in Channel, Emit(c, o) PROVE OutputInv'
<1> DEFINE next == [job[c] EXCEPT !.sent[o] = @ + 1, !.pipe[o] = @ + 1]
<1>1. Job(c, next) /\ UNCHANGED <<ask, pc, answer>> /\ job[c].open /\ ~job[c].closed
  BY DEF Emit, OthersOfJob
<1>2. job'[c] = next
  BY <1>1 DEF Job, OutputInv
<1>3. job[c] \in JobType /\ job[c].state # "none" /\ IsA(c, {"run"})
  BY <1>1 DEF OutputInv, JobInv
<1>f. /\ job[c].sent \in [Channel -> Nat] /\ job[c].pipe \in [Channel -> Nat]
      /\ next = [job[c] EXCEPT !.sent = [job[c].sent EXCEPT ![o] = job[c].sent[o] + 1],
                               !.pipe = [job[c].pipe EXCEPT ![o] = job[c].pipe[o] + 1]]
  BY <1>3 DEF JobType
<1> DEFINE sent == [job[c].sent EXCEPT ![o] = job[c].sent[o] + 1]
           pipe == [job[c].pipe EXCEPT ![o] = job[c].pipe[o] + 1]
<1>g. /\ sent \in [Channel -> Nat] /\ pipe \in [Channel -> Nat]
      /\ \A p \in Channel : sent[p] - pipe[p] = job[c].sent[p] - job[c].pipe[p]
      /\ \A p \in Channel : job[c].pipe[p] <= job[c].sent[p] => pipe[p] <= sent[p]
  <2>0. /\ job[c].sent \in [Channel -> Nat] /\ job[c].pipe \in [Channel -> Nat]
        /\ job[c].sent[o] + 1 \in Nat /\ job[c].pipe[o] + 1 \in Nat
    <3> HIDE DEF next, sent, pipe
    <3> QED
      BY <1>f
  <2>1. sent \in [Channel -> Nat] /\ pipe \in [Channel -> Nat]
    <3> HIDE DEF next
    <3> QED
      BY <2>0
  <2>2. \A p \in Channel :
          /\ sent[p] = IF p = o THEN job[c].sent[p] + 1 ELSE job[c].sent[p]
          /\ pipe[p] = IF p = o THEN job[c].pipe[p] + 1 ELSE job[c].pipe[p]
    BY <1>f
  <2>3. \A p \in Channel : job[c].sent[p] \in Nat /\ job[c].pipe[p] \in Nat
    BY <1>f
  <2> HIDE DEF sent, pipe, next
  <2>4. ASSUME NEW p \in Channel
        PROVE  /\ sent[p] - pipe[p] = job[c].sent[p] - job[c].pipe[p]
               /\ job[c].pipe[p] <= job[c].sent[p] => pipe[p] <= sent[p]
    <3>1. CASE p = o
      <4>1. sent[p] = job[c].sent[p] + 1 /\ pipe[p] = job[c].pipe[p] + 1
        BY <2>2, <3>1
      <4> QED
        BY <2>3, <4>1, BothGrow
    <3>2. CASE p # o
      BY <2>2, <3>2
    <3> QED
      BY <3>1, <3>2
  <2> QED
    BY <2>1, <2>4
<1>h. next = [job[c] EXCEPT !.sent = sent, !.pipe = pipe]
  BY <1>f
<1> HIDE DEF next, sent, pipe
<1>4. next \in JobType
  BY <1>3, <1>g, <1>h DEF JobType
<1>5. /\ next.state = job[c].state /\ next.kept = job[c].kept /\ next.cut = job[c].cut
      /\ next.closed = job[c].closed
      /\ next.sent = sent /\ next.pipe = pipe
  BY <1>3, <1>g, <1>h DEF JobType
<1>6. JobInv(c)'
  BY <1>1, <1>2, <1>3, <1>4, <1>5, <1>g DEF OutputInv, JobInv, Copied, OutputLimit, IsA
<1> QED
  BY <1>1, <1>6, JobMoves

(* A step of a process that moves no output. *)
LEMMA SameOutput ==
  ASSUME OutputInv, NEW c \in Call, NEW next \in JobType, Job(c, next),
         UNCHANGED <<ask, pc, answer>>,
         next.sent = job[c].sent, next.pipe = job[c].pipe,
         next.kept = job[c].kept, next.cut = job[c].cut,
         next.state # "none" <=> job[c].state # "none",
         next.state = "none" => ~next.open /\ ~next.closed,
         job[c].closed => next.closed,
         next.closed /\ ~next.lost => \A o \in Channel : next.pipe[o] = 0
  PROVE  OutputInv'
<1>1. job'[c] = next
  BY DEF Job, OutputInv
<1>2. JobInv(c)'
  BY <1>1 DEF OutputInv, JobInv, Copied, OutputLimit, IsA
<1> QED
  BY <1>2, JobMoves

LEMMA ProcessOutputInv ==
  ASSUME OutputInv, NEW c \in Call,
         \/ ExitsByItself(c) \/ Kill(c) \/ Expire(c) \/ Wait(c)
         \/ \E o \in Channel : CopyEnds(c, o)
  PROVE  OutputInv'
<1> USE DEF OthersOfJob
<1>j. job[c] \in JobType /\ JobInv(c)
  BY DEF OutputInv, JobInv
<1>1. ASSUME NEW code \in {0, 7, -1}, NEW open \in BOOLEAN, Exit(c, code, open) PROVE OutputInv'
  <2> DEFINE next == [job[c] EXCEPT !.state = "exited", !.code = code, !.open = open]
  <2>1. next \in JobType
    BY <1>j DEF JobType
  <2>2. /\ next.sent = job[c].sent /\ next.pipe = job[c].pipe /\ next.kept = job[c].kept
        /\ next.cut = job[c].cut /\ next.closed = job[c].closed /\ next.lost = job[c].lost
        /\ next.state = "exited"
    BY <1>j DEF JobType
  <2>3. Job(c, next) /\ UNCHANGED <<ask, pc, answer>> /\ job[c].state = "runs"
    BY <1>1 DEF Exit
  <2> HIDE DEF next
  <2> QED
    BY <1>j, <2>1, <2>2, <2>3, SameOutput DEF JobInv
<1>2. CASE Expire(c)
  <2> DEFINE next == [job[c] EXCEPT !.expired = TRUE]
  <2>1. next \in JobType
    BY <1>j DEF JobType
  <2>2. /\ next.sent = job[c].sent /\ next.pipe = job[c].pipe /\ next.kept = job[c].kept
        /\ next.cut = job[c].cut /\ next.closed = job[c].closed /\ next.lost = job[c].lost
        /\ next.state = job[c].state /\ next.open = job[c].open
    BY <1>j DEF JobType
  <2>3. Job(c, next) /\ UNCHANGED <<ask, pc, answer>>
    BY <1>2 DEF Expire
  <2> HIDE DEF next
  <2> QED
    BY <1>j, <2>1, <2>2, <2>3, SameOutput DEF JobInv
<1>3. ASSUME NEW o \in Channel, CopyEnds(c, o) PROVE OutputInv'
  <2> DEFINE next == [job[c] EXCEPT !.eof[o] = TRUE]
  <2>0. job[c].eof \in [Channel -> BOOLEAN] /\ next = [job[c] EXCEPT !.eof = [job[c].eof EXCEPT ![o] = TRUE]]
    BY <1>j DEF JobType
  <2>1. next \in JobType
    BY <1>j, <2>0 DEF JobType
  <2>2. /\ next.sent = job[c].sent /\ next.pipe = job[c].pipe /\ next.kept = job[c].kept
        /\ next.cut = job[c].cut /\ next.closed = job[c].closed /\ next.lost = job[c].lost
        /\ next.state = job[c].state /\ next.open = job[c].open
    BY <1>j DEF JobType
  <2>3. Job(c, next) /\ UNCHANGED <<ask, pc, answer>>
    BY <1>3 DEF CopyEnds
  <2> HIDE DEF next
  <2> QED
    BY <1>j, <2>1, <2>2, <2>3, SameOutput DEF JobInv
<1>4. CASE Wait(c)
  <2>1. PICK code \in WaitCodes(c) :
          Job(c, [job[c] EXCEPT !.closed = TRUE, !.code = code,
                                !.lost = \E p \in Channel : job[c].pipe[p] > 0])
    BY <1>4 DEF Wait
  <2> DEFINE lost == \E p \in Channel : job[c].pipe[p] > 0
             next == [job[c] EXCEPT !.closed = TRUE, !.code = code, !.lost = lost]
  <2>2. code \in {0, 7, -1}
    BY <1>j, <2>1 DEF WaitCodes, JobType
  <2>3. lost \in BOOLEAN
    OBVIOUS
  <2>4. ~lost => \A p \in Channel : job[c].pipe[p] = 0
    BY <1>j DEF JobType
  <2> HIDE DEF lost
  <2>5. next \in JobType
    BY <1>j, <2>2, <2>3 DEF JobType
  <2>6. /\ next.sent = job[c].sent /\ next.pipe = job[c].pipe /\ next.kept = job[c].kept
        /\ next.cut = job[c].cut /\ next.closed /\ (next.lost <=> lost)
        /\ next.state = job[c].state /\ job[c].state = "exited"
    BY <1>4, <1>j DEF JobType, Wait
  <2>7. Job(c, next) /\ UNCHANGED <<ask, pc, answer>>
    BY <1>4, <2>1 DEF Wait, lost
  <2> HIDE DEF next
  <2> QED
    BY <1>j, <2>4, <2>5, <2>6, <2>7, SameOutput
<1> QED
  BY <1>1, <1>2, <1>3, <1>4 DEF ExitsByItself, Kill

(* What is copied is kept as long as there is room. *)
LEMMA CopyOutputInv ==
  ASSUME OutputInv, NEW c \in Call, NEW o \in Channel, NEW n \in 1 .. PipeSize, Copy(c, o, n)
  PROVE  OutputInv'
<1> DEFINE room == OutputLimit(c) - job[c].kept[o]
           pipe == [job[c].pipe EXCEPT ![o] = job[c].pipe[o] - n]
           kept == [job[c].kept EXCEPT ![o] = job[c].kept[o] + Min({room, n})]
           cut  == [job[c].cut EXCEPT ![o] = job[c].cut[o] \/ n > room]
           next == [job[c] EXCEPT !.pipe = pipe, !.kept = kept, !.cut = cut]
<1>j. job[c] \in JobType /\ JobInv(c)
  BY DEF OutputInv, JobInv
<1>t. /\ job[c].sent \in [Channel -> Nat] /\ job[c].pipe \in [Channel -> Nat]
      /\ job[c].kept \in [Channel -> Nat] /\ job[c].cut \in [Channel -> BOOLEAN]
  BY <1>j DEF JobType
<1>n. n \in Nat \ {0} /\ n <= job[c].pipe[o]
  BY <1>t DEF Copy
<1>1. Job(c, next) /\ UNCHANGED <<ask, pc, answer>> /\ ~job[c].closed
  <2>1. next = [job[c] EXCEPT !.pipe[o] = @ - n, !.kept[o] = @ + Min({room, n}),
                              !.cut[o]  = @ \/ n > room]
    BY <1>j DEF JobType
  <2> QED
    BY <2>1 DEF Copy, OthersOfJob
<1>2. job[c].state # "none" /\ IsA(c, {"run"}) /\ OutputLimit(c) \in Nat
  <2>1. job[c].pipe[o] # 0
    BY <1>n, <1>t
  <2>2. job[c].state # "none"
    BY <1>j, <2>1 DEF JobInv
  <2>3. IsA(c, {"run"})
    BY <1>j, <2>2 DEF JobInv
  <2> QED
    BY <2>2, <2>3, LimitType
<1> DEFINE before == job[c].sent[o] - job[c].pipe[o]
<1>3. /\ before \in Nat
      /\ job[c].kept[o] = IF before <= OutputLimit(c) THEN before ELSE OutputLimit(c)
      /\ job[c].cut[o] <=> before > OutputLimit(c)
  <2>1. job[c].pipe[o] <= job[c].sent[o] /\ job[c].pipe[o] \in Nat /\ job[c].sent[o] \in Nat
    BY <1>j, <1>2, <1>t DEF JobInv
  <2>2. before \in Nat
    BY <2>1
  <2> QED
    BY <1>j, <1>2, <2>2 DEF JobInv, Copied
<1> HIDE DEF before
<1>r. /\ job[c].kept[o] + Min({room, n}) =
           (IF before + n <= OutputLimit(c) THEN before + n ELSE OutputLimit(c))
      /\ (before > OutputLimit(c) \/ n > room) <=> before + n > OutputLimit(c)
      /\ job[c].kept[o] + Min({room, n}) \in Nat
  <2> DEFINE k == job[c].kept[o]
             max == OutputLimit(c)
  <2>1. max \in Nat /\ k = (IF before <= max THEN before ELSE max)
    BY <1>2, <1>3
  <2>2. before \in Nat /\ n \in Nat \ {0}
    BY <1>3, <1>n
  <2> HIDE DEF k, max, next, kept, cut, pipe
  <2>3. max - k \in Int /\ n \in Int
    BY <2>1, <2>2
  <2>4. Min({max - k, n}) = IF max - k <= n THEN max - k ELSE n
    BY <2>3, MinOfTwo
  <2>5. /\ k + Min({max - k, n}) = (IF before + n <= max THEN before + n ELSE max)
        /\ (before > max \/ n > max - k) <=> before + n > max
        /\ k + Min({max - k, n}) \in Nat
    BY <2>1, <2>2, <2>4
  <2> QED
    BY <2>5 DEF k, max
<1>4. /\ kept[o] = (IF before + n <= OutputLimit(c) THEN before + n ELSE OutputLimit(c))
      /\ cut[o] <=> before + n > OutputLimit(c)
      /\ job[c].kept[o] + Min({room, n}) \in Nat
  <2>1. /\ kept[o] = job[c].kept[o] + Min({room, n})
        /\ cut[o] <=> job[c].cut[o] \/ n > room
    BY <1>t
  <2> HIDE DEF next, kept, cut, pipe, room
  <2> QED
    BY <1>3, <1>r, <2>1
<1>5. /\ pipe \in [Channel -> Nat] /\ kept \in [Channel -> Nat] /\ cut \in [Channel -> BOOLEAN]
      /\ pipe[o] = job[c].pipe[o] - n
      /\ \A p \in Channel \ {o} : /\ pipe[p] = job[c].pipe[p] /\ kept[p] = job[c].kept[p]
                                   /\ cut[p] = job[c].cut[p]
  <2>1. job[c].pipe[o] - n \in Nat
    BY <1>n, <1>t
  <2>2. cut \in [Channel -> BOOLEAN]
    BY <1>t
  <2>3. pipe \in [Channel -> Nat] /\ kept \in [Channel -> Nat]
    BY <1>4, <1>t, <2>1
  <2> QED
    BY <1>t, <2>2, <2>3
<1> HIDE DEF pipe, kept, cut
<1>6. next \in JobType
  BY <1>j, <1>5 DEF JobType
<1>7. /\ next.sent = job[c].sent /\ next.pipe = pipe /\ next.kept = kept /\ next.cut = cut
      /\ next.state = job[c].state /\ next.closed = job[c].closed
  BY <1>j DEF JobType
<1> HIDE DEF next
<1>8. job'[c] = next
  BY <1>1 DEF Job, OutputInv
<1>9. ASSUME NEW p \in Channel
      PROVE  /\ pipe[p] <= job[c].sent[p]
             /\ kept[p] = IF job[c].sent[p] - pipe[p] <= OutputLimit(c)
                          THEN job[c].sent[p] - pipe[p] ELSE OutputLimit(c)
             /\ cut[p] <=> job[c].sent[p] - pipe[p] > OutputLimit(c)
  <2>1. job[c].pipe[p] <= job[c].sent[p] /\ job[c].pipe[p] \in Nat /\ job[c].sent[p] \in Nat
    BY <1>j, <1>2, <1>t DEF JobInv
  <2>2. CASE p = o
    <3>1. job[c].sent[p] - pipe[p] = before + n /\ pipe[p] <= job[c].sent[p]
      <4>1. pipe[p] = job[c].pipe[p] - n /\ n <= job[c].pipe[p] /\ n \in Nat
        BY <1>5, <1>n, <2>2
      <4>2. before = job[c].sent[p] - job[c].pipe[p]
        BY <2>2 DEF before
      <4> QED
        BY <2>1, <4>1, <4>2
    <3> QED
      BY <1>4, <2>2, <3>1
  <2>3. CASE p # o
    BY <1>j, <1>2, <1>5, <2>1, <2>3 DEF JobInv, Copied
  <2> QED
    BY <2>2, <2>3
<1>10. JobInv(c)'
  BY <1>j, <1>1, <1>2, <1>6, <1>7, <1>8, <1>9 DEF JobInv, Copied, OutputLimit, IsA
<1> QED
  BY <1>1, <1>10, JobMoves

(* A handler goes on or returns, and no output of a process is answered.   *)
LEMMA HandlerLeavesJobs ==
  ASSUME PermitInv, OutputInv, NEW c \in Call, UNCHANGED <<ask, job>>,
         \/ \E from \in Stages, to \in Stages \ {"answered"} : Goes(c, from, to)
         \/ \E from \in Stages : \E result :
              Returns(c, from, result) /\ (IsA(c, {"run"}) => ~result.ok)
  PROVE  OutputInv'
<1>1. \A d \in Call \ {c} : pc'[d] = pc[d] /\ answer'[d] = answer[d]
  BY DEF Goes, Returns, PermitInv, Shape
<1>2. pc'[c] # "answered" \/ ~IsA(c, {"run"}) \/ ~answer'[c].ok
  BY DEF Goes, Returns, PermitInv, Shape
<1> QED
  BY <1>1, <1>2, JobsStay

LEMMA DownOutputInv == ASSUME PermitInv, OutputInv, Down PROVE OutputInv'
<1>1. /\ UNCHANGED <<ask, answer>> /\ DOMAIN job' = Call
      /\ \A c \in Call : pc'[c] = IF pc[c] \in Over THEN pc[c] ELSE "gone"
      /\ \A c \in Call : job'[c] = IF pc[c] \in Over THEN job[c] ELSE NoJob
  BY DEF Down
<1>2. ASSUME NEW c \in Call, pc[c] \in Over PROVE JobInv(c)'
  BY <1>1, <1>2 DEF OutputInv, JobInv, Copied, OutputLimit, IsA
<1>3. ASSUME NEW c \in Call, pc[c] \notin Over PROVE JobInv(c)'
  <2>1. job'[c] = NoJob /\ pc'[c] = "gone"
    BY <1>1, <1>3
  <2>2. /\ NoJob.state = "none" /\ ~NoJob.open /\ ~NoJob.closed
        /\ \A o \in Channel : NoJob.pipe[o] = 0
    BY DEF NoJob, Silent
  <2> QED
    BY <2>1, <2>2, NoJobType DEF JobInv
<1> QED
  BY <1>1, <1>2, <1>3 DEF OutputInv, IsA

LEMMA StartOutputInv == ASSUME PermitInv, OutputInv, NEW c \in Call, StartProcess(c) PROVE OutputInv'
<1>1. IsA(c, {"run"}) /\ UNCHANGED ask
  BY DEF StartProcess, OthersOfJob
<1> DEFINE next == [NoJob EXCEPT !.state = "runs", !.open = TRUE]
<1>2. CASE Goes(c, "permitted", "running") /\ Job(c, next)
  <2>1. /\ next \in JobType /\ next.state = "runs" /\ ~next.closed
        /\ \A o \in Channel : next.sent[o] = 0 /\ next.pipe[o] = 0 /\ next.kept[o] = 0 /\ ~next.cut[o]
    BY NoJobType DEF NoJob, JobType, Silent
  <2> HIDE DEF next
  <2>2. pc'[c] = "running" /\ \A d \in Call \ {c} : pc'[d] = pc[d] /\ answer'[d] = answer[d]
    BY <1>2 DEF Goes, PermitInv, Shape
  <2>3. job'[c] = next
    BY <1>2 DEF Job, OutputInv
  <2>4. OutputLimit(c) \in Nat /\ OutputLimit(c)' = OutputLimit(c) /\ IsA(c, {"run"})'
    BY <1>1, LimitType DEF OutputLimit, IsA
  <2>5. JobInv(c)'
    BY <2>1, <2>2, <2>3, <2>4 DEF JobInv, Copied
  <2> QED
    BY <1>1, <1>2, <2>2, <2>5, JobMoves
<1>3. CASE Returns(c, "permitted", Failed) /\ UNCHANGED job
  BY <1>1, <1>3, HandlerLeavesJobs DEF Failed, Stages
<1> QED
  BY <1>2, <1>3 DEF StartProcess

LEMMA FinishOutputInv == ASSUME PermitInv, OutputInv, NEW c \in Call, Finish(c) PROVE OutputInv'
<1>1. /\ UNCHANGED <<ask, job>> /\ job[c].closed
      /\ pc[c] = "running" /\ pc'[c] = "answered"
      /\ \A d \in Call \ {c} : pc'[d] = pc[d] /\ answer'[d] = answer[d]
  BY DEF Finish, Returns, OthersOfJob, PermitInv, Shape
<1>2. answer'[c].ok => /\ answer'[c].kept = job[c].kept
                       /\ answer'[c].truncated <=> \E o \in Channel : job[c].cut[o]
  BY DEF Finish, Returns, Failed, PermitInv, Shape
<1>3. JobInv(c)'
  BY <1>1, <1>2 DEF OutputInv, JobInv, Copied, OutputLimit, IsA
<1>4. ASSUME NEW d \in Call \ {c} PROVE JobInv(d)'
  BY <1>1, <1>4 DEF OutputInv, JobInv, Copied, OutputLimit, IsA
<1> QED
  BY <1>1, <1>3, <1>4 DEF OutputInv, IsA

LEMMA HandlersOutputInv ==
  ASSUME PermitInv, OutputInv, NEW c \in Call,
         Set(c) \/ GetConfig(c) \/ Guarded(c) \/ CallApi(c) \/ FileTool(c)
  PROVE  OutputInv'
<1> USE DEF Stages
<1>r. \A k \in (FileKinds \cup {"set", "get", "api"}) : IsA(c, {k}) => ~IsA(c, {"run"})
  BY DEF IsA, FileKinds
<1>1. CASE Set(c)
  <2>1. CASE ReadConfig(c)
    <3>1. CASE Down
      BY <3>1, DownOutputInv
    <3>2. CASE ~Down
      <4>1. /\ UNCHANGED <<ask, job>>
            /\ Goes(c, "valid", "parsed") \/ Returns(c, "valid", Failed)
        BY <2>1, <3>2 DEF ReadConfig
      <4> QED
        BY <4>1, HandlerLeavesJobs DEF Failed
    <3> QED
      BY <3>1, <3>2
  <2>2. CASE Validate(c)
    <3>1. Goes(c, "new", "valid") \/ Returns(c, "new", Failed)
      BY <2>2 DEF Validate
    <3> QED
      BY <2>2, <3>1, HandlerLeavesJobs DEF Validate, Failed
  <2>3. CASE TruncateConfig(c)
    BY <2>3, HandlerLeavesJobs DEF TruncateConfig
  <2>4. CASE WriteConfig(c)
    BY <2>4, HandlerLeavesJobs DEF WriteConfig
  <2>5. CASE WriteConfigFails(c)
    BY <2>5, HandlerLeavesJobs DEF WriteConfigFails, Failed
  <2>6. CASE SetSecurity(c)
    BY <2>6, <1>r, HandlerLeavesJobs DEF SetSecurity
  <2> QED
    BY <1>1, <2>1, <2>2, <2>3, <2>4, <2>5, <2>6 DEF Set
<1>2. CASE GetConfig(c)
  BY <1>2, <1>r, HandlerLeavesJobs DEF GetConfig
<1>3. CASE Guarded(c)
  <2>1. CASE Snapshot(c)
    BY <2>1, HandlerLeavesJobs DEF Snapshot
  <2>2. CASE TakeLimit(c)
    BY <2>2, HandlerLeavesJobs DEF TakeLimit
  <2>3. CASE Check(c)
    <3>1. \E from \in {"limited", "guarded"} : Goes(c, from, "permitted") \/ Returns(c, from, Failed)
      BY <2>3 DEF Check
    <3>2. UNCHANGED <<ask, job>>
      BY <2>3 DEF Check
    <3> QED
      BY <3>1, <3>2, HandlerLeavesJobs DEF Failed
  <2>4. CASE GivesUp(c)
    <3>1. \E from \in {"permitted", "sized"} : Returns(c, from, Failed)
      BY <2>4 DEF GivesUp
    <3>2. UNCHANGED <<ask, job>>
      BY <2>4 DEF GivesUp
    <3> QED
      BY <3>1, <3>2, HandlerLeavesJobs DEF Failed
  <2> QED
    BY <1>3, <2>1, <2>2, <2>3, <2>4 DEF Guarded
<1>4. CASE CallApi(c)
  BY <1>4, <1>r, HandlerLeavesJobs DEF CallApi
<1>5. CASE FileTool(c)
  <2>1. UNCHANGED <<ask, job>>
    BY <1>5 DEF FileTool, StatFileForRead, ReadContent, Search, StatFile, CheckPathExists,
                ListDirectory, StatFileForWrite, OpenForWrite, WriteContent
  <2>2. ~IsA(c, {"run"})
    BY <1>5, <1>r DEF FileTool, StatFileForRead, ReadContent, Search, StatFile, CheckPathExists,
                ListDirectory, StatFileForWrite, OpenForWrite, WriteContent, FileKinds
  <2>3. \A d \in Call \ {c} : pc'[d] = pc[d] /\ answer'[d] = answer[d]
    BY <1>5 DEF FileTool, StatFileForRead, ReadContent, Search, StatFile, CheckPathExists,
                ListDirectory, StatFileForWrite, OpenForWrite, WriteContent,
                Goes, Returns, PermitInv, Shape
  <2> QED
    BY <2>1, <2>2, <2>3, JobsStay
<1> QED
  BY <1>1, <1>2, <1>3, <1>4, <1>5

LEMMA NextOutputInv == ASSUME PermitInv, OutputInv, Next PROVE OutputInv'
<1> USE DEF Stages
<1>1. ASSUME NEW c \in Call, Start(c) PROVE OutputInv'
  BY <1>1, HandlerLeavesJobs DEF Start
<1>2. ASSUME NEW text \in Texts, ChangeDisk(text) PROVE OutputInv'
  <2>1. UNCHANGED <<ask, job, answer>>
    BY <1>2 DEF ChangeDisk
  <2>2. \A c \in Call : pc'[c] = pc[c] \/ pc'[c] # "answered"
    BY <1>2 DEF ChangeDisk
  <2> QED
    BY <2>1, <2>2, JobsStay
<1>3. CASE Crash
  BY <1>3, DownOutputInv DEF Crash
<1>4. CASE Restart
  BY <1>4, JobsStay DEF Restart
<1>5. ASSUME NEW c \in Call, Collect(c) PROVE OutputInv'
  <2>1. ASSUME NEW o \in Channel, CopyEnds(c, o) \/ \E n \in 1 .. PipeSize : Copy(c, o, n)
        PROVE  OutputInv'
    BY <2>1, ProcessOutputInv, CopyOutputInv
  <2>2. CASE Wait(c)
    BY <2>2, ProcessOutputInv
  <2>3. CASE Finish(c)
    BY <2>3, FinishOutputInv
  <2> QED
    BY <1>5, <2>1, <2>2, <2>3 DEF Collect
<1>6. ASSUME NEW c \in Call, (\E o \in Channel : Emit(c, o)) \/ ExitsByItself(c) \/ Kill(c) \/ Expire(c)
      PROVE  OutputInv'
  BY <1>6, EmitOutputInv, ProcessOutputInv
<1> QED
  BY <1>1, <1>2, <1>3, <1>4, <1>5, <1>6, HandlersOutputInv, StartOutputInv DEF Next, Handler

LEMMA OutputInvariance == Spec => []OutputInv
<1>1. PermitInv /\ OutputInv /\ [Next]_vars => OutputInv'
  <2>1. OutputInv /\ UNCHANGED vars => OutputInv'
    BY JobsStay DEF vars
  <2> QED
    BY <2>1, NextOutputInv
<1> QED
  BY <1>1, InitOutputInv, PermitInvariance, PTL DEF Spec

(* run_process returns what the process has written, up to the limit, and  *)
(* says truncated exactly when that was not all, unless Wait closed a pipe *)
(* with something in it: for any limit, any pipe and any order of writing, *)
(* copying, exiting and killing.                                           *)
THEOREM OutputIsAccounted == Spec => []OutputAccounted
<1>1. OutputInv => OutputAccounted
  <2> SUFFICES ASSUME OutputInv, NEW c \in Call, IsA(c, {"run"}), pc[c] = "answered",
                      answer[c].ok, ~job[c].lost
               PROVE  /\ \A o \in Channel : answer[c].kept[o] = Min({OutputLimit(c), job[c].sent[o]})
                      /\ answer[c].truncated <=> \E o \in Channel : job[c].sent[o] > OutputLimit(c)
    BY DEF OutputAccounted
  <2>1. /\ job[c].closed /\ answer[c].kept = job[c].kept
        /\ answer[c].truncated <=> \E o \in Channel : job[c].cut[o]
    BY DEF OutputInv, JobInv
  <2>2. job[c].state # "none" /\ OutputLimit(c) \in Nat
    BY <2>1, LimitType DEF OutputInv, JobInv
  <2>3. ASSUME NEW o \in Channel
        PROVE  /\ answer[c].kept[o] = Min({OutputLimit(c), job[c].sent[o]})
               /\ job[c].cut[o] <=> job[c].sent[o] > OutputLimit(c)
    <3>1. job[c].sent[o] \in Nat /\ Copied(c, o) = job[c].sent[o] - 0
      BY <2>1 DEF OutputInv, JobInv, JobType, Copied
    <3>2. /\ job[c].kept[o] = IF Copied(c, o) <= OutputLimit(c) THEN Copied(c, o) ELSE OutputLimit(c)
          /\ job[c].cut[o] <=> Copied(c, o) > OutputLimit(c)
      BY <2>2 DEF OutputInv, JobInv
    <3>3. Min({OutputLimit(c), job[c].sent[o]}) =
            IF OutputLimit(c) <= job[c].sent[o] THEN OutputLimit(c) ELSE job[c].sent[o]
      BY <2>2, <3>1, MinOfTwo
    <3> QED
      BY <2>1, <2>2, <3>1, <3>2, <3>3
  <2> QED
    BY <2>1, <2>3
<1> QED
  BY <1>1, OutputInvariance, PTL

-----------------------------------------------------------------------------
(* What the file tools answer.                                             *)
(*                                                                         *)
(* The answer is computed from what the file holds at that moment, and for *)
(* read_file from a size it had before: both are among the contents that   *)
(* the file had while the call ran.  What was answered stays true.         *)
TrueOf(held, q, r, maxMB) ==
  LET there == held \ {Missing}
  IN  \/ q.kind = "read" /\ \E t \in there, u \in there : IsReading(q, Len(u), t, maxMB, r)
      \/ q.kind = "search" /\ \E t \in there : IsSearch(q, t, r)
      \/ q.kind = "stat" /\ \E t \in there : r.size = Len(t)
      \/ q.kind = "exists" /\ \E t \in held : r.exists <=> t # Missing
      \/ q.kind = "list" /\ \E t \in held :
           r.total = IF t # Missing /\ (q.showHidden \/ ~Hidden) THEN 1 ELSE 0
AnswerTrue(c) ==
  pc[c] = "answered" /\ answer[c].ok /\ IsA(c, FileKinds \ {"write"}) =>
    TrueOf(texts[c], ask[c], answer[c], limit[c])
SizeTrue(c) ==
  IsA(c, {"read"}) /\ pc[c] = "sized" => \E u \in texts[c] \cap Seq(Byte) : stat[c] = Len(u)
AskType(c) ==
  /\ IsA(c, {"read"}) =>
       {ask[c].offset, ask[c].length, ask[c].tail, ask[c].head, ask[c].maxLines} \subseteq Int
  /\ IsA(c, {"search"}) => {ask[c].before, ask[c].after, ask[c].max} \subseteq Int
AnswerInv ==
  /\ DOMAIN stat = Call
  /\ \A c \in Call : AskType(c) /\ SizeTrue(c) /\ AnswerTrue(c)

LEMMA InitAnswerInv == Init => AnswerInv
<1> SUFFICES ASSUME Init PROVE AnswerInv
  OBVIOUS
<1>1. ASSUME NEW c \in Call PROVE AskType(c)
  <2>1. PICK s \in Scenarios : ask = s.ask
    BY DEF Init
  <2> QED
    BY <2>1 DEF AskType, IsA
<1>2. \A c \in Call : pc[c] = "idle"
  BY DEF Init
<1> QED
  BY <1>1, <1>2 DEF Init, AnswerInv, SizeTrue, AnswerTrue

(* A call whose answer, size and limit stay.                               *)
Stays(c) ==
  /\ limit'[c] = limit[c] /\ stat'[c] = stat[c] /\ texts[c] \subseteq texts'[c]
  /\ pc'[c] = "answered" => pc[c] = "answered" /\ answer'[c] = answer[c]
  /\ pc'[c] = "sized" => pc[c] = "sized"

LEMMA TrueOfMore ==
  ASSUME NEW S, NEW T, S \subseteq T, NEW q, NEW r, NEW m, TrueOf(S, q, r, m)
  PROVE  TrueOf(T, q, r, m)
<1>1. S \ {Missing} \subseteq T \ {Missing}
  OBVIOUS
<1>2. CASE q.kind = "read" /\ \E t \in S \ {Missing}, u \in S \ {Missing} : IsReading(q, Len(u), t, m, r)
  BY <1>1, <1>2, Zenon DEF TrueOf
<1>3. CASE q.kind = "search" /\ \E t \in S \ {Missing} : IsSearch(q, t, r)
  BY <1>1, <1>3, Zenon DEF TrueOf
<1>4. CASE q.kind = "stat" /\ \E t \in S \ {Missing} : r.size = Len(t)
  BY <1>1, <1>4, Zenon DEF TrueOf
<1>5. CASE q.kind = "exists" /\ \E t \in S : r.exists <=> t # Missing
  BY <1>5, Zenon DEF TrueOf
<1>6. CASE q.kind = "list" /\ \E t \in S :
             r.total = IF t # Missing /\ (q.showHidden \/ ~Hidden) THEN 1 ELSE 0
  BY <1>6, Zenon DEF TrueOf
<1> QED
  BY <1>2, <1>3, <1>4, <1>5, <1>6, Zenon DEF TrueOf

LEMMA CallStays ==
  ASSUME AnswerInv, NEW c \in Call, UNCHANGED ask, Stays(c)
  PROVE  AskType(c)' /\ SizeTrue(c)' /\ AnswerTrue(c)'
<1>0. /\ AskType(c) /\ SizeTrue(c) /\ AnswerTrue(c)
      /\ \A K : IsA(c, K)' <=> IsA(c, K)
  BY DEF AnswerInv, IsA
<1>1. AskType(c)'
  BY <1>0 DEF AskType
<1>2. SizeTrue(c)'
  BY <1>0 DEF SizeTrue, Stays
<1>3. AnswerTrue(c)'
  <2> SUFFICES ASSUME pc'[c] = "answered", answer'[c].ok, IsA(c, FileKinds \ {"write"})
               PROVE  TrueOf(texts'[c], ask[c], answer'[c], limit'[c])
    BY <1>0 DEF AnswerTrue, TrueOf
  <2>1. TrueOf(texts[c], ask[c], answer[c], limit[c])
    BY <1>0 DEF AnswerTrue, Stays
  <2>2. answer'[c] = answer[c] /\ limit'[c] = limit[c] /\ texts[c] \subseteq texts'[c]
    BY DEF Stays
  <2> QED
    BY <2>1, <2>2, TrueOfMore
<1> QED
  BY <1>1, <1>2, <1>3

(* A step that does not answer. *)
LEMMA AllStay ==
  ASSUME AnswerInv, UNCHANGED ask, DOMAIN stat' = Call, \A c \in Call : Stays(c)
  PROVE  AnswerInv'
  BY CallStays DEF AnswerInv

(* The step of one call. *)
LEMMA OneAnswers ==
  ASSUME AnswerInv, UNCHANGED ask, DOMAIN stat' = Call, NEW c \in Call,
         \A d \in Call \ {c} : Stays(d), SizeTrue(c)', AnswerTrue(c)'
  PROVE  AnswerInv'
<1>1. AskType(c)'
  BY DEF AnswerInv, AskType, IsA
<1>2. \A d \in Call \ {c} : AskType(d)' /\ SizeTrue(d)' /\ AnswerTrue(d)'
  BY CallStays
<1> QED
  BY <1>1, <1>2 DEF AnswerInv

(* A handler goes on, or returns an error or what is not about the file.   *)
LEMMA HandlerAnswersNot ==
  ASSUME PermitInv, WriteInv, AnswerInv, NEW c \in Call, UNCHANGED <<ask, stat>>,
         \A d \in Call \ {c} : limit'[d] = limit[d] /\ texts[d] \subseteq texts'[d],
         \/ \E from \in Stages, to \in Stages \ {"sized", "answered"} : Goes(c, from, to)
         \/ \E from \in Stages : \E result :
              Returns(c, from, result) /\ (result.ok => ~IsA(c, FileKinds \ {"write"}))
  PROVE  AnswerInv'
<1>1. \A d \in Call \ {c} : Stays(d)
  BY DEF Goes, Returns, PermitInv, Shape, Stays
<1>2. SizeTrue(c)' /\ AnswerTrue(c)'
  <2>1. CASE \E from \in Stages, to \in Stages \ {"sized", "answered"} : Goes(c, from, to)
    <3>1. pc'[c] \notin {"sized", "answered"}
      BY <2>1 DEF Goes, PermitInv, Shape
    <3> QED
      BY <3>1 DEF SizeTrue, AnswerTrue
  <2>2. CASE \E from \in Stages : \E result :
               Returns(c, from, result) /\ (result.ok => ~IsA(c, FileKinds \ {"write"}))
    <3>1. pc'[c] = "answered" /\ (answer'[c].ok => ~IsA(c, FileKinds \ {"write"})')
      BY <2>2 DEF Returns, PermitInv, Shape, IsA
    <3> QED
      BY <3>1 DEF SizeTrue, AnswerTrue
  <2> QED
    BY <2>1, <2>2
<1> QED
  BY <1>1, <1>2, OneAnswers DEF AnswerInv

(* None of these answers about the file. *)
LEMMA HandlersAnswerInv ==
  ASSUME PermitInv, WriteInv, AnswerInv, NEW c \in Call,
         Set(c) \/ GetConfig(c) \/ Guarded(c) \/ CallApi(c) \/ StartProcess(c)
  PROVE  AnswerInv' \/ Down
<1> USE DEF configVars, diskVars, localVars, pastVars, OthersOfJob, Stages
<1>w. \A k \in {"set", "get", "api", "run"} : IsA(c, {k}) => ~IsA(c, FileKinds \ {"write"})
  BY DEF IsA, FileKinds
<1>1. CASE Validate(c)
  <2>1. CASE Goes(c, "new", "valid")
    BY <1>1, <2>1, HandlerAnswersNot DEF Validate
  <2>2. CASE Returns(c, "new", Failed)
    BY <1>1, <2>2, HandlerAnswersNot DEF Validate, Failed
  <2> QED
    BY <1>1, <2>1, <2>2 DEF Validate
<1>2. CASE ReadConfig(c)
  <2>1. CASE Goes(c, "valid", "parsed") /\ UNCHANGED <<ask, stat, limit, texts>>
    BY <2>1, HandlerAnswersNot
  <2>2. CASE Returns(c, "valid", Failed) /\ UNCHANGED <<ask, stat, limit, texts>>
    BY <2>2, HandlerAnswersNot DEF Failed
  <2> QED
    BY <1>2, <2>1, <2>2 DEF ReadConfig
<1>3. CASE TruncateConfig(c) \/ WriteConfig(c)
  <2>1. Goes(c, "parsed", "truncated") \/ Goes(c, "truncated", "stored")
    BY <1>3 DEF TruncateConfig, WriteConfig
  <2>2. UNCHANGED <<ask, stat, limit, texts>>
    BY <1>3 DEF TruncateConfig, WriteConfig
  <2> QED
    BY <2>1, <2>2, HandlerAnswersNot
<1>4. CASE WriteConfigFails(c)
  BY <1>4, HandlerAnswersNot DEF WriteConfigFails, Failed
<1>5. CASE SetSecurity(c)
  BY <1>5, <1>w, HandlerAnswersNot DEF SetSecurity
<1>6. CASE GetConfig(c)
  BY <1>6, <1>w, HandlerAnswersNot DEF GetConfig
<1>7. CASE Snapshot(c)
  BY <1>7, HandlerAnswersNot DEF Snapshot
<1>8. CASE TakeLimit(c)
  <2>1. \A d \in Call \ {c} : limit'[d] = limit[d]
    BY <1>8 DEF TakeLimit
  <2> QED
    BY <1>8, <2>1, HandlerAnswersNot DEF TakeLimit
<1>9. CASE Check(c)
  <2>1. PICK from \in {"limited", "guarded"} : Goes(c, from, "permitted") \/ Returns(c, from, Failed)
    BY <1>9 DEF Check
  <2>2. UNCHANGED <<ask, stat, limit, texts>>
    BY <1>9 DEF Check
  <2> QED
    BY <2>1, <2>2, HandlerAnswersNot DEF Failed
<1>10. CASE GivesUp(c)
  <2>1. PICK from \in {"permitted", "sized"} : Returns(c, from, Failed)
    BY <1>10 DEF GivesUp
  <2> QED
    BY <1>10, <2>1, HandlerAnswersNot DEF GivesUp, Failed
<1>11. CASE CallApi(c)
  BY <1>11, <1>w, HandlerAnswersNot DEF CallApi
<1>12. CASE StartProcess(c)
  <2>1. CASE Goes(c, "permitted", "running")
    BY <1>12, <2>1, HandlerAnswersNot DEF StartProcess
  <2>2. CASE Returns(c, "permitted", Failed)
    BY <1>12, <2>2, HandlerAnswersNot DEF StartProcess, Failed
  <2> QED
    BY <1>12, <2>1, <2>2 DEF StartProcess
<1> QED
  BY <1>1, <1>2, <1>3, <1>4, <1>5, <1>6, <1>7, <1>8, <1>9, <1>10, <1>11, <1>12 DEF Set, Guarded

(* Stat sees a size that the file has.                                     *)
LEMMA StatAnswerInv ==
  ASSUME PermitInv, WriteInv, AnswerInv, NEW c \in Call, StatFileForRead(c) \/ StatFileForWrite(c)
  PROVE  AnswerInv'
<1> USE DEF configVars, diskVars, localVars, pastVars, Stages, Over
<1>1. /\ UNCHANGED <<ask, limit, texts>> /\ DOMAIN stat' = Call
      /\ stat'[c] = SizeOf(disk) /\ \A d \in Call \ {c} : stat'[d] = stat[d]
  BY DEF StatFileForRead, StatFileForWrite, AnswerInv
<1>2. /\ pc[c] = "permitted"
      /\ \A d \in Call \ {c} : pc'[d] = pc[d] /\ answer'[d] = answer[d]
  BY DEF StatFileForRead, StatFileForWrite, Goes, Returns, PermitInv, Shape
<1>3. \A d \in Call \ {c} : Stays(d)
  BY <1>1, <1>2 DEF Stays
<1>4. SizeTrue(c)'
  <2> SUFFICES ASSUME IsA(c, {"read"}), pc'[c] = "sized"
               PROVE  \E u \in texts[c] \cap Seq(Byte) : stat'[c] = Len(u)
    BY <1>1 DEF SizeTrue, IsA
  <2>1. disk # Missing
    BY DEF StatFileForRead, StatFileForWrite, Returns, Goes, PermitInv, Shape, IsA
  <2>2. disk \in texts[c] /\ disk \in Seq(Byte)
    BY <1>2, <2>1 DEF WriteInv, FileInv
  <2>3. stat'[c] = Len(disk)
    BY <1>1, <2>1 DEF SizeOf
  <2> QED
    BY <2>2, <2>3
<1>5. AnswerTrue(c)'
  <2>1. pc'[c] = "answered" => ~answer'[c].ok
    BY DEF StatFileForRead, StatFileForWrite, Returns, Goes, PermitInv, Shape, Failed
  <2> QED
    BY <2>1 DEF AnswerTrue
<1> QED
  BY <1>1, <1>3, <1>4, <1>5, OneAnswers

(* The answer is about what the file holds.                                *)
LEMMA ReadersAnswerInv ==
  ASSUME PermitInv, WriteInv, AnswerInv, NEW c \in Call,
         ReadContent(c) \/ Search(c) \/ StatFile(c) \/ CheckPathExists(c) \/ ListDirectory(c)
  PROVE  AnswerInv'
<1> USE DEF configVars, diskVars, localVars, pastVars, Stages, Over
<1>1. UNCHANGED <<disk, ask, limit, stat, texts>>
  BY DEF ReadContent, Search, StatFile, CheckPathExists, ListDirectory
<1>2. /\ pc[c] \in {"permitted", "sized"} /\ pc'[c] = "answered"
      /\ \A d \in Call \ {c} : pc'[d] = pc[d] /\ answer'[d] = answer[d]
  BY DEF ReadContent, Search, StatFile, CheckPathExists, ListDirectory, Returns, PermitInv, Shape
<1>3. \A d \in Call \ {c} : Stays(d)
  BY <1>1, <1>2 DEF Stays
<1>4. SizeTrue(c)'
  BY <1>2 DEF SizeTrue
<1>5. disk \in texts[c] /\ (disk # Missing => disk \in texts[c] \ {Missing} /\ disk \in Seq(Byte))
  BY <1>2 DEF WriteInv, FileInv
<1>6. AnswerTrue(c)'
  <2> SUFFICES ASSUME answer'[c].ok PROVE TrueOf(texts[c], ask[c], answer'[c], limit[c])
    BY <1>1 DEF AnswerTrue, TrueOf
  <2>1. CASE ReadContent(c)
    <3>1. /\ ask[c].kind = "read" /\ pc[c] = "sized" /\ IsA(c, {"read"})
          /\ answer'[c] = IF disk = Missing THEN Failed ELSE ReadFile(ask[c], stat[c], disk, limit[c])
      BY <2>1 DEF ReadContent, IsA, Returns, PermitInv, Shape
    <3>2. disk # Missing /\ answer'[c] = ReadFile(ask[c], stat[c], disk, limit[c])
      BY <3>1 DEF Failed
    <3>3. PICK u \in texts[c] \cap Seq(Byte) : stat[c] = Len(u)
      BY <3>1 DEF AnswerInv, SizeTrue
    <3>4. stat[c] \in Nat /\ u \in texts[c] \ {Missing}
      BY <3>3
    <3>5. /\ ask[c].offset \in Int /\ ask[c].length \in Int /\ ask[c].tail \in Int
          /\ ask[c].head \in Int /\ ask[c].maxLines \in Int
      BY <3>1 DEF AnswerInv, AskType
    <3>6. IsReading(ask[c], stat[c], disk, limit[c], answer'[c])
      BY <1>5, <3>2, <3>4, <3>5, ReadingIsReading
    <3>7. IsReading(ask[c], Len(u), disk, limit[c], answer'[c])
      BY <3>3, <3>6
    <3> QED
      BY <1>5, <3>1, <3>2, <3>4, <3>7, Zenon DEF TrueOf
  <2>2. CASE Search(c)
    <3>1. /\ ask[c].kind = "search" /\ IsA(c, {"search"})
          /\ answer'[c] = IF disk = Missing THEN Failed ELSE SearchFileContent(ask[c], disk)
      BY <2>2 DEF Search, IsA, Returns, PermitInv, Shape
    <3>2. disk # Missing /\ answer'[c] = SearchFileContent(ask[c], disk)
      BY <3>1 DEF Failed
    <3>3. ask[c].before \in Int /\ ask[c].after \in Int /\ ask[c].max \in Int
      BY <3>1 DEF AnswerInv, AskType
    <3>4. IsSearch(ask[c], disk, answer'[c])
      BY <1>5, <3>2, <3>3, SearchIsSearch
    <3> QED
      BY <1>5, <3>1, <3>2, <3>4, Zenon DEF TrueOf
  <2>3. CASE StatFile(c)
    <3>1. /\ ask[c].kind = "stat"
          /\ answer'[c] = IF disk = Missing THEN Failed ELSE [ok |-> TRUE, size |-> Len(disk)]
      BY <2>3 DEF StatFile, IsA, Returns, PermitInv, Shape
    <3>2. disk # Missing /\ answer'[c].size = Len(disk)
      BY <3>1 DEF Failed
    <3> QED
      BY <1>5, <3>1, <3>2, Zenon DEF TrueOf
  <2>4. CASE CheckPathExists(c)
    <3>1. ask[c].kind = "exists" /\ answer'[c] = [ok |-> TRUE, exists |-> disk # Missing]
      BY <2>4 DEF CheckPathExists, IsA, Returns, PermitInv, Shape
    <3>2. answer'[c].exists <=> disk # Missing
      <4>1. answer'[c].exists = (disk # Missing)
        BY <3>1
      <4> QED
        BY <4>1, Zenon
    <3> QED
      BY <1>5, <3>1, <3>2, Zenon DEF TrueOf
  <2>5. CASE ListDirectory(c)
    <3>1. /\ ask[c].kind = "list"
          /\ answer'[c] = [ok |-> TRUE, total |->
                            IF disk # Missing /\ (ask[c].showHidden \/ ~Hidden) THEN 1 ELSE 0]
      BY <2>5 DEF ListDirectory, IsA, Returns, PermitInv, Shape
    <3>2. answer'[c].total = IF disk # Missing /\ (ask[c].showHidden \/ ~Hidden) THEN 1 ELSE 0
      BY <3>1
    <3> QED
      BY <1>5, <3>1, <3>2, Zenon DEF TrueOf
  <2> QED
    BY <2>1, <2>2, <2>3, <2>4, <2>5
<1>7. DOMAIN stat' = Call
  BY <1>1 DEF AnswerInv
<1> QED
  BY <1>1, <1>3, <1>4, <1>6, <1>7, OneAnswers

(* write_file adds a content and says nothing of any.                      *)
LEMMA WritersAnswerInv ==
  ASSUME PermitInv, WriteInv, AnswerInv, NEW c \in Call, OpenForWrite(c) \/ WriteContent(c)
  PROVE  AnswerInv'
<1> USE DEF configVars, diskVars, localVars, pastVars, Stages
<1>1. /\ UNCHANGED <<ask, stat, limit>> /\ ~IsA(c, FileKinds \ {"write"})
      /\ \A d \in Call \ {c} : texts[d] \subseteq texts'[d]
  BY DEF OpenForWrite, WriteContent, IsA, DiskBecomes
<1>2. \/ Goes(c, "sized", "opened")
      \/ \E from \in {"sized", "opened", "unlinked"} : \E result : Returns(c, from, result)
  BY DEF OpenForWrite, WriteContent
<1> QED
  BY <1>1, <1>2, HandlerAnswersNot

LEMMA NextAnswerInv == ASSUME PermitInv, WriteInv, OutputInv, AnswerInv, Next PROVE AnswerInv'
<1> USE DEF configVars, diskVars, localVars, pastVars, OthersOfJob, Stages
<1>1. ASSUME NEW c \in Call, Start(c) PROVE AnswerInv'
  <2>1. \A d \in Call \ {c} : texts[d] \subseteq texts'[d]
    BY <1>1 DEF Start, WriteInv, FileInv
  <2> QED
    BY <1>1, <2>1, HandlerAnswersNot DEF Start
<1>2. ASSUME NEW text \in Texts, ChangeDisk(text) PROVE AnswerInv'
  <2>1. \A c \in Call : Stays(c)
    BY <1>2 DEF ChangeDisk, DiskBecomes, Stays
  <2> QED
    BY <1>2, <2>1, AllStay DEF ChangeDisk, AnswerInv
<1>3. CASE Down
  <2>1. \A c \in Call : Stays(c)
    BY <1>3 DEF Down, Over, Stays
  <2> QED
    BY <1>3, <2>1, AllStay DEF Down, AnswerInv
<1>4. ASSUME UNCHANGED <<pc, ask, answer, limit, stat, texts>> PROVE AnswerInv'
  <2>1. \A c \in Call : Stays(c)
    BY <1>4 DEF Stays
  <2> QED
    BY <1>4, <2>1, AllStay DEF AnswerInv
<1>5. ASSUME NEW c \in Call, Finish(c) PROVE AnswerInv'
  <2>1. IsA(c, {"run"})
    BY <1>5 DEF Finish, OutputInv, JobInv
  <2>2. ~IsA(c, FileKinds \ {"write"})
    BY <2>1 DEF IsA, FileKinds
  <2> QED
    BY <1>5, <2>2, HandlerAnswersNot DEF Finish
<1>6. CASE Restart
  BY <1>4, <1>6 DEF Restart
<1>7. ASSUME NEW c \in Call,
             \/ (\E o \in Channel : CopyEnds(c, o) \/ \E n \in 1 .. PipeSize : Copy(c, o, n))
             \/ Wait(c) \/ (\E o \in Channel : Emit(c, o)) \/ ExitsByItself(c) \/ Kill(c) \/ Expire(c)
      PROVE  AnswerInv'
  BY <1>4, <1>7 DEF CopyEnds, Copy, Wait, Emit, ExitsByItself, Kill, Exit, Expire
<1> QED
  BY <1>1, <1>2, <1>3, <1>5, <1>6, <1>7, HandlersAnswerInv, StatAnswerInv, ReadersAnswerInv,
     WritersAnswerInv DEF Next, Handler, Collect, FileTool, Crash

(* What a file tool answers is true of contents that the file had while    *)
(* the call ran.                                                           *)
THEOREM AnswersAreTrue == Spec => []AnswersFitTheFile
<1>1. PermitInv /\ WriteInv /\ OutputInv /\ AnswerInv /\ [Next]_vars => AnswerInv'
  <2>1. AnswerInv /\ UNCHANGED vars => AnswerInv'
    <3> SUFFICES ASSUME AnswerInv, UNCHANGED vars PROVE AnswerInv'
      OBVIOUS
    <3>1. UNCHANGED <<ask, stat>> /\ \A c \in Call : Stays(c)
      BY DEF vars, localVars, pastVars, Stays
    <3> QED
      BY <3>1, AllStay DEF AnswerInv
  <2> QED
    BY <2>1, NextAnswerInv
<1>2. AnswerInv => AnswersFitTheFile
  BY Zenon DEF AnswerInv, AnswerTrue, TrueOf, AnswersFitTheFile
<1> QED
  BY <1>1, <1>2, InitAnswerInv, WriteInvariance, OutputInvariance, PermitInvariance, PTL DEF Spec
=============================================================================
