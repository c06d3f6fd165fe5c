----------------------------- MODULE FileTools -----------------------------
(***************************************************************************)
(* What the file tools of sysplane-agent compute: the path guard, the ways *)
(* read_file cuts a file, and search_file_content.                         *)
(*                                                                         *)
(* A text is a sequence of bytes: "nl" is the newline, "nul" the zero byte *)
(* and any other value one byte of a line.  A path is the sequence of its  *)
(* components after Clean and EvalSymlinks, so that comparing two of them  *)
(* with a separator appended is comparing sequences.                       *)
(***************************************************************************)
EXTENDS Integers, Sequences, FiniteSets, FiniteSetsExt, SequencesExt

CONSTANTS
  ProbeBytes,    \* binaryCheckBytes: how much of a file is probed for zero bytes
  LineLimit,     \* a line of so many bytes overflows the scanner's buffer
  DefaultLength, \* the length of a range that gives none
  MB             \* bytes per unit of max_file_size_mb

ASSUME FileToolsAssumption ==
  {ProbeBytes, LineLimit, DefaultLength, MB} \subseteq Nat \ {0}

(***************************************************************************)
(* Paths.                                                                  *)
(***************************************************************************)
(* PathGuard.Check: the block list has priority, an empty allow list       *)
(* allows everything else.                                                 *)
GuardAllows(allowed, blocked, path) ==
  /\ ~ \E b \in blocked : IsPrefix(b, path)
  /\ allowed = {} \/ \E a \in allowed : IsPrefix(a, path)

(***************************************************************************)
(* Lines, as bufio.Scanner finds them: a last line need not end in a       *)
(* newline, and a newline at the end starts no further line.               *)
(***************************************************************************)
Lines(text) ==
  LET scan == FoldLeft(LAMBDA s, byte :
                IF byte = "nl" THEN [done |-> Append(s.done, s.line), line |-> <<>>]
                ELSE [s EXCEPT !.line = Append(@, byte)],
                [done |-> <<>>, line |-> <<>>], text)
  IN  IF scan.line = <<>> THEN scan.done ELSE Append(scan.done, scan.line)

(* The scanner fails on one of the first n lines. *)
Overflows(lines, n) == \E i \in 1 .. n : Len(lines[i]) >= LineLimit

(***************************************************************************)
(* What a tool answers: an error, or the bytes or lines it returns, how    *)
(* many lines it says they are, and whether it says that it left some out. *)
(***************************************************************************)
Failed == [ok |-> FALSE]
Answer(content, lines, truncated) ==
  [ok |-> TRUE, content |-> content, lines |-> lines, truncated |-> truncated]

(* Mutant: a range that reaches the end is said to be cut. *)
ReadRangePast(p, size, text) ==
  LET length == IF p.length <= 0 THEN DefaultLength ELSE p.length
      end    == Min({p.offset + length, Len(text)})
      bytes  == SubSeq(text, p.offset + 1, end)
  IN  IF p.offset < 0 THEN Failed ELSE Answer(bytes, 1, p.offset + Len(bytes) <= size)

(* readRange: at most length bytes from offset on, never more than the     *)
(* size that Stat reported a moment ago.                                   *)
ReadRange(p, size, text) ==
  LET length    == IF p.length <= 0 THEN DefaultLength ELSE p.length
      remaining == Max({size - p.offset, 0})
      end       == Min({p.offset + length, p.offset + remaining, Len(text)})
      bytes     == SubSeq(text, p.offset + 1, end)
  IN  IF p.offset < 0 THEN Failed
      ELSE Answer(bytes, Cardinality({i \in DOMAIN bytes : bytes[i] = "nl"}) + 1,
                  p.offset + Len(bytes) < size)

(* readTail: the lines go round a ring of n slots, which is then unrolled  *)
(* from the slot the next line would have taken.                           *)
Ring(n, lines) ==
  FoldLeftDomain(LAMBDA ring, i : [ring EXCEPT ![(i - 1) % n] = lines[i]],
                 [slot \in 0 .. n - 1 |-> <<>>], lines)
ReadTail(n, text) ==
  LET lines == Lines(text)
      total == Len(lines)
      ring  == Ring(n, lines)
  IN  IF Overflows(lines, total) THEN Failed
      ELSE Answer(IF total <= n THEN [i \in 1 .. total |-> ring[i - 1]]
                  ELSE [i \in 1 .. n |-> ring[(total + i - 1) % n]],
                  Min({total, n}), total > n)

(* The loop of ReadFile that stops at head or max_lines lines.             *)
ReadHead(p, text) ==
  LET lines == Lines(text)
      stops == {n \in {p.head, p.maxLines} : n > 0 /\ n <= Len(lines)}
      kept  == IF stops = {} THEN Len(lines) ELSE Min(stops)
  IN  IF Overflows(lines, kept) THEN Failed
      ELSE Answer(SubSeq(lines, 1, kept), kept, stops # {})

(* ReadFile, once Stat reported the size and the file is open: a zero byte *)
(* near the start makes it binary, an offset or a length wins over tail,   *)
(* and tail over head and max_lines.                                       *)
ReadFile(p, size, text, maxMB) ==
  IF \E i \in 1 .. Min({ProbeBytes, Len(text)}) : text[i] = "nul" THEN Answer(<<>>, 0, FALSE)
  ELSE IF size > maxMB * MB THEN Failed
  ELSE IF p.offset > 0 \/ p.length > 0 THEN ReadRange(p, size, text)
  ELSE IF p.tail > 0 THEN ReadTail(p.tail, text)
  ELSE ReadHead(p, text)

(***************************************************************************)
(* search_file_content.  A pattern is a byte; "bad" does not compile.      *)
(***************************************************************************)
Matches(p, line) == Contains(line, p.pattern) # p.invert

(* Those of the lines lo..hi that the result does not have yet, appended.  *)
WithLines(found, lo, hi, mark) ==
  FoldLeft(LAMBDA fs, n : IF \E k \in DOMAIN fs : fs[k].num = n THEN fs
                          ELSE Append(fs, [num |-> n, mark |-> mark]),
           found, [k \in 1 .. hi - lo + 1 |-> lo + k - 1])

(* One line: a matching one is counted, left out past max_matches, which   *)
(* ends the search, and otherwise added between its context lines.         *)
SearchStep(p, lines, s, i) ==
  IF s.stop \/ ~ Matches(p, lines[i]) THEN s
  ELSE IF p.countOnly THEN [s EXCEPT !.count = @ + 1]
  ELSE IF p.max > 0 /\ s.count + 1 > p.max THEN [s EXCEPT !.count = @ + 1, !.stop = TRUE]
  ELSE LET before == WithLines(s.found, Max({1, i - p.before}), i - 1, "before")
           itself == WithLines(before, i, i, "match")
       IN  [s EXCEPT !.count = @ + 1,
                     !.found = WithLines(itself, i + 1, Min({Len(lines), i + p.after}), "after")]

SearchFileContent(p, text) ==
  LET lines == Lines(text)
      s == FoldLeftDomain(LAMBDA acc, i : SearchStep(p, lines, acc, i),
                          [found |-> <<>>, count |-> 0, stop |-> FALSE], lines)
  IN  IF p.pattern = "bad" \/ Overflows(lines, Len(lines)) THEN Failed
      ELSE Answer(s.found, s.count, s.stop)

-----------------------------------------------------------------------------
(***************************************************************************)
(* What the answers mean, stated without the algorithms.                   *)
(***************************************************************************)
(* A range is what the file holds from the offset on, as long as asked,    *)
(* and it says that it was cut exactly when the size reported promised     *)
(* more.                                                                   *)
IsRange(p, size, text, r) ==
  LET wanted == IF p.length <= 0 THEN DefaultLength ELSE p.length
      inside == {i \in DOMAIN text : i > p.offset /\ i <= p.offset + wanted /\ i <= size}
  IN  /\ p.offset >= 0
      /\ Len(r.content) = Cardinality(inside)
      /\ \A i \in inside : r.content[i - p.offset] = text[i]
      /\ r.truncated <=> \E i \in 1 .. size : i > p.offset + Len(r.content)

(* A tail is the last n lines in their order, a head the first ones; only  *)
(* a complete answer may say that nothing was left out.                    *)
IsTail(n, lines, r) ==
  /\ IsSuffix(r.content, lines) /\ Len(r.content) <= n
  /\ IF r.truncated THEN Len(r.content) = n /\ n < Len(lines) ELSE r.content = lines
IsHead(p, lines, r) ==
  /\ IsPrefix(r.content, lines)
  /\ \A n \in {p.head, p.maxLines} : n > 0 => Len(r.content) <= n
  /\ IF r.truncated THEN Len(r.content) \in {p.head, p.maxLines} ELSE r.content = lines

(* An answer of read_file is right for a file of that size and text. *)
IsReading(p, size, text, maxMB, r) ==
  r.ok =>
    \/ "nul" \in ToSet(text) /\ r.content = <<>>
    \/ /\ ~(size > maxMB * MB)
       /\ IF p.offset > 0 \/ p.length > 0 THEN IsRange(p, size, text, r)
          ELSE IF p.tail > 0 THEN IsTail(p.tail, Lines(text), r)
          ELSE IsHead(p, Lines(text), r)

(* A search returns, in the order of the file and once each, the lines     *)
(* around the first max_matches matching ones and nothing else; lines it   *)
(* calls matches do match; and the count is that of all matches, or one    *)
(* more than max_matches.                                                  *)
Hits(p, lines) == {i \in DOMAIN lines : Matches(p, lines[i])}
IsSearch(p, text, r) ==
  LET lines  == Lines(text)
      hits   == Hits(p, lines)
      Rank(i) == Cardinality({j \in hits : j <= i})
      chosen == {i \in hits : ~p.countOnly /\ (p.max > 0 => Rank(i) <= p.max)}
      shown  == {i \in DOMAIN lines :
                   \E c \in chosen : i = c \/ i \in c - p.before .. c \/ i \in c .. c + p.after}
      found  == r.content
  IN  r.ok =>
        /\ {found[k].num : k \in DOMAIN found} = shown
        /\ \A k \in 2 .. Len(found) : found[k - 1].num < found[k].num
        /\ \A k \in DOMAIN found : found[k].mark = "match" => found[k].num \in chosen
        /\ \A c \in chosen : \E k \in DOMAIN found :
             found[k].num = c /\ (found[k].mark = "match"
               \/ \E d \in chosen : d < c /\ c <= d + p.after)
        /\ r.lines = IF p.countOnly \/ p.max <= 0 THEN Cardinality(hits)
                     ELSE Min({Cardinality(hits), p.max + 1})
=============================================================================
