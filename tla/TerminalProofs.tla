---------------------------- MODULE TerminalProofs ----------------------------
(***************************************************************************)
(* Theorems about Terminal, for texts and reads of any length: what is     *)
(* sent to the guest and shown on stdout depends on the bytes alone, not   *)
(* on where the reads split them. The properties speak of whole texts, the *)
(* filters of one byte after another; each filter is related to the text   *)
(* by induction over the bytes of a chunk.                                 *)
(***************************************************************************)
EXTENDS Terminal, Recursion, SequenceTheorems

(* FlattenSeq, one piece at a time *)

\* The recursion behind FlattenSeq, and its solution.
FlatAt(p, g, i) == IF i = 1 THEN p[i] ELSE g[i - 1] \o p[i]

FlatOf(p, g) == [i \in 1..Len(p) |-> FlatAt(p, g, i)]

Flat(p) == CHOOSE g : g = FlatOf(p, g)

\* FlattenSeq is the last value of the recursion.
LEMMA FlattenIsFlat ==
  ASSUME NEW S, NEW p \in Seq(Seq(S))
  PROVE  FlattenSeq(p) = IF Len(p) = 0 THEN <<>> ELSE Flat(p)[Len(p)]
<1>1. Len(p) = 0 => p = <<>>
  OBVIOUS
<1> QED  BY <1>1 DEF FlattenSeq, Flat, FlatOf, FlatAt

\* The recursion has a solution.
LEMMA FlatExists ==
  ASSUME NEW S, NEW p \in Seq(Seq(S))
  PROVE  /\ \A i \in 1..Len(p) : Flat(p)[i] = FlatAt(p, Flat(p), i)
         /\ \A i \in 1..Len(p) : Flat(p)[i] \in Seq(S)
<1> DEFINE N == Len(p)
           T == Seq(S)
           step == [x \in 1..N |-> [t \in T |-> t \o p[x]]]
<1>1. N \in Nat /\ <<>> \in T /\ \A i \in 1..N : p[i] \in T
  OBVIOUS
<1>2. \A x \in 1..N, t \in T : step[x][t] = t \o p[x] /\ t \o p[x] \in T
  BY <1>1
<1>3. Combines(step, N, T)
  BY <1>2 DEF Combines
<1>4. PICK g \in [0..N -> T] : Runs(g, <<>>, step, N)
  <2> HIDE DEF N, T, step
  <2> QED  BY <1>1, <1>3, RunExists, Zenon
<1>5. PICK f : f = [i \in 1..N |-> g[i]]
  OBVIOUS
<1>6. ASSUME NEW i \in 1..N PROVE f[i] = FlatAt(p, f, i) /\ f[i] \in T
  <2>1. f[i] = g[i] /\ g[i] \in T /\ g[i - 1] \in T
    <3>1. i \in 0..N /\ i - 1 \in 0..N
      BY <1>1
    <3>2. g[i] \in T /\ g[i - 1] \in T
      <4> HIDE DEF T, N
      <4> QED  BY <3>1
    <3>3. f[i] = g[i]
      <4> HIDE DEF T, N
      <4> QED  BY <1>5
    <3> QED  BY <3>2, <3>3
  <2>2. g[i] = g[i - 1] \o p[i]
    <3>1. g[i] = step[i][g[i - 1]]
      BY <1>4, Zenon DEF Runs
    <3>2. step[i][g[i - 1]] = g[i - 1] \o p[i]
      BY <1>2, <2>1
    <3> QED  BY <3>1, <3>2
  <2>3. CASE i = 1
    <3>1. g[i - 1] = <<>>
      BY <1>4, <2>3 DEF Runs
    <3>2. <<>> \o p[i] = p[i]
      BY <1>1
    <3> QED  BY <2>1, <2>2, <2>3, <3>1, <3>2 DEF FlatAt
  <2>4. CASE i # 1
    <3>1. f[i - 1] = g[i - 1]
      BY <1>5, <2>4
    <3> QED  BY <2>1, <2>2, <2>4, <3>1 DEF FlatAt
  <2> QED  BY <2>3, <2>4
<1>7. f = FlatOf(p, f)
  <2>1. f = [i \in 1..N |-> f[i]]
    BY <1>5
  <2>2. [i \in 1..N |-> f[i]] = [i \in 1..N |-> FlatAt(p, f, i)]
    BY <1>6, Zenon
  <2> QED  BY <2>1, <2>2, Zenon DEF FlatOf
<1>8. Flat(p) = FlatOf(p, Flat(p))
  BY <1>7, Zenon DEF Flat
<1>9. PICK h : h = Flat(p)
  OBVIOUS
<1>10. \A i \in 1..N : h[i] = FlatAt(p, h, i)
  <2>1. h = FlatOf(p, h)
    BY <1>8, <1>9
  <2>2. PICK r : r = FlatOf(p, h)
    OBVIOUS
  <2>3. \A i \in 1..N : r[i] = FlatAt(p, h, i)
    BY <2>2 DEF FlatOf
  <2> QED  BY <2>1, <2>2, <2>3, Zenon
<1> DEFINE Q == {n \in Nat : n + 1 \in 1..N => h[n + 1] \in T}
<1>11. \A n \in Nat : n \in Q
  <2>1. 0 \in Q
    <3> SUFFICES ASSUME 1 \in 1..N PROVE h[1] \in T
      OBVIOUS
    <3>1. h[1] = p[1]
      BY <1>10 DEF FlatAt
    <3> QED  BY <1>1, <3>1
  <2>2. ASSUME NEW n \in Nat, n \in Q PROVE n + 1 \in Q
    <3> SUFFICES ASSUME (n + 1) + 1 \in 1..N PROVE h[(n + 1) + 1] \in T
      BY <2>2
    <3>1. PICK m \in 1..N : m = (n + 1) + 1 /\ m # 1 /\ m - 1 = n + 1 /\ m - 1 \in 1..N
      BY <2>2, <1>1
    <3>2. h[m] = h[m - 1] \o p[m]
      BY <1>10, <3>1 DEF FlatAt
    <3>3. h[m - 1] \in T /\ p[m] \in T
      BY <2>2, <3>1, <1>1
    <3>4. h[m - 1] \o p[m] \in T
      BY <3>3
    <3> QED  BY <3>1, <3>2, <3>4
  <2> HIDE DEF Q
  <2> QED  BY <2>1, <2>2, SetInduction
<1>12. \A i \in 1..N : h[i] \in T
  <2> SUFFICES ASSUME NEW i \in 1..N PROVE h[i] \in T
    OBVIOUS
  <2>1. i - 1 \in Nat /\ (i - 1) + 1 = i
    BY <1>1
  <2> QED  BY <1>11, <2>1
<1> QED  BY <1>9, <1>10, <1>12

\* A sequence of one more piece is flattened to what it was and the piece.
LEMMA FlattenAppend ==
  ASSUME NEW S, NEW p \in Seq(Seq(S)), NEW x \in Seq(S)
  PROVE  /\ FlattenSeq(Append(p, x)) = FlattenSeq(p) \o x
         /\ FlattenSeq(p) \in Seq(S)
<1>1. PICK q : q = Append(p, x)
  OBVIOUS
<1>2. PICK n : n = Len(p)
  OBVIOUS
<1>3. /\ n \in Nat /\ q \in Seq(Seq(S)) /\ Len(q) = n + 1 /\ q[n + 1] = x
      /\ \A i \in 1..n : q[i] = p[i] /\ p[i] \in Seq(S)
  BY <1>1, <1>2
<1>4. PICK f : f = Flat(p)
  OBVIOUS
<1>5. PICK g : g = Flat(q)
  OBVIOUS
<1>6. \A i \in 1..n : f[i] = FlatAt(p, f, i) /\ f[i] \in Seq(S)
  BY <1>2, <1>4, FlatExists
<1>7. \A i \in 1..(n + 1) : g[i] = FlatAt(q, g, i) /\ g[i] \in Seq(S)
  BY <1>3, <1>5, FlatExists
<1> DEFINE Q == {k \in Nat : k + 1 \in 1..n => g[k + 1] = f[k + 1]}
<1>8. \A k \in Nat : k \in Q
  <2>1. 0 \in Q
    BY <1>3, <1>6, <1>7 DEF FlatAt
  <2>2. ASSUME NEW k \in Nat, k \in Q PROVE k + 1 \in Q
    <3> SUFFICES ASSUME (k + 1) + 1 \in 1..n PROVE g[(k + 1) + 1] = f[(k + 1) + 1]
      BY <2>2
    <3>1. PICK m \in 1..n : m = (k + 1) + 1 /\ m # 1 /\ m - 1 = k + 1 /\ m - 1 \in 1..n
                            /\ m \in 1..(n + 1)
      BY <2>2, <1>3
    <3>2. g[m] = g[m - 1] \o q[m] /\ f[m] = f[m - 1] \o p[m]
      BY <1>6, <1>7, <3>1 DEF FlatAt
    <3>3. g[m - 1] = f[m - 1] /\ q[m] = p[m]
      BY <2>2, <3>1, <1>3
    <3> QED  BY <3>1, <3>2, <3>3
  <2> HIDE DEF Q
  <2> QED  BY <2>1, <2>2, SetInduction
<1>9. FlattenSeq(p) = IF n = 0 THEN <<>> ELSE f[n]
  BY <1>2, <1>4, FlattenIsFlat
<1>10. FlattenSeq(q) = g[n + 1]
  BY <1>3, <1>5, FlattenIsFlat
<1>11. CASE n = 0
  <2>1. g[n + 1] = x /\ <<>> \o x = x
    BY <1>3, <1>7, <1>11 DEF FlatAt
  <2> QED  BY <1>1, <1>9, <1>10, <1>11, <2>1
<1>12. CASE n # 0
  <2>1. n \in 1..n /\ n - 1 \in Nat /\ (n - 1) + 1 = n /\ n + 1 # 1 /\ (n + 1) - 1 = n
        /\ n + 1 \in 1..(n + 1)
    BY <1>3, <1>12
  <2>2. g[n + 1] = g[n] \o x
    BY <1>3, <1>7, <2>1 DEF FlatAt
  <2>3. g[n] = f[n] /\ f[n] \in Seq(S)
    BY <1>6, <1>8, <2>1
  <2> QED  BY <1>1, <1>9, <1>10, <1>12, <2>2, <2>3
<1> QED  BY <1>3, <1>11, <1>12

-----------------------------------------------------------------------------
(* Line endings *)

EndsCr(s) == Len(s) > 0 /\ s[Len(s)] = "CR"

LineBreak == <<"CR", "LF">>

\* What a byte shows when it does not belong to the line ending before it.
Shows(b) == IF b = "x" THEN <<b>> ELSE LineBreak

LinePieces(s) == [i \in 1..Len(s) |-> LinePiece(s, i)]

\* The pieces are short texts.
LEMMA LinePieceType ==
  ASSUME NEW s \in Seq(Chars)
  PROVE  LinePieces(s) \in Seq(Seq(Chars)) /\ Lines(s) = FlattenSeq(LinePieces(s))
<1>1. \A i \in 1..Len(s) : s[i] \in Chars
  OBVIOUS
<1>2. <<>> \in Seq(Chars) /\ LineBreak \in Seq(Chars) /\ \A c \in Chars : <<c>> \in Seq(Chars)
  BY DEF LineBreak, Chars
<1>3. \A i \in 1..Len(s) : LinePiece(s, i) \in Seq(Chars)
  BY <1>1, <1>2 DEF LinePiece, LineBreak
<1> QED  BY <1>3 DEF LinePieces, Lines

\* A piece looks one byte ahead, no further.
LEMMA LinePieceLocal ==
  ASSUME NEW s \in Seq(Chars), NEW b \in Chars, NEW i \in 1..Len(s),
         i < Len(s) \/ s[i] # "CR" \/ b # "LF"
  PROVE  LinePiece(Append(s, b), i) = LinePiece(s, i)
<1>1. PICK t : t = Append(s, b)
  OBVIOUS
<1>2. Len(t) = Len(s) + 1 /\ t[i] = s[i] /\ (i < Len(s) => t[i + 1] = s[i + 1])
      /\ (i = Len(s) => t[i + 1] = b) /\ i < Len(t) /\ i <= Len(s)
  BY <1>1
<1>3. LinePiece(t, i) = LinePiece(s, i)
  <2>1. CASE i < Len(s)
    BY <1>2, <2>1 DEF LinePiece
  <2>2. CASE i = Len(s)
    BY <1>2, <2>2 DEF LinePiece
  <2> QED  BY <1>2, <2>1, <2>2
<1> QED  BY <1>1, <1>3

\* Text that grows by a byte shows one more piece, unless the byte is the
\* line feed of a line ending already shown.
LEMMA LinesAppend ==
  ASSUME NEW s \in Seq(Chars), NEW b \in Chars
  PROVE  /\ Lines(s) \in Seq(Chars)
         /\ EndsCr(s) /\ b = "LF" => Lines(Append(s, b)) = Lines(s)
         /\ ~(EndsCr(s) /\ b = "LF") => Lines(Append(s, b)) = Lines(s) \o Shows(b)
<1>1. PICK t : t = Append(s, b)
  OBVIOUS
<1>2. PICK n : n = Len(s)
  OBVIOUS
<1>3. n \in Nat /\ t \in Seq(Chars) /\ Len(t) = n + 1 /\ t[n + 1] = b
      /\ \A i \in 1..n : t[i] = s[i]
  BY <1>1, <1>2
<1>4. PICK p : p = LinePieces(s)
  OBVIOUS
<1>5. PICK q : q = LinePieces(t)
  OBVIOUS
<1>6. /\ p \in Seq(Seq(Chars)) /\ Lines(s) = FlattenSeq(p)
      /\ q \in Seq(Seq(Chars)) /\ Lines(t) = FlattenSeq(q)
  BY <1>3, <1>4, <1>5, LinePieceType
<1>7. /\ Len(p) = n /\ \A i \in 1..n : p[i] = LinePiece(s, i)
      /\ Len(q) = n + 1 /\ \A i \in 1..(n + 1) : q[i] = LinePiece(t, i)
  BY <1>2, <1>3, <1>4, <1>5 DEF LinePieces
<1>8. q[n + 1] = Shows(b) /\ Shows(b) \in Seq(Chars)
  <2>1. LinePiece(t, n + 1) = Shows(b)
    BY <1>3 DEF LinePiece, Shows, LineBreak, Chars
  <2>2. n + 1 \in 1..(n + 1)
    BY <1>3
  <2>3. Shows(b) \in Seq(Chars)
    <3>1. <<b>> \in Seq(Chars) /\ LineBreak \in Seq(Chars)
      BY DEF LineBreak, Chars
    <3> QED  BY <3>1 DEF Shows
  <2> QED  BY <1>7, <2>1, <2>2, <2>3
<1>9. Lines(s) \in Seq(Chars)
  BY <1>6, <1>8, FlattenAppend
<1>10. CASE ~(EndsCr(s) /\ b = "LF")
  <2>1. \A i \in 1..n : q[i] = p[i]
    <3> SUFFICES ASSUME NEW i \in 1..n PROVE q[i] = p[i]
      OBVIOUS
    <3>1. i < n \/ s[i] # "CR" \/ b # "LF"
      BY <1>2, <1>3, <1>10 DEF EndsCr
    <3>2. LinePiece(t, i) = LinePiece(s, i)
      BY <1>1, <1>2, <3>1, LinePieceLocal
    <3>3. i \in 1..(n + 1)
      BY <1>3
    <3> QED  BY <1>7, <3>2, <3>3
  <2>2. q = Append(p, Shows(b))
    BY <1>3, <1>6, <1>7, <1>8, <2>1
  <2>3. FlattenSeq(q) = FlattenSeq(p) \o Shows(b)
    BY <1>6, <1>8, <2>2, FlattenAppend
  <2> QED  BY <1>1, <1>6, <1>9, <1>10, <2>3
<1>11. CASE EndsCr(s) /\ b = "LF"
  <2>1. n > 0 /\ s[n] = "CR" /\ n \in 1..n /\ n \in 1..(n + 1)
    BY <1>2, <1>3, <1>11 DEF EndsCr
  <2>2. PICK r : r = SubSeq(p, 1, n - 1)
    OBVIOUS
  <2>3. r \in Seq(Seq(Chars)) /\ Len(r) = n - 1 /\ \A i \in 1..(n - 1) : r[i] = p[i]
    BY <1>3, <1>6, <1>7, <2>1, <2>2
  <2>4. p[n] = LineBreak /\ q[n] = <<>>
    <3>1. LinePiece(s, n) = LineBreak
      BY <1>2, <2>1 DEF LinePiece, LineBreak
    <3>2. LinePiece(t, n) = <<>>
      BY <1>3, <1>11, <2>1 DEF LinePiece
    <3> QED  BY <1>7, <2>1, <3>1, <3>2
  <2>5. p = Append(r, LineBreak)
    <3>1. \A i \in 1..n : i \in 1..(n - 1) \/ i = n
      BY <1>3
    <3>2. LineBreak \in Seq(Chars)
      BY DEF LineBreak, Chars
    <3>3. PICK w : w = Append(r, LineBreak)
      OBVIOUS
    <3>4. w \in Seq(Seq(Chars)) /\ Len(w) = n /\ w[n] = LineBreak
          /\ \A i \in 1..(n - 1) : w[i] = r[i]
      BY <1>3, <2>1, <2>3, <3>2, <3>3
    <3>5. \A i \in 1..n : w[i] = p[i]
      BY <2>3, <2>4, <3>1, <3>4
    <3>6. w = p
      <4>1. w = [i \in 1..n |-> w[i]] /\ p = [i \in 1..n |-> p[i]]
        BY <1>6, <1>7, <3>4
      <4>2. [i \in 1..n |-> w[i]] = [i \in 1..n |-> p[i]]
        BY <3>5, Zenon
      <4> QED  BY <4>1, <4>2, Zenon
    <3> QED  BY <3>3, <3>6, Zenon
  <2>6. \A i \in 1..(n - 1) : q[i] = r[i]
    <3> SUFFICES ASSUME NEW i \in 1..(n - 1) PROVE q[i] = r[i]
      OBVIOUS
    <3>1. i < n /\ i \in 1..n /\ i \in 1..(n + 1)
      BY <1>3
    <3>2. LinePiece(t, i) = LinePiece(s, i)
      BY <1>1, <1>2, <3>1, LinePieceLocal
    <3> QED  BY <1>7, <2>3, <3>1, <3>2
  <2>7. Shows(b) = LineBreak /\ LineBreak \in Seq(Chars) /\ <<>> \in Seq(Chars)
    BY <1>11 DEF Shows, LineBreak, Chars
  <2>8. PICK u : u = Append(r, <<>>)
    OBVIOUS
  <2>9. u \in Seq(Seq(Chars)) /\ Len(u) = n /\ u[n] = <<>> /\ \A i \in 1..(n - 1) : u[i] = r[i]
    BY <2>1, <2>3, <2>7, <2>8, <1>3
  <2>10. q = Append(u, LineBreak)
    <3>1. \A i \in 1..n : i \in 1..(n - 1) \/ i = n
      BY <1>3
    <3>2. \A i \in 1..n : q[i] = u[i]
      BY <2>4, <2>6, <2>9, <3>1
    <3>3. PICK w : w = Append(u, LineBreak)
      OBVIOUS
    <3>4. w \in Seq(Seq(Chars)) /\ Len(w) = n + 1 /\ w[n + 1] = LineBreak
          /\ \A i \in 1..n : w[i] = u[i]
      BY <1>3, <2>7, <2>9, <3>3
    <3>5. \A i \in 1..(n + 1) : i \in 1..n \/ i = n + 1
      BY <1>3
    <3>6. \A i \in 1..(n + 1) : w[i] = q[i]
      BY <1>8, <2>7, <3>2, <3>4, <3>5
    <3>7. w = [i \in 1..(n + 1) |-> w[i]] /\ q = [i \in 1..(n + 1) |-> q[i]]
      BY <1>6, <1>7, <3>4
    <3>8. [i \in 1..(n + 1) |-> w[i]] = [i \in 1..(n + 1) |-> q[i]]
      BY <3>6, Zenon
    <3> QED  BY <3>3, <3>7, <3>8, Zenon
  <2>11. FlattenSeq(p) = FlattenSeq(r) \o LineBreak /\ FlattenSeq(r) \in Seq(Chars)
    BY <2>3, <2>5, <2>7, FlattenAppend
  <2>12. FlattenSeq(u) = FlattenSeq(r) \o <<>>
    BY <2>3, <2>7, <2>8, FlattenAppend
  <2>13. FlattenSeq(q) = FlattenSeq(u) \o LineBreak
    BY <2>7, <2>9, <2>10, FlattenAppend
  <2>14. FlattenSeq(r) \o <<>> = FlattenSeq(r)
    BY <2>11
  <2> QED  BY <1>1, <1>6, <1>9, <1>11, <2>11, <2>12, <2>13, <2>14
<1> QED  BY <1>9, <1>10, <1>11

NormStates == [hadCr : BOOLEAN, out : Seq(Chars)]

\* A byte takes the filter from state to state.
LEMMA NormalizeType ==
  ASSUME NEW st \in NormStates, NEW b \in Chars
  PROVE  NormalizeByte(st, b) \in NormStates
<1>1. st.out \in Seq(Chars) /\ <<>> \in Seq(Chars) /\ <<"CR", "LF">> \in Seq(Chars)
      /\ <<b>> \in Seq(Chars)
  BY DEF NormStates, Chars
<1>2. PICK d \in Seq(Chars) : d = IF st.hadCr THEN <<"CR", "LF">> ELSE <<>>
  BY <1>1
<1>3. /\ st.out \o d \in Seq(Chars) /\ st.out \o <<"CR", "LF">> \in Seq(Chars)
      /\ (st.out \o d) \o <<b>> \in Seq(Chars)
  BY <1>1
<1> QED  BY <1>2, <1>3 DEF NormalizeByte, NormStates

\* The recursion behind the loop over a chunk, and its solution.
NormAt(c, st, f, A) == IF A = {} THEN st ELSE NormalizeByte(f[A \ {Max(A)}], c[Max(A)])

NormOf(c, st, f) == [A \in SUBSET (1..Len(c)) |-> NormAt(c, st, f, A)]

Norm(c, st) == CHOOSE f : f = NormOf(c, st, f)

\* normalize_line_endings goes through the bytes of a chunk in their order.
LEMMA NormalizeRun ==
  ASSUME NEW c \in Seq(Chars), NEW st \in NormStates
  PROVE  \E r \in [0..Len(c) -> NormStates] :
           /\ r[0] = st
           /\ \A i \in 1..Len(c) : r[i] = NormalizeByte(r[i - 1], c[i])
           /\ FoldLeft(NormalizeByte, st, c) = r[Len(c)]
<1> DEFINE N == Len(c)
           T == NormStates
           pick == [A \in SUBSET (1..N) |-> Max(A)]
           step == [x \in 1..N |-> [t \in T |-> NormalizeByte(t, c[x])]]
<1>1. N \in Nat /\ st \in T /\ DOMAIN c = 1..N /\ \A i \in 1..N : c[i] \in Chars
  OBVIOUS
<1>2. FoldLeft(NormalizeByte, st, c) = Norm(c, st)[1..N]
  BY <1>1, SMT DEF FoldLeft, MapThenFoldSet, Norm, NormOf, NormAt
<1>3. Picks(pick, N)
  BY <1>1, MaxIn DEF Picks
<1>4. \A x \in 1..N, t \in T :
        step[x][t] = NormalizeByte(t, c[x]) /\ NormalizeByte(t, c[x]) \in T
  BY <1>1, NormalizeType
<1>5. Combines(step, N, T)
  BY <1>4 DEF Combines
<1>6. PICK f \in [SUBSET (1..N) -> T] : Folds(f, st, pick, step, N)
  <2> HIDE DEF N, T, pick, step
  <2> QED  BY <1>1, <1>3, <1>5, FoldExists
<1>7. \A A \in SUBSET (1..N) : f[A] = NormAt(c, st, f, A)
  <2> SUFFICES ASSUME NEW A \in SUBSET (1..N) PROVE f[A] = NormAt(c, st, f, A)
    OBVIOUS
  <2>1. CASE A = {}
    BY <1>6, <2>1 DEF Folds, NormAt
  <2>2. CASE A # {}
    <3>1. pick[A] = Max(A) /\ Max(A) \in A /\ A \ {Max(A)} \in SUBSET (1..N) /\ Max(A) \in 1..N
      BY <1>1, <2>2, MaxIn
    <3>2. f[A] = step[pick[A]][f[A \ {pick[A]}]]
      <4> HIDE DEF pick, step
      <4> QED  BY <1>6, <2>2 DEF Folds
    <3>3. f[A \ {Max(A)}] \in T
      BY <3>1
    <3>4. f[A] = NormalizeByte(f[A \ {Max(A)}], c[Max(A)])
      <4> HIDE DEF pick, step, T, N
      <4> QED  BY <1>4, <3>1, <3>2, <3>3
    <3> QED  BY <2>2, <3>4 DEF NormAt
  <2> QED  BY <2>1, <2>2
<1>8. f = NormOf(c, st, f)
  <2>1. f = [A \in SUBSET (1..N) |-> f[A]]
    OBVIOUS
  <2>2. [A \in SUBSET (1..N) |-> f[A]] = [A \in SUBSET (1..N) |-> NormAt(c, st, f, A)]
    BY <1>7, Zenon
  <2> QED  BY <2>1, <2>2, Zenon DEF NormOf
<1>9. Norm(c, st) = NormOf(c, st, Norm(c, st))
  BY <1>8, Zenon DEF Norm
<1>10. PICK F : F = Norm(c, st)
  OBVIOUS
<1>11. \A A \in SUBSET (1..N) : F[A] = NormAt(c, st, F, A)
  <2>1. PICK h : h = NormOf(c, st, F)
    OBVIOUS
  <2>2. \A A \in SUBSET (1..N) : h[A] = NormAt(c, st, F, A)
    BY <2>1 DEF NormOf
  <2>3. F = h
    BY <1>9, <1>10, <2>1, Zenon
  <2> QED  BY <2>2, <2>3, Zenon
<1>12. PICK r : r = [i \in 0..N |-> F[1..i]]
  OBVIOUS
<1>13. \A i \in 0..N : r[i] = F[1..i] /\ 1..i \in SUBSET (1..N)
  BY <1>1, <1>12
<1>14. r[0] = st
  <2>1. 1..0 = {} /\ 0 \in 0..N
    BY <1>1
  <2>2. F[{}] = st
    BY <1>11 DEF NormAt
  <2> QED  BY <1>13, <2>1, <2>2
<1>15. ASSUME NEW i \in 1..N PROVE r[i] = NormalizeByte(r[i - 1], c[i])
  <2>1. i - 1 \in Nat /\ (i - 1) + 1 = i /\ i \in 0..N /\ i - 1 \in 0..N
    BY <1>1
  <2>2. Max(1..i) = i /\ (1..i) \ {i} = 1..(i - 1)
    BY <2>1, MaxOfInterval
  <2>3. 1..i \in SUBSET (1..N) /\ 1..i # {}
    BY <1>1
  <2>4. F[1..i] = NormalizeByte(F[1..(i - 1)], c[i])
    BY <1>11, <2>2, <2>3 DEF NormAt
  <2> QED  BY <1>13, <2>1, <2>4
<1>16. r \in [0..N -> T]
  <2> DEFINE Q == {n \in Nat : n \in 0..N => r[n] \in T}
  <2>1. 0 \in Q
    BY <1>14
  <2>2. ASSUME NEW n \in Nat, n \in Q PROVE n + 1 \in Q
    <3> SUFFICES ASSUME n + 1 \in 0..N PROVE r[n + 1] \in T
      OBVIOUS
    <3>1. PICK m \in 1..N : m = n + 1 /\ m - 1 = n /\ n \in 0..N
      BY <1>1
    <3>2. r[n] \in T /\ c[m] \in Chars
      BY <1>1, <2>2, <3>1
    <3> QED  BY <1>15, <3>1, <3>2, NormalizeType
  <2>3. \A n \in Nat : n \in Q
    <3> HIDE DEF Q
    <3> QED  BY <2>1, <2>2, SetInduction
  <2>4. \A i \in 0..N : r[i] \in T
    BY <2>3
  <2> QED  BY <1>12, <2>4
<1>17. FoldLeft(NormalizeByte, st, c) = r[N]
  BY <1>1, <1>2, <1>10, <1>13
<1> QED  BY <1>14, <1>15, <1>16, <1>17

Regroups(a, b, c) == (a \o b) \o c = a \o (b \o c)

\* Appending is associative.
LEMMA ConcatChars == \A a, b, c \in Seq(Chars) : Regroups(a, b, c)
BY ConcatAssociative DEF Regroups

\* The line ending a carriage return at the end of the text still owes.
Due(st) == IF st.hadCr THEN LineBreak ELSE <<>>

\* After text s, of which sh was shown before this chunk, the filter is in
\* state st.
KeepsUp(st, sh, s) ==
  /\ st.hadCr <=> EndsCr(s)
  /\ (sh \o st.out) \o Due(st) = Lines(s)

\* One byte of the filter keeps up with the text.
LEMMA NormalizeLines ==
  ASSUME NEW s \in Seq(Chars), NEW b \in Chars, NEW st \in NormStates, NEW sh \in Seq(Chars),
         KeepsUp(st, sh, s)
  PROVE  KeepsUp(NormalizeByte(st, b), sh, Append(s, b))
<1>1. EndsCr(Append(s, b)) <=> b = "CR"
  BY DEF EndsCr
<1>2. PICK o \in Seq(Chars) : o = st.out
  BY DEF NormStates
<1>3. PICK d \in Seq(Chars) : d = Due(st)
  <2>1. LineBreak \in Seq(Chars) /\ <<>> \in Seq(Chars)
    BY DEF LineBreak, Chars
  <2> QED  BY <2>1, Zenon DEF Due
<1>4. LineBreak \in Seq(Chars) /\ <<b>> \in Seq(Chars) /\ <<>> \in Seq(Chars)
      /\ o \o d \in Seq(Chars) /\ sh \o o \in Seq(Chars)
  BY DEF LineBreak, Chars
<1>5. (sh \o o) \o d = Lines(s)
  BY <1>2, <1>3 DEF KeepsUp
<1>6. sh \o (o \o d) = Lines(s)
  <2>1. Regroups(sh, o, d)
    BY ConcatChars, Zenon
  <2> QED  BY <1>5, <2>1, Zenon DEF Regroups
<1>7. PICK nx : nx = NormalizeByte(st, b)
  OBVIOUS
<1>8. CASE b = "CR"
  <2>1. nx = [hadCr |-> TRUE, out |-> o \o d]
    BY <1>2, <1>3, <1>7, <1>8 DEF NormalizeByte, Due, LineBreak
  <2>2. nx.hadCr = TRUE /\ nx.out = o \o d /\ Due(nx) = LineBreak
    BY <2>1 DEF Due
  <2>3. Lines(Append(s, b)) = Lines(s) \o LineBreak
    BY <1>8, LinesAppend DEF Shows
  <2>4. (sh \o nx.out) \o Due(nx) = Lines(Append(s, b))
    BY <1>6, <2>2, <2>3, Zenon
  <2> QED  BY <1>1, <1>7, <1>8, <2>2, <2>4, Zenon DEF KeepsUp
<1>9. CASE b = "LF"
  <2>1. nx = [hadCr |-> FALSE, out |-> o \o LineBreak]
    BY <1>2, <1>3, <1>7, <1>9 DEF NormalizeByte, LineBreak
  <2>2. nx.hadCr = FALSE /\ nx.out = o \o LineBreak /\ Due(nx) = <<>>
    BY <2>1 DEF Due
  <2>3. (sh \o (o \o LineBreak)) \o <<>> = (sh \o o) \o LineBreak
    <3>1. Regroups(sh, o, LineBreak)
      BY <1>4, ConcatChars, Zenon
    <3>2. (sh \o (o \o LineBreak)) \o <<>> = sh \o (o \o LineBreak)
      BY <1>4
    <3> QED  BY <3>1, <3>2, Zenon DEF Regroups
  <2>4. (sh \o nx.out) \o Due(nx) = Lines(Append(s, b))
    <3>1. (sh \o nx.out) \o Due(nx) = (sh \o o) \o LineBreak
      BY <2>2, <2>3, Zenon
    <3>2. CASE st.hadCr
      <4>1. d = LineBreak
        BY <1>3, <3>2 DEF Due
      <4>2. EndsCr(s)
        BY <3>2 DEF KeepsUp
      <4>3. Lines(Append(s, b)) = Lines(s)
        BY <1>9, <4>2, LinesAppend
      <4> QED  BY <1>5, <3>1, <4>1, <4>3, Zenon
    <3>3. CASE ~st.hadCr
      <4>1. d = <<>> /\ (sh \o o) \o <<>> = sh \o o
        BY <1>3, <1>4, <3>3 DEF Due
      <4>2. ~EndsCr(s)
        BY <3>3 DEF KeepsUp
      <4>3. Lines(Append(s, b)) = Lines(s) \o LineBreak
        BY <1>9, <4>2, LinesAppend DEF Shows
      <4> QED  BY <1>5, <3>1, <4>1, <4>3, Zenon
    <3> QED  BY <3>2, <3>3
  <2> QED  BY <1>1, <1>7, <1>9, <2>2, <2>4, Zenon DEF KeepsUp
<1>10. CASE b = "x"
  <2>1. nx = [hadCr |-> FALSE, out |-> (o \o d) \o <<b>>]
    BY <1>2, <1>3, <1>7, <1>10 DEF NormalizeByte, Due, LineBreak
  <2>2. nx.hadCr = FALSE /\ nx.out = (o \o d) \o <<b>> /\ Due(nx) = <<>>
    BY <2>1 DEF Due
  <2>3. sh \o ((o \o d) \o <<b>>) = (sh \o (o \o d)) \o <<b>>
    <3>1. Regroups(sh, o \o d, <<b>>)
      BY <1>4, ConcatChars, Zenon
    <3> QED  BY <3>1, Zenon DEF Regroups
  <2>4. (sh \o ((o \o d) \o <<b>>)) \o <<>> = sh \o ((o \o d) \o <<b>>)
    BY <1>4
  <2>5. Lines(Append(s, b)) = Lines(s) \o <<b>>
    BY <1>10, LinesAppend DEF Shows
  <2>6. (sh \o nx.out) \o Due(nx) = Lines(Append(s, b))
    BY <1>6, <2>2, <2>3, <2>4, <2>5, Zenon
  <2> QED  BY <1>1, <1>7, <1>10, <2>2, <2>6, Zenon DEF KeepsUp
<1> QED  BY <1>8, <1>9, <1>10 DEF Chars

\* The last byte of the second text is the last of both.
LEMMA ConcatAppend ==
  ASSUME NEW S, NEW a \in Seq(S), NEW d \in Seq(S), NEW x \in S
  PROVE  a \o Append(d, x) = Append(a \o d, x)
<1>1. Append(d, x) = d \o <<x>> /\ <<x>> \in Seq(S)
  OBVIOUS
<1>2. (a \o d) \o <<x>> = a \o (d \o <<x>>)
  BY <1>1, ConcatAssociative
<1>3. a \o d \in Seq(S)
  BY ConcatProperties
<1>4. Append(a \o d, x) = (a \o d) \o <<x>>
  <2>1. \A w \in Seq(S) : Append(w, x) = w \o <<x>>
    OBVIOUS
  <2> QED  BY <1>3, <2>1
<1> QED  BY <1>1, <1>2, <1>4, Zenon

UpTo(s, c, i) == s \o SubSeq(c, 1, i)

\* The first bytes of a chunk, after what came before it.
LEMMA UpToStep ==
  ASSUME NEW S, NEW s \in Seq(S), NEW c \in Seq(S)
  PROVE  /\ UpTo(s, c, 0) = s
         /\ UpTo(s, c, Len(c)) = s \o c
         /\ \A i \in 0..Len(c) : UpTo(s, c, i) \in Seq(S)
         /\ \A i \in 1..Len(c) : UpTo(s, c, i) = Append(UpTo(s, c, i - 1), c[i])
<1>1. SubSeq(c, 1, 0) = <<>> /\ SubSeq(c, 1, Len(c)) = c
  OBVIOUS
<1>2. \A i \in 0..Len(c) : SubSeq(c, 1, i) \in Seq(S)
  OBVIOUS
<1>3. ASSUME NEW i \in 1..Len(c) PROVE UpTo(s, c, i) = Append(UpTo(s, c, i - 1), c[i])
  <2>1. i \in 0..Len(c) /\ i - 1 \in 0..Len(c)
    OBVIOUS
  <2>2. PICK d \in Seq(S) : d = SubSeq(c, 1, i - 1)
    BY <1>2, <2>1
  <2>3. Len(d) = i - 1 /\ \A j \in 1..(i - 1) : d[j] = c[j]
    BY <2>2
  <2>4. PICK e \in Seq(S) : e = SubSeq(c, 1, i)
    BY <1>2, <2>1
  <2>5. Len(e) = i /\ \A j \in 1..i : e[j] = c[j]
    BY <2>4
  <2>6. \A j \in 1..i : j \in 1..(i - 1) \/ j = i
    OBVIOUS
  <2>7. e = Append(d, c[i])
    BY <2>3, <2>5, <2>6
  <2>8. s \o Append(d, c[i]) = Append(s \o d, c[i])
    BY ConcatAppend
  <2> QED  BY <2>2, <2>4, <2>7, <2>8 DEF UpTo
<1>4. UpTo(s, c, 0) = s
  <2>1. s \o <<>> = s
    OBVIOUS
  <2> QED  BY <1>1, <2>1, Zenon DEF UpTo
<1>5. UpTo(s, c, Len(c)) = s \o c
  BY <1>1, Zenon DEF UpTo
<1>6. ASSUME NEW i \in 0..Len(c) PROVE UpTo(s, c, i) \in Seq(S)
  <2>1. PICK d \in Seq(S) : d = SubSeq(c, 1, i)
    BY <1>2
  <2>2. s \o d \in Seq(S)
    BY ConcatProperties
  <2> QED  BY <2>1, <2>2, Zenon DEF UpTo
<1> QED  BY <1>3, <1>4, <1>5, <1>6

\* The same for what the socket delivers.
LEMMA UpToChars ==
  ASSUME NEW s \in Seq(Chars), NEW c \in Seq(Chars)
  PROVE  /\ UpTo(s, c, 0) = s
         /\ UpTo(s, c, Len(c)) = s \o c
         /\ \A i \in 0..Len(c) : UpTo(s, c, i) \in Seq(Chars)
         /\ \A i \in 1..Len(c) : UpTo(s, c, i) = Append(UpTo(s, c, i - 1), c[i])
<1>1. UpTo(s, c, 0) = s
  BY UpToStep
<1>2. UpTo(s, c, Len(c)) = s \o c
  BY UpToStep
<1>3. ASSUME NEW i \in 0..Len(c) PROVE UpTo(s, c, i) \in Seq(Chars)
  BY UpToStep
<1>4. ASSUME NEW i \in 1..Len(c) PROVE UpTo(s, c, i) = Append(UpTo(s, c, i - 1), c[i])
  BY UpToStep
<1> QED  BY <1>1, <1>2, <1>3, <1>4

\* A chunk keeps up with the text, wherever the read split the stream.
LEMMA ChunkLines ==
  ASSUME NEW s \in Seq(Chars), NEW c \in Seq(Chars), NEW sh \in Seq(Chars),
         NEW st \in NormStates, KeepsUp(st, sh, s)
  PROVE  /\ FoldLeft(NormalizeByte, st, c) \in NormStates
         /\ KeepsUp(FoldLeft(NormalizeByte, st, c), sh, s \o c)
<1>1. PICK nx : nx = FoldLeft(NormalizeByte, st, c)
  OBVIOUS
<1>2. PICK r \in [0..Len(c) -> NormStates] :
        /\ r[0] = st
        /\ \A i \in 1..Len(c) : r[i] = NormalizeByte(r[i - 1], c[i])
        /\ nx = r[Len(c)]
  BY <1>1, NormalizeRun
<1>3. /\ UpTo(s, c, 0) = s
      /\ UpTo(s, c, Len(c)) = s \o c
      /\ \A i \in 0..Len(c) : UpTo(s, c, i) \in Seq(Chars)
      /\ \A i \in 1..Len(c) : UpTo(s, c, i) = Append(UpTo(s, c, i - 1), c[i])
  BY UpToChars, Zenon
<1> DEFINE Q == {i \in Nat : i \in 0..Len(c) => KeepsUp(r[i], sh, UpTo(s, c, i))}
<1>4. 0 \in Q
  BY <1>2, <1>3
<1>5. ASSUME NEW i \in Nat, i \in Q PROVE i + 1 \in Q
  <2> SUFFICES ASSUME i + 1 \in 0..Len(c) PROVE KeepsUp(r[i + 1], sh, UpTo(s, c, i + 1))
    BY <1>5
  <2>1. i \in 0..Len(c) /\ i + 1 \in 1..Len(c) /\ (i + 1) - 1 = i
    BY <1>5
  <2>2. UpTo(s, c, i) \in Seq(Chars) /\ UpTo(s, c, i + 1) = Append(UpTo(s, c, i), c[i + 1])
    BY <1>3, <2>1
  <2>3. r[i + 1] = NormalizeByte(r[i], c[i + 1]) /\ r[i] \in NormStates /\ c[i + 1] \in Chars
    <3>1. PICK m \in 1..Len(c) : m = i + 1 /\ m - 1 = i
      BY <2>1
    <3>2. r[m] = NormalizeByte(r[m - 1], c[m])
      BY <1>2, Zenon
    <3>3. r[i] \in NormStates
      BY <2>1
    <3>4. c[m] \in Chars
      OBVIOUS
    <3> QED  BY <3>1, <3>2, <3>3, <3>4, Zenon
  <2>4. KeepsUp(r[i], sh, UpTo(s, c, i))
    BY <1>5, <2>1
  <2> QED  BY <2>2, <2>3, <2>4, NormalizeLines, Zenon
<1>6. \A i \in Nat : i \in Q
  <2> HIDE DEF Q
  <2> QED  BY <1>4, <1>5, SetInduction
<1>7. KeepsUp(r[Len(c)], sh, UpTo(s, c, Len(c))) /\ UpTo(s, c, Len(c)) = s \o c
  <2>1. Len(c) \in Nat /\ Len(c) \in 0..Len(c)
    OBVIOUS
  <2>2. KeepsUp(r[Len(c)], sh, UpTo(s, c, Len(c)))
    BY <1>6, <2>1
  <2> QED  BY <1>3, <2>2, Zenon
<1>8. nx \in NormStates
  BY <1>2
<1> QED  BY <1>1, <1>2, <1>7, <1>8, Zenon

\* What is appended to a text leaves it a prefix.
LEMMA PrefixOf ==
  ASSUME NEW S, NEW a \in Seq(S), NEW b \in Seq(S)
  PROVE  IsPrefix(a, a \o b)
<1>1. PICK t \in Seq(S) : t = a \o b
  <2>1. a \o b \in Seq(S)
    BY ConcatProperties
  <2> QED  BY <2>1, Zenon
<1>2. Len(a) \in Nat /\ Len(a) <= Len(t) /\ \A i \in 1..Len(a) : t[i] = a[i]
  BY <1>1
<1>3. SubSeq(a, 1, Len(a)) = a
  OBVIOUS
<1>4. SubSeq(t, 1, Len(a)) = a
  <2>1. PICK u \in Seq(S) : u = SubSeq(t, 1, Len(a))
    BY <1>2
  <2>2. Len(u) = Len(a) /\ \A i \in 1..Len(a) : u[i] = t[i]
    BY <1>2, <2>1
  <2>3. u = a
    BY <1>2, <2>2
  <2> QED  BY <2>1, <2>3
<1> QED  BY <1>1, <1>2, <1>3, <1>4 DEF IsPrefix

\* The same for what the socket delivers.
LEMMA PrefixChars == \A a, b \in Seq(Chars) : IsPrefix(a, a \o b)
BY PrefixOf

\* The state of sock_to_stdout: the flag says whether the text ends in a
\* carriage return, and stdout is complete but for the line ending of that.
ShownInv ==
  /\ translate \in BOOLEAN /\ hadCr \in BOOLEAN
  /\ rcvd \in Seq(Chars) /\ shown \in Seq(Chars)
  /\ hadCr <=> translate /\ EndsCr(rcvd)
  /\ LinesShown

\* A chunk is a text.
LEMMA ChunkType ==
  ASSUME NEW S, NEW c \in Chunks(S)
  PROVE  c \in Seq(S)
<1>1. PICK k \in 1..MaxChunk : c \in [1..k -> S]
  BY DEF Chunks
<1>2. k \in Nat
  BY TerminalAssumption
<1> QED  BY <1>1, <1>2

\* An empty text shows nothing.
LEMMA NoLines == Lines(<<>>) = <<>>
<1>1. LinePieces(<<>>) = <<>>
  BY DEF LinePieces
<1>2. FlattenSeq(<<>>) = <<>>
  BY DEF FlattenSeq
<1>3. <<>> \in Seq(Chars)
  OBVIOUS
<1> QED  BY <1>1, <1>2, <1>3, LinePieceType

\* ShownInv holds at the start.
LEMMA ShownInit == Init => ShownInv
<1> SUFFICES ASSUME Init PROVE ShownInv
  OBVIOUS
<1>1. /\ translate \in BOOLEAN /\ hadCr = FALSE /\ rcvd = <<>> /\ shown = <<>>
  BY DEF Init
<1>2. <<>> \in Seq(Chars) /\ IsPrefix(<<>>, <<>>) /\ <<>> \o <<>> = <<>>
  BY DEF IsPrefix
<1>3. ~EndsCr(<<>>)
  BY DEF EndsCr
<1>4. LinesShown
  BY <1>1, <1>2, NoLines DEF LinesShown
<1> QED  BY <1>1, <1>2, <1>3, <1>4 DEF ShownInv

\* A round of sock_to_stdout in translating mode.
LEMMA TranslatedChunk ==
  ASSUME ShownInv, translate, sockPump = "run",
         NEW c \in Seq(Chars), NEW st,
         st = FoldLeft(NormalizeByte, [hadCr |-> hadCr, out |-> <<>>], c)
  PROVE  /\ st \in NormStates
         /\ KeepsUp(st, shown, rcvd \o c)
<1>1. PICK s0 : s0 = [hadCr |-> hadCr, out |-> <<>>]
  OBVIOUS
<1>2. s0 \in NormStates /\ s0.hadCr = hadCr /\ s0.out = <<>>
  BY <1>1 DEF NormStates, ShownInv
<1>3. rcvd \in Seq(Chars) /\ shown \in Seq(Chars)
  BY DEF ShownInv
<1>4. KeepsUp(s0, shown, rcvd)
  <2>1. s0.hadCr <=> EndsCr(rcvd)
    BY <1>2 DEF ShownInv
  <2>2. shown \o (IF hadCr THEN <<"CR", "LF">> ELSE <<>>) = Lines(rcvd)
    BY DEF ShownInv, LinesShown
  <2>3. Due(s0) = IF hadCr THEN <<"CR", "LF">> ELSE <<>>
    BY <1>2, Zenon DEF Due, LineBreak
  <2>4. shown \o s0.out = shown
    BY <1>2, <1>3
  <2>5. (shown \o s0.out) \o Due(s0) = Lines(rcvd)
    BY <2>2, <2>3, <2>4, Zenon
  <2> QED  BY <2>1, <2>5 DEF KeepsUp
<1> QED  BY <1>1, <1>2, <1>3, <1>4, ChunkLines, Zenon

\* A round of sock_to_stdout keeps ShownInv.
LEMMA SockChunkShown == ShownInv /\ SockChunk => ShownInv'
<1> SUFFICES ASSUME ShownInv, SockChunk PROVE ShownInv'
  OBVIOUS
<1>1. PICK c \in Chunks(Chars), fails \in BOOLEAN :
        LET st == FoldLeft(NormalizeByte, [hadCr |-> hadCr, out |-> <<>>], c) IN
        /\ rcvd' = rcvd \o c
        /\ hadCr' = (translate /\ st.hadCr)
        /\ shown' = IF fails THEN shown
                    ELSE shown \o (IF translate THEN st.out ELSE c)
        /\ sockPump' = IF fails THEN "broken" ELSE "run"
  BY DEF SockChunk
<1>2. PICK st : st = FoldLeft(NormalizeByte, [hadCr |-> hadCr, out |-> <<>>], c)
  OBVIOUS
<1>3. /\ c \in Seq(Chars) /\ rcvd \in Seq(Chars) /\ shown \in Seq(Chars)
      /\ translate \in BOOLEAN /\ translate' = translate /\ sockPump = "run"
  BY ChunkType DEF ShownInv, SockChunk
<1>4. rcvd' = rcvd \o c /\ rcvd \o c \in Seq(Chars)
  BY <1>1, <1>3
<1>5. CASE translate
  <2>1. st \in NormStates /\ KeepsUp(st, shown, rcvd \o c)
    BY <1>2, <1>3, <1>5, TranslatedChunk
  <2>2. PICK o \in Seq(Chars) : o = st.out
    BY <2>1 DEF NormStates
  <2>3. PICK d \in Seq(Chars) : d = Due(st)
    <3>1. LineBreak \in Seq(Chars) /\ <<>> \in Seq(Chars)
      BY DEF LineBreak, Chars
    <3> QED  BY <3>1, Zenon DEF Due
  <2>4. hadCr' = (translate /\ st.hadCr)
    BY <1>1, <1>2, Zenon
  <2>5. hadCr' \in BOOLEAN /\ (hadCr' <=> st.hadCr) /\ (st.hadCr <=> EndsCr(rcvd'))
    BY <1>4, <1>5, <2>1, <2>4, Zenon DEF KeepsUp
  <2>6. shown' = IF fails THEN shown ELSE shown \o o
    BY <1>1, <1>2, <1>5, <2>2, Zenon
  <2>7. sockPump' = IF fails THEN "broken" ELSE "run"
    BY <1>1, Zenon
  <2>8. (shown \o o) \o d = Lines(rcvd')
    BY <1>4, <2>1, <2>2, <2>3, Zenon DEF KeepsUp
  <2>9. d = IF hadCr' THEN <<"CR", "LF">> ELSE <<>>
    BY <2>3, <2>5, Zenon DEF Due, LineBreak
  <2>10. IsPrefix(shown \o o, Lines(rcvd'))
    <3>1. shown \o o \in Seq(Chars)
      BY <1>3
    <3> QED  BY <2>8, <3>1, PrefixChars, Zenon
  <2>11. IsPrefix(shown, Lines(rcvd'))
    <3>1. Regroups(shown, o, d)
      BY <1>3, ConcatChars, Zenon
    <3>2. o \o d \in Seq(Chars)
      OBVIOUS
    <3>3. IsPrefix(shown, shown \o (o \o d))
      BY <1>3, <3>2, PrefixChars, Zenon
    <3> QED  BY <2>8, <3>1, <3>3, Zenon DEF Regroups
  <2>12. LinesShown'
    <3>1. CASE fails
      BY <1>3, <1>5, <2>6, <2>7, <2>11, <3>1 DEF LinesShown
    <3>2. CASE ~fails
      <4>1. shown' = shown \o o
        BY <2>6, <3>2
      <4>2. IsPrefix(shown', Lines(rcvd')) /\ shown' \o d = Lines(rcvd')
        BY <2>8, <2>10, <4>1, Zenon
      <4> QED  BY <1>3, <1>5, <2>9, <4>2 DEF LinesShown
    <3> QED  BY <3>1, <3>2
  <2>13. shown' \in Seq(Chars)
    BY <1>3, <2>6
  <2> QED  BY <1>3, <1>4, <1>5, <2>5, <2>12, <2>13 DEF ShownInv
<1>6. CASE ~translate
  <2>1. hadCr' = FALSE
    BY <1>1, <1>6
  <2>2. ~hadCr
    BY <1>6 DEF ShownInv
  <2>3. shown \o <<>> = shown /\ shown = rcvd
    BY <1>3, <1>6, <2>2 DEF ShownInv, LinesShown
  <2>4. shown' = IF fails THEN shown ELSE shown \o c
    BY <1>1, <1>6, Zenon
  <2>5. IsPrefix(rcvd, rcvd \o c) /\ IsPrefix(rcvd \o c, rcvd \o c)
    <3>1. (rcvd \o c) \o <<>> = rcvd \o c /\ <<>> \in Seq(Chars)
      BY <1>4
    <3> QED  BY <1>3, <1>4, <3>1, PrefixChars, Zenon
  <2>6. LinesShown'
    <3>1. CASE fails
      <4>1. sockPump' = "broken" /\ shown' = rcvd
        BY <1>1, <2>3, <2>4, <3>1
      <4> QED  BY <1>3, <1>4, <1>6, <2>5, <4>1 DEF LinesShown
    <3>2. CASE ~fails
      <4>1. shown' = rcvd' /\ IsPrefix(shown', rcvd')
        BY <1>4, <2>3, <2>4, <2>5, <3>2
      <4>2. shown' \o <<>> = rcvd'
        BY <1>4, <4>1
      <4> QED  BY <1>3, <1>6, <2>1, <4>1, <4>2 DEF LinesShown
    <3> QED  BY <3>1, <3>2
  <2>7. shown' \in Seq(Chars)
    BY <1>3, <2>4
  <2> QED  BY <1>3, <1>4, <1>6, <2>1, <2>6, <2>7 DEF ShownInv
<1> QED  BY <1>3, <1>5, <1>6

\* Nothing else that the client does touches stdout.
LEMMA ShownStep == ShownInv /\ [Next]_vars => ShownInv'
<1> SUFFICES ASSUME ShownInv, [Next]_vars PROVE ShownInv'
  OBVIOUS
<1>1. CASE SockChunk
  BY <1>1, SockChunkShown
<1>2. CASE SockEof
  BY <1>2 DEF SockEof, ShownInv, LinesShown
<1>3. CASE StdinChunk \/ StdinEof \/ ServerCloses \/ AttachReturns \/ UNCHANGED vars
  <2>1. UNCHANGED <<translate, rcvd, hadCr, shown, sockPump>>
    BY <1>3 DEF StdinChunk, StdinEof, ServerCloses, AttachReturns, vars, outVars
  <2> QED  BY <2>1 DEF ShownInv, LinesShown
<1> QED  BY <1>1, <1>2, <1>3 DEF Next

\* However the stream from the daemon is split into reads, stdout shows every
\* line ending once and every other byte (normalize_line_endings and its
\* had_cr flag).
THEOREM LinesAlwaysShown == Spec => []LinesShown
<1>1. ShownInv => LinesShown
  BY DEF ShownInv
<1> QED  BY <1>1, ShownInit, ShownStep, PTL DEF Spec

-----------------------------------------------------------------------------
(* Runs of Ctrl-A *)

\* k Ctrl-A, and no more, precede position i of s.
RunIs(s, i, k) ==
  /\ k \in 0..(i - 1)
  /\ \A j \in (i - k)..(i - 1) : s[j] = "^A"
  /\ i - k = 1 \/ s[i - k - 1] # "^A"

\* There is one such number.
LEMMA RunUnique ==
  ASSUME NEW s, NEW i \in Nat \ {0}, NEW k, NEW l, RunIs(s, i, k), RunIs(s, i, l)
  PROVE  k = l
<1>1. k \in Nat /\ l \in Nat /\ k <= i - 1 /\ l <= i - 1
  BY DEF RunIs
<1>2. ASSUME NEW a \in Nat, NEW b \in Nat, RunIs(s, i, a), RunIs(s, i, b), a < b PROVE FALSE
  <2>1. a <= i - 1 /\ b <= i - 1
    BY <1>2 DEF RunIs
  <2>2. i - a # 1 /\ i - a - 1 \in (i - b)..(i - 1)
    BY <1>2, <2>1
  <2> QED  BY <1>2, <2>2 DEF RunIs
<1>3. k < l \/ l < k \/ k = l
  BY <1>1
<1> QED  BY <1>1, <1>2, <1>3

\* It grows by one with a Ctrl-A and starts again with any other byte.
LEMMA RunGrows ==
  ASSUME NEW s \in Seq(Keys), NEW i \in 1..Len(s), NEW k, RunIs(s, i, k)
  PROVE  /\ s[i] = "^A" => RunIs(s, i + 1, k + 1)
         /\ s[i] # "^A" => RunIs(s, i + 1, 0)
<1>1. k \in Nat /\ k <= i - 1 /\ i \in Nat
  BY DEF RunIs
<1>2. CASE s[i] = "^A"
  <2>1. k + 1 \in 0..((i + 1) - 1) /\ (i + 1) - (k + 1) = i - k
    BY <1>1
  <2>2. \A j \in ((i + 1) - (k + 1))..((i + 1) - 1) : j \in (i - k)..(i - 1) \/ j = i
    BY <1>1
  <2>3. \A j \in ((i + 1) - (k + 1))..((i + 1) - 1) : s[j] = "^A"
    BY <1>2, <2>2 DEF RunIs
  <2>4. (i + 1) - (k + 1) = 1 \/ s[(i + 1) - (k + 1) - 1] # "^A"
    BY <2>1 DEF RunIs
  <2> QED  BY <1>2, <2>1, <2>3, <2>4 DEF RunIs
<1>3. CASE s[i] # "^A"
  <2>1. 0 \in 0..((i + 1) - 1) /\ (i + 1) - 0 - 1 = i
    BY <1>1
  <2>2. \A j \in ((i + 1) - 0)..((i + 1) - 1) : FALSE
    BY <1>1
  <2> QED  BY <1>3, <2>1, <2>2 DEF RunIs
<1> QED  BY <1>2, <1>3

\* There is such a number for every position.
LEMMA RunFound ==
  ASSUME NEW s \in Seq(Keys)
  PROVE  \A i \in 1..(Len(s) + 1) : \E k : RunIs(s, i, k)
<1> DEFINE Q == {n \in Nat : n <= Len(s) => \E k : RunIs(s, n + 1, k)}
<1>1. 0 \in Q
  <2>1. RunIs(s, 1, 0)
    BY DEF RunIs
  <2> QED  BY <2>1
<1>2. ASSUME NEW n \in Nat, n \in Q PROVE n + 1 \in Q
  <2> SUFFICES ASSUME n + 1 <= Len(s) PROVE \E k : RunIs(s, (n + 1) + 1, k)
    OBVIOUS
  <2>1. n + 1 \in 1..Len(s) /\ n <= Len(s)
    OBVIOUS
  <2>2. PICK k : RunIs(s, n + 1, k)
    BY <1>2, <2>1
  <2> QED  BY <2>1, <2>2, RunGrows
<1>3. \A n \in Nat : n \in Q
  <2> HIDE DEF Q
  <2> QED  BY <1>1, <1>2, SetInduction
<1>4. ASSUME NEW i \in 1..(Len(s) + 1) PROVE \E k : RunIs(s, i, k)
  <2>1. i - 1 \in Nat /\ i - 1 <= Len(s) /\ (i - 1) + 1 = i
    OBVIOUS
  <2>2. i - 1 \in Q
    BY <1>3, <2>1
  <2> QED  BY <2>1, <2>2
<1> QED  BY <1>4

\* RunBefore is that number.
LEMMA RunBeforeIs ==
  ASSUME NEW s \in Seq(Keys), NEW i \in 1..(Len(s) + 1)
  PROVE  RunIs(s, i, RunBefore(s, i)) /\ RunBefore(s, i) \in Nat
<1>1. PICK k : RunIs(s, i, k)
  BY RunFound
<1>2. \E l \in 0..(i - 1) : /\ \A j \in (i - l)..(i - 1) : s[j] = "^A"
                            /\ i - l = 1 \/ s[i - l - 1] # "^A"
  BY <1>1 DEF RunIs
<1>3. RunIs(s, i, RunBefore(s, i))
  BY <1>2 DEF RunBefore, RunIs
<1> QED  BY <1>3 DEF RunIs

\* An odd number of Ctrl-A precedes position i: the escape is armed there.
OddAt(s, i) == RunBefore(s, i) % 2 = 1

\* The parity of the run turns with a Ctrl-A and is even after any other byte.
LEMMA OddStep ==
  ASSUME NEW s \in Seq(Keys)
  PROVE  /\ ~OddAt(s, 1)
         /\ \A i \in 1..Len(s) : OddAt(s, i + 1) <=> s[i] = "^A" /\ ~OddAt(s, i)
<1>1. ~OddAt(s, 1)
  <2>1. 1 \in 1..(Len(s) + 1)
    OBVIOUS
  <2>2. RunBefore(s, 1) = 0
    BY <2>1, RunBeforeIs DEF RunIs
  <2> QED  BY <2>2 DEF OddAt
<1>2. ASSUME NEW i \in 1..Len(s) PROVE OddAt(s, i + 1) <=> s[i] = "^A" /\ ~OddAt(s, i)
  <2>1. i \in 1..(Len(s) + 1) /\ i + 1 \in 1..(Len(s) + 1) /\ i + 1 \in Nat \ {0}
    OBVIOUS
  <2>2. PICK k \in Nat : k = RunBefore(s, i) /\ RunIs(s, i, k)
    BY <2>1, RunBeforeIs
  <2>3. PICK l \in Nat : l = RunBefore(s, i + 1) /\ RunIs(s, i + 1, l)
    BY <2>1, RunBeforeIs
  <2>4. CASE s[i] = "^A"
    <3>1. l = k + 1
      BY <2>1, <2>2, <2>3, <2>4, RunGrows, RunUnique
    <3>2. (k + 1) % 2 = 1 <=> ~(k % 2 = 1)
      OBVIOUS
    <3> QED  BY <2>2, <2>3, <2>4, <3>1, <3>2 DEF OddAt
  <2>5. CASE s[i] # "^A"
    <3>1. l = 0
      BY <2>1, <2>2, <2>3, <2>5, RunGrows, RunUnique
    <3> QED  BY <2>3, <2>5, <3>1 DEF OddAt
  <2> QED  BY <2>4, <2>5
<1> QED  BY <1>1, <1>2

\* A run depends on the bytes before it only.
LEMMA OddLocal ==
  ASSUME NEW s \in Seq(Keys), NEW b \in Keys, NEW i \in 1..(Len(s) + 1)
  PROVE  OddAt(Append(s, b), i) <=> OddAt(s, i)
<1>1. PICK t \in Seq(Keys) : t = Append(s, b)
  <2>1. Append(s, b) \in Seq(Keys)
    OBVIOUS
  <2> QED  BY <2>1, Zenon
<1>2. Len(t) = Len(s) + 1 /\ (\A j \in 1..Len(s) : t[j] = s[j]) /\ i \in 1..(Len(t) + 1)
      /\ i \in Nat \ {0} /\ i - 1 <= Len(s)
  BY <1>1
<1>3. PICK k \in Nat : k = RunBefore(s, i) /\ RunIs(s, i, k)
  BY RunBeforeIs
<1>4. PICK l \in Nat : l = RunBefore(t, i) /\ RunIs(t, i, l)
  BY <1>2, RunBeforeIs
<1>5. RunIs(t, i, k)
  <2>1. k <= i - 1
    BY <1>3 DEF RunIs
  <2>2. \A j \in (i - k)..(i - 1) : j \in 1..Len(s)
    BY <1>2, <2>1
  <2>3. i - k # 1 => i - k - 1 \in 1..Len(s)
    BY <1>2, <2>1
  <2> QED  BY <1>2, <1>3, <2>2, <2>3 DEF RunIs
<1>6. k = l
  BY <1>2, <1>4, <1>5, RunUnique
<1> QED  BY <1>1, <1>3, <1>4, <1>6 DEF OddAt

-----------------------------------------------------------------------------
(* What a typed text means *)

\* A set of positions but the empty one has a least element.
LEMMA LeastIn ==
  ASSUME NEW A \in SUBSET Nat, A # {}
  PROVE  \E i \in A : \A j \in A : i <= j
<1>1. PICK i \in A : \A j \in A : ~ (<<j, i>> \in NatLess)
  BY NatLessWellFounded, WFMin
<1>2. ASSUME NEW j \in A PROVE i <= j
  <2>1. ~(j < i)
    BY <1>1 DEF NatLess
  <2> QED  BY <2>1
<1> QED  BY <1>2

FirstExit(s) == CHOOSE i \in ExitAt(s) : \A j \in ExitAt(s) : i <= j

\* The first exit.
LEMMA FirstExitIs ==
  ASSUME NEW s \in Seq(Keys), ExitAt(s) # {}
  PROVE  /\ FirstExit(s) \in ExitAt(s) /\ FirstExit(s) \in 1..Len(s)
         /\ \A j \in ExitAt(s) : FirstExit(s) <= j
<1>1. ExitAt(s) \in SUBSET Nat /\ ExitAt(s) \subseteq 1..Len(s)
  BY DEF ExitAt
<1>2. \E i \in ExitAt(s) : \A j \in ExitAt(s) : i <= j
  BY <1>1, LeastIn
<1> QED  BY <1>1, <1>2 DEF FirstExit

\* The bytes that come later make no earlier q an exit.
LEMMA ExitAppend ==
  ASSUME NEW s \in Seq(Keys), NEW b \in Keys
  PROVE  /\ ~(b = "q" /\ OddAt(s, Len(s) + 1)) => ExitAt(Append(s, b)) = ExitAt(s)
         /\ b = "q" /\ OddAt(s, Len(s) + 1) =>
              ExitAt(Append(s, b)) = ExitAt(s) \cup {Len(s) + 1}
<1>1. PICK t : t = Append(s, b)
  OBVIOUS
<1>2. t \in Seq(Keys) /\ Len(t) = Len(s) + 1 /\ (\A j \in 1..Len(s) : t[j] = s[j])
      /\ t[Len(s) + 1] = b
  BY <1>1
<1>3. \A i \in 1..(Len(s) + 1) : OddAt(t, i) <=> OddAt(s, i)
  BY <1>1, OddLocal
<1>4. ExitAt(t) = {i \in 1..(Len(s) + 1) : t[i] = "q" /\ OddAt(t, i)}
  BY <1>2 DEF ExitAt, OddAt
<1>5. ExitAt(s) = {i \in 1..Len(s) : s[i] = "q" /\ OddAt(s, i)}
  BY DEF ExitAt, OddAt
<1>6. \A i \in 1..(Len(s) + 1) : i \in 1..Len(s) \/ i = Len(s) + 1
  OBVIOUS
<1>7. Len(s) + 1 \notin 1..Len(s) /\ Len(s) + 1 \in 1..(Len(s) + 1)
      /\ \A i \in 1..Len(s) : i \in 1..(Len(s) + 1)
  OBVIOUS
<1>8. \A i : i \in ExitAt(t) <=> i \in ExitAt(s) \/ (i = Len(s) + 1 /\ b = "q" /\ OddAt(s, i))
  BY <1>2, <1>3, <1>4, <1>5, <1>6, <1>7
<1> QED  BY <1>1, <1>8

\* What is typed after an exit is not meant for the guest, and the exit itself
\* is not either.
LEMMA UntilAppend ==
  ASSUME NEW s \in Seq(Keys), NEW b \in Keys
  PROVE  /\ ExitAt(s) # {} \/ ExitAt(Append(s, b)) # {} => Until(Append(s, b)) = Until(s)
         /\ ExitAt(Append(s, b)) = {} => /\ Until(s) = s
                                         /\ Until(Append(s, b)) = Append(s, b)
         /\ Until(s) \in Seq(Keys)
<1>1. PICK t : t = Append(s, b)
  OBVIOUS
<1>2. t \in Seq(Keys) /\ Len(t) = Len(s) + 1 /\ (\A j \in 1..Len(s) : t[j] = s[j])
  BY <1>1
<1>3. /\ ExitAt(t) = ExitAt(s) \/ ExitAt(t) = ExitAt(s) \cup {Len(s) + 1}
      /\ ExitAt(s) \subseteq 1..Len(s)
  BY <1>1, ExitAppend DEF ExitAt
<1>4. /\ ExitAt(s) = {} => Until(s) = s
      /\ ExitAt(s) # {} => Until(s) = SubSeq(s, 1, FirstExit(s) - 1)
      /\ ExitAt(t) = {} => Until(t) = t
      /\ ExitAt(t) # {} => Until(t) = SubSeq(t, 1, FirstExit(t) - 1)
  BY DEF Until, FirstExit
<1>5. \A n \in 0..Len(s) : SubSeq(t, 1, n) = SubSeq(s, 1, n) /\ SubSeq(s, 1, n) \in Seq(Keys)
  <2> SUFFICES ASSUME NEW n \in 0..Len(s)
               PROVE  SubSeq(t, 1, n) = SubSeq(s, 1, n) /\ SubSeq(s, 1, n) \in Seq(Keys)
    OBVIOUS
  <2>1. PICK u : u = SubSeq(t, 1, n)
    OBVIOUS
  <2>2. PICK v : v = SubSeq(s, 1, n)
    OBVIOUS
  <2>3. u \in Seq(Keys) /\ Len(u) = n /\ \A i \in 1..n : u[i] = t[i]
    BY <1>2, <2>1
  <2>4. v \in Seq(Keys) /\ Len(v) = n /\ \A i \in 1..n : v[i] = s[i]
    BY <2>2
  <2>5. \A i \in 1..n : u[i] = v[i]
    BY <1>2, <2>3, <2>4
  <2>6. u = v
    BY <2>3, <2>4, <2>5
  <2> QED  BY <2>1, <2>2, <2>4, <2>6
<1>6. CASE ExitAt(s) # {}
  <2>1. PICK f : f = FirstExit(s)
    OBVIOUS
  <2>2. f \in ExitAt(s) /\ f \in 1..Len(s) /\ \A j \in ExitAt(s) : f <= j
    BY <1>6, <2>1, FirstExitIs
  <2>3. ExitAt(t) # {}
    BY <1>3, <1>6
  <2>4. PICK g : g = FirstExit(t)
    OBVIOUS
  <2>5. g \in ExitAt(t) /\ g \in 1..Len(t) /\ \A j \in ExitAt(t) : g <= j
    BY <1>2, <2>3, <2>4, FirstExitIs
  <2>6. f = g
    BY <1>2, <1>3, <2>2, <2>5
  <2>7. f - 1 \in 0..Len(s)
    BY <2>2
  <2> QED  BY <1>1, <1>4, <1>5, <1>6, <2>1, <2>3, <2>4, <2>6, <2>7
<1>7. CASE ExitAt(s) = {} /\ ExitAt(t) # {}
  <2>1. ExitAt(t) = {Len(s) + 1}
    BY <1>3, <1>7
  <2>2. FirstExit(t) = Len(s) + 1
    BY <1>2, <1>7, <2>1, FirstExitIs
  <2>3. FirstExit(t) - 1 = Len(s) /\ Len(s) \in 0..Len(s)
    BY <2>2
  <2>4. SubSeq(s, 1, Len(s)) = s
    OBVIOUS
  <2> QED  BY <1>1, <1>4, <1>5, <1>7, <2>3, <2>4
<1>8. CASE ExitAt(t) = {}
  <2>1. ExitAt(s) = {}
    BY <1>3, <1>8
  <2> QED  BY <1>1, <1>4, <1>8, <2>1
<1> QED  BY <1>6, <1>7, <1>8

EscapePieces(s) == [i \in 1..Len(s) |-> EscapePiece(s, i)]

\* The piece of a byte b, after a run of Ctrl-A that is odd or not.
Escaped(odd, b) ==
  IF b = "^A" THEN IF odd THEN <<"^A">> ELSE <<>>
              ELSE IF odd THEN <<"^A", b>> ELSE <<b>>

\* The pieces are short texts.
LEMMA EscapePieceType ==
  ASSUME NEW s \in Seq(Keys)
  PROVE  EscapePieces(s) \in Seq(Seq(Keys))
<1>1. \A i \in 1..Len(s) : s[i] \in Keys
  OBVIOUS
<1>2. <<>> \in Seq(Keys) /\ <<"^A">> \in Seq(Keys)
      /\ \A c \in Keys : <<c>> \in Seq(Keys) /\ <<"^A", c>> \in Seq(Keys)
  BY DEF Keys
<1>3. \A i \in 1..Len(s) : EscapePiece(s, i) \in Seq(Keys)
  BY <1>1, <1>2 DEF EscapePiece
<1> QED  BY <1>3 DEF EscapePieces

\* A text that grows by a byte is meant to send one more piece, unless it has
\* ended in an exit.
LEMMA MeantAppend ==
  ASSUME NEW s \in Seq(Keys), NEW b \in Keys
  PROVE  /\ Meant(s) \in Seq(Keys)
         /\ ExitAt(s) # {} \/ ExitAt(Append(s, b)) # {} => Meant(Append(s, b)) = Meant(s)
         /\ ExitAt(Append(s, b)) = {} =>
              Meant(Append(s, b)) = Meant(s) \o Escaped(OddAt(s, Len(s) + 1), b)
<1>1. PICK t : t = Append(s, b)
  OBVIOUS
<1>2. t \in Seq(Keys) /\ Len(t) = Len(s) + 1 /\ (\A j \in 1..Len(s) : t[j] = s[j])
      /\ t[Len(s) + 1] = b
  BY <1>1
<1>3. PICK x \in Seq(Keys) : x = Escaped(OddAt(s, Len(s) + 1), b)
  <2>1. <<>> \in Seq(Keys) /\ <<"^A">> \in Seq(Keys)
        /\ <<b>> \in Seq(Keys) /\ <<"^A", b>> \in Seq(Keys)
    BY DEF Keys
  <2> QED  BY <2>1, Zenon DEF Escaped
<1>4. \A u : Meant(u) = FlattenSeq(EscapePieces(Until(u)))
  BY DEF Meant, EscapePieces
<1>5. Meant(s) \in Seq(Keys)
  <2>1. PICK p : p = EscapePieces(Until(s))
    OBVIOUS
  <2>2. p \in Seq(Seq(Keys))
    BY <2>1, UntilAppend, EscapePieceType
  <2> QED  BY <1>4, <2>1, <2>2, FlattenAppend
<1>6. CASE ExitAt(s) # {} \/ ExitAt(t) # {}
  <2>1. Until(t) = Until(s)
    BY <1>1, <1>6, UntilAppend
  <2>2. Meant(t) = Meant(s)
    BY <1>4, <2>1, Zenon
  <2>3. ExitAt(t) # {}
    BY <1>1, <1>6, ExitAppend
  <2> QED  BY <1>1, <1>5, <2>2, <2>3
<1>7. CASE ExitAt(t) = {}
  <2>1. Until(s) = s /\ Until(t) = t
    BY <1>1, <1>7, UntilAppend
  <2>2. PICK p : p = EscapePieces(s)
    OBVIOUS
  <2>3. PICK q : q = EscapePieces(t)
    OBVIOUS
  <2>4. /\ p \in Seq(Seq(Keys)) /\ Len(p) = Len(s)
        /\ \A i \in 1..Len(s) : p[i] = EscapePiece(s, i)
    BY <2>2, EscapePieceType DEF EscapePieces
  <2>5. /\ q \in Seq(Seq(Keys)) /\ Len(q) = Len(s) + 1
        /\ \A i \in 1..(Len(s) + 1) : q[i] = EscapePiece(t, i)
    BY <1>2, <2>3, EscapePieceType DEF EscapePieces
  <2>6. ASSUME NEW i \in 1..Len(s) PROVE q[i] = p[i]
    <3>1. i \in 1..(Len(s) + 1) /\ t[i] = s[i]
      BY <1>2
    <3>2. OddAt(t, i) <=> OddAt(s, i)
      BY <1>1, <3>1, OddLocal
    <3>3. EscapePiece(t, i) = EscapePiece(s, i)
      BY <3>1, <3>2 DEF EscapePiece, OddAt
    <3> QED  BY <2>4, <2>5, <3>1, <3>3
  <2>7. q[Len(s) + 1] = x
    <3>1. Len(s) + 1 \in 1..(Len(s) + 1)
      OBVIOUS
    <3>2. OddAt(t, Len(s) + 1) <=> OddAt(s, Len(s) + 1)
      BY <1>1, <3>1, OddLocal
    <3>3. EscapePiece(t, Len(s) + 1) = x
      BY <1>2, <1>3, <3>2 DEF EscapePiece, OddAt, Escaped
    <3> QED  BY <2>5, <3>1, <3>3
  <2>8. q = Append(p, x)
    BY <2>4, <2>5, <2>6, <2>7
  <2>9. FlattenSeq(q) = FlattenSeq(p) \o x
    BY <2>4, <2>8, FlattenAppend
  <2>10. Meant(t) = Meant(s) \o x
    BY <1>4, <2>1, <2>2, <2>3, <2>9, Zenon
  <2> QED  BY <1>1, <1>3, <1>5, <1>6, <1>7, <2>10, Zenon
<1> QED  BY <1>1, <1>6, <1>7

-----------------------------------------------------------------------------
(* The escape filter *)

EscStates == [armed : BOOLEAN, exit : BOOLEAN, out : Seq(Keys)]

\* A byte takes the filter from state to state.
LEMMA ProcessType ==
  ASSUME NEW st \in EscStates, NEW b \in Keys
  PROVE  ProcessInputByte(st, b) \in EscStates
<1>1. st.out \in Seq(Keys) /\ <<>> \in Seq(Keys) /\ <<"^A">> \in Seq(Keys)
      /\ <<b>> \in Seq(Keys) /\ <<"^A", b>> \in Seq(Keys)
  BY DEF EscStates, Keys
<1>2. /\ st.out \o <<>> \in Seq(Keys) /\ st.out \o <<"^A">> \in Seq(Keys)
      /\ st.out \o <<b>> \in Seq(Keys) /\ st.out \o <<"^A", b>> \in Seq(Keys)
  BY <1>1
<1> QED  BY <1>2 DEF ProcessInputByte, EscStates

\* The recursion behind the loop over a chunk of stdin, and its solution.
EscAt(c, st, f, A) == IF A = {} THEN st ELSE ProcessInputByte(f[A \ {Max(A)}], c[Max(A)])

EscOf(c, st, f) == [A \in SUBSET (1..Len(c)) |-> EscAt(c, st, f, A)]

Esc(c, st) == CHOOSE f : f = EscOf(c, st, f)

\* stdin_to_sock goes through the bytes of a chunk in their order.
LEMMA ProcessRun ==
  ASSUME NEW c \in Seq(Keys), NEW st \in EscStates
  PROVE  \E r \in [0..Len(c) -> EscStates] :
           /\ r[0] = st
           /\ \A i \in 1..Len(c) : r[i] = ProcessInputByte(r[i - 1], c[i])
           /\ FoldLeft(ProcessInputByte, st, c) = r[Len(c)]
<1> DEFINE N == Len(c)
           T == EscStates
           pick == [A \in SUBSET (1..N) |-> Max(A)]
           step == [x \in 1..N |-> [t \in T |-> ProcessInputByte(t, c[x])]]
<1>1. N \in Nat /\ st \in T /\ DOMAIN c = 1..N /\ \A i \in 1..N : c[i] \in Keys
  OBVIOUS
<1>2. FoldLeft(ProcessInputByte, st, c) = Esc(c, st)[1..N]
  BY <1>1, SMT DEF FoldLeft, MapThenFoldSet, Esc, EscOf, EscAt
<1>3. Picks(pick, N)
  BY <1>1, MaxIn DEF Picks
<1>4. \A x \in 1..N, t \in T :
        step[x][t] = ProcessInputByte(t, c[x]) /\ ProcessInputByte(t, c[x]) \in T
  BY <1>1, ProcessType
<1>5. Combines(step, N, T)
  BY <1>4 DEF Combines
<1>6. PICK f \in [SUBSET (1..N) -> T] : Folds(f, st, pick, step, N)
  <2> HIDE DEF N, T, pick, step
  <2> QED  BY <1>1, <1>3, <1>5, FoldExists
<1>7. \A A \in SUBSET (1..N) : f[A] = EscAt(c, st, f, A)
  <2> SUFFICES ASSUME NEW A \in SUBSET (1..N) PROVE f[A] = EscAt(c, st, f, A)
    OBVIOUS
  <2>1. CASE A = {}
    BY <1>6, <2>1 DEF Folds, EscAt
  <2>2. CASE A # {}
    <3>1. pick[A] = Max(A) /\ Max(A) \in A /\ A \ {Max(A)} \in SUBSET (1..N) /\ Max(A) \in 1..N
      BY <1>1, <2>2, MaxIn
    <3>2. f[A] = step[pick[A]][f[A \ {pick[A]}]]
      <4> HIDE DEF pick, step
      <4> QED  BY <1>6, <2>2 DEF Folds
    <3>3. f[A \ {Max(A)}] \in T
      BY <3>1
    <3>4. f[A] = ProcessInputByte(f[A \ {Max(A)}], c[Max(A)])
      <4> HIDE DEF pick, step, T, N
      <4> QED  BY <1>4, <3>1, <3>2, <3>3
    <3> QED  BY <2>2, <3>4 DEF EscAt
  <2> QED  BY <2>1, <2>2
<1>8. f = EscOf(c, st, f)
  <2>1. f = [A \in SUBSET (1..N) |-> f[A]]
    OBVIOUS
  <2>2. [A \in SUBSET (1..N) |-> f[A]] = [A \in SUBSET (1..N) |-> EscAt(c, st, f, A)]
    BY <1>7, Zenon
  <2> QED  BY <2>1, <2>2, Zenon DEF EscOf
<1>9. Esc(c, st) = EscOf(c, st, Esc(c, st))
  BY <1>8, Zenon DEF Esc
<1>10. PICK F : F = Esc(c, st)
  OBVIOUS
<1>11. \A A \in SUBSET (1..N) : F[A] = EscAt(c, st, F, A)
  <2>1. PICK h : h = EscOf(c, st, F)
    OBVIOUS
  <2>2. \A A \in SUBSET (1..N) : h[A] = EscAt(c, st, F, A)
    BY <2>1 DEF EscOf
  <2>3. F = h
    BY <1>9, <1>10, <2>1, Zenon
  <2> QED  BY <2>2, <2>3, Zenon
<1>12. PICK r : r = [i \in 0..N |-> F[1..i]]
  OBVIOUS
<1>13. \A i \in 0..N : r[i] = F[1..i] /\ 1..i \in SUBSET (1..N)
  BY <1>1, <1>12
<1>14. r[0] = st
  <2>1. 1..0 = {} /\ 0 \in 0..N
    BY <1>1
  <2>2. F[{}] = st
    BY <1>11 DEF EscAt
  <2> QED  BY <1>13, <2>1, <2>2
<1>15. ASSUME NEW i \in 1..N PROVE r[i] = ProcessInputByte(r[i - 1], c[i])
  <2>1. i - 1 \in Nat /\ (i - 1) + 1 = i /\ i \in 0..N /\ i - 1 \in 0..N
    BY <1>1
  <2>2. Max(1..i) = i /\ (1..i) \ {i} = 1..(i - 1)
    BY <2>1, MaxOfInterval
  <2>3. 1..i \in SUBSET (1..N) /\ 1..i # {}
    BY <1>1
  <2>4. F[1..i] = ProcessInputByte(F[1..(i - 1)], c[i])
    BY <1>11, <2>2, <2>3 DEF EscAt
  <2> QED  BY <1>13, <2>1, <2>4
<1>16. r \in [0..N -> T]
  <2> DEFINE Q == {n \in Nat : n \in 0..N => r[n] \in T}
  <2>1. 0 \in Q
    BY <1>14
  <2>2. ASSUME NEW n \in Nat, n \in Q PROVE n + 1 \in Q
    <3> SUFFICES ASSUME n + 1 \in 0..N PROVE r[n + 1] \in T
      OBVIOUS
    <3>1. PICK m \in 1..N : m = n + 1 /\ m - 1 = n /\ n \in 0..N
      BY <1>1
    <3>2. r[n] \in T /\ c[m] \in Keys
      BY <1>1, <2>2, <3>1
    <3> QED  BY <1>15, <3>1, <3>2, ProcessType
  <2>3. \A n \in Nat : n \in Q
    <3> HIDE DEF Q
    <3> QED  BY <2>1, <2>2, SetInduction
  <2>4. \A i \in 0..N : r[i] \in T
    BY <2>3
  <2> QED  BY <1>12, <2>4
<1>17. FoldLeft(ProcessInputByte, st, c) = r[N]
  BY <1>1, <1>2, <1>10, <1>13
<1> QED  BY <1>14, <1>15, <1>16, <1>17

\* Appending is associative.
LEMMA ConcatKeys == \A a, b, c \in Seq(Keys) : Regroups(a, b, c)
BY ConcatAssociative DEF Regroups

\* After text s, of which se was sent before this chunk, the filter is in
\* state st.
InStep(st, se, s) ==
  /\ st.exit <=> ExitAt(s) # {}
  /\ ~st.exit => (st.armed <=> OddAt(s, Len(s) + 1))
  /\ se \o st.out = Meant(s)

\* One byte of the filter keeps in step with the text.
LEMMA ProcessInStep ==
  ASSUME NEW s \in Seq(Keys), NEW b \in Keys, NEW st \in EscStates, NEW se \in Seq(Keys),
         InStep(st, se, s)
  PROVE  InStep(ProcessInputByte(st, b), se, Append(s, b))
<1>1. PICK t : t = Append(s, b)
  OBVIOUS
<1>2. PICK nx : nx = ProcessInputByte(st, b)
  OBVIOUS
<1>3. PICK o \in Seq(Keys) : o = st.out
  BY DEF EscStates
<1>4. PICK x \in Seq(Keys) : x = Escaped(OddAt(s, Len(s) + 1), b)
  <2>1. <<>> \in Seq(Keys) /\ <<"^A">> \in Seq(Keys)
        /\ <<b>> \in Seq(Keys) /\ <<"^A", b>> \in Seq(Keys)
    BY DEF Keys
  <2> QED  BY <2>1, Zenon DEF Escaped
<1>5. se \o o = Meant(s)
  BY <1>3 DEF InStep
<1>6. OddAt(t, Len(t) + 1) <=> b = "^A" /\ ~OddAt(s, Len(s) + 1)
  <2>1. t \in Seq(Keys) /\ Len(t) = Len(s) + 1 /\ t[Len(t)] = b /\ Len(t) \in 1..Len(t)
        /\ Len(t) \in 1..(Len(s) + 1)
    BY <1>1
  <2>2. OddAt(t, Len(t) + 1) <=> b = "^A" /\ ~OddAt(t, Len(t))
    BY <2>1, OddStep
  <2>3. OddAt(t, Len(t)) <=> OddAt(s, Len(t))
    BY <1>1, <2>1, OddLocal
  <2> QED  BY <2>1, <2>2, <2>3
<1>7. CASE st.exit
  <2>1. nx = st
    BY <1>2, <1>7 DEF ProcessInputByte
  <2>2. ExitAt(s) # {} /\ ExitAt(t) # {}
    BY <1>1, <1>7, ExitAppend DEF InStep
  <2>3. Meant(t) = Meant(s)
    BY <1>1, <2>2, MeantAppend
  <2>4. se \o nx.out = Meant(t)
    BY <1>3, <1>5, <2>1, <2>3, Zenon
  <2> QED  BY <1>1, <1>2, <1>7, <2>1, <2>2, <2>4, Zenon DEF InStep
<1>8. CASE ~st.exit /\ st.armed /\ b = "q"
  <2>1. OddAt(s, Len(s) + 1)
    BY <1>8 DEF InStep
  <2>2. ExitAt(t) # {}
    BY <1>1, <1>8, <2>1, ExitAppend
  <2>3. Meant(t) = Meant(s)
    BY <1>1, <2>2, MeantAppend
  <2>4. nx = [armed |-> FALSE, exit |-> TRUE, out |-> o \o <<>>]
    BY <1>2, <1>3, <1>8 DEF ProcessInputByte
  <2>5. nx.exit = TRUE /\ nx.out = o
    BY <2>4
  <2>6. se \o nx.out = Meant(t)
    BY <1>5, <2>3, <2>5, Zenon
  <2> QED  BY <1>1, <1>2, <2>2, <2>5, <2>6, Zenon DEF InStep
<1>9. CASE ~st.exit /\ ~(st.armed /\ b = "q")
  <2>1. ExitAt(s) = {} /\ (st.armed <=> OddAt(s, Len(s) + 1))
    BY <1>9 DEF InStep
  <2>2. ExitAt(t) = {}
    BY <1>1, <1>9, <2>1, ExitAppend
  <2>3. Meant(t) = Meant(s) \o x
    BY <1>1, <1>4, <2>2, MeantAppend
  <2>4. nx.exit = FALSE /\ nx.out = o \o x /\ (nx.armed <=> b = "^A" /\ ~st.armed)
    <3>1. CASE st.armed
      <4>1. x = IF b = "^A" THEN <<"^A">> ELSE <<"^A", b>>
        BY <1>4, <2>1, <3>1 DEF Escaped
      <4>2. nx = [armed |-> FALSE, exit |-> FALSE, out |-> o \o x]
        BY <1>2, <1>3, <1>9, <3>1, <4>1 DEF ProcessInputByte
      <4> QED  BY <3>1, <4>2
    <3>2. CASE ~st.armed
      <4>1. x = IF b = "^A" THEN <<>> ELSE <<b>>
        BY <1>4, <2>1, <3>2 DEF Escaped
      <4>2. nx = [armed |-> b = "^A", exit |-> FALSE, out |-> o \o x]
        BY <1>2, <1>3, <1>9, <3>2, <4>1 DEF ProcessInputByte
      <4>3. nx.exit = FALSE /\ nx.out = o \o x /\ nx.armed = (b = "^A")
        BY <4>2
      <4> QED  BY <3>2, <4>3
    <3> QED  BY <3>1, <3>2
  <2>5. se \o nx.out = Meant(t)
    <3>1. Regroups(se, o, x)
      BY ConcatKeys, Zenon
    <3> QED  BY <1>5, <2>3, <2>4, <3>1, Zenon DEF Regroups
  <2>6. nx.armed <=> OddAt(t, Len(t) + 1)
    BY <1>6, <2>1, <2>4, Zenon
  <2>7. InStep(nx, se, t)
    BY <2>2, <2>4, <2>5, <2>6, Zenon DEF InStep
  <2> QED  BY <1>1, <1>2, <2>7, Zenon
<1> QED  BY <1>7, <1>8, <1>9

\* The first bytes of a chunk of stdin.
LEMMA UpToKeys ==
  ASSUME NEW s \in Seq(Keys), NEW c \in Seq(Keys)
  PROVE  /\ UpTo(s, c, 0) = s
         /\ UpTo(s, c, Len(c)) = s \o c
         /\ \A i \in 0..Len(c) : UpTo(s, c, i) \in Seq(Keys)
         /\ \A i \in 1..Len(c) : UpTo(s, c, i) = Append(UpTo(s, c, i - 1), c[i])
<1>1. UpTo(s, c, 0) = s
  BY UpToStep
<1>2. UpTo(s, c, Len(c)) = s \o c
  BY UpToStep
<1>3. ASSUME NEW i \in 0..Len(c) PROVE UpTo(s, c, i) \in Seq(Keys)
  BY UpToStep
<1>4. ASSUME NEW i \in 1..Len(c) PROVE UpTo(s, c, i) = Append(UpTo(s, c, i - 1), c[i])
  BY UpToStep
<1> QED  BY <1>1, <1>2, <1>3, <1>4

\* A chunk keeps in step with the text, wherever the read split the stream.
LEMMA ChunkInStep ==
  ASSUME NEW s \in Seq(Keys), NEW c \in Seq(Keys), NEW se \in Seq(Keys),
         NEW st \in EscStates, InStep(st, se, s)
  PROVE  /\ FoldLeft(ProcessInputByte, st, c) \in EscStates
         /\ InStep(FoldLeft(ProcessInputByte, st, c), se, s \o c)
<1>1. PICK nx : nx = FoldLeft(ProcessInputByte, st, c)
  OBVIOUS
<1>2. PICK r \in [0..Len(c) -> EscStates] :
        /\ r[0] = st
        /\ \A i \in 1..Len(c) : r[i] = ProcessInputByte(r[i - 1], c[i])
        /\ nx = r[Len(c)]
  BY <1>1, ProcessRun
<1>3. /\ UpTo(s, c, 0) = s
      /\ UpTo(s, c, Len(c)) = s \o c
      /\ \A i \in 0..Len(c) : UpTo(s, c, i) \in Seq(Keys)
      /\ \A i \in 1..Len(c) : UpTo(s, c, i) = Append(UpTo(s, c, i - 1), c[i])
  BY UpToKeys, Zenon
<1> DEFINE Q == {i \in Nat : i \in 0..Len(c) => InStep(r[i], se, UpTo(s, c, i))}
<1>4. 0 \in Q
  BY <1>2, <1>3
<1>5. ASSUME NEW i \in Nat, i \in Q PROVE i + 1 \in Q
  <2> SUFFICES ASSUME i + 1 \in 0..Len(c) PROVE InStep(r[i + 1], se, UpTo(s, c, i + 1))
    BY <1>5
  <2>1. i \in 0..Len(c) /\ i + 1 \in 1..Len(c) /\ (i + 1) - 1 = i
    BY <1>5
  <2>2. UpTo(s, c, i) \in Seq(Keys) /\ UpTo(s, c, i + 1) = Append(UpTo(s, c, i), c[i + 1])
    BY <1>3, <2>1
  <2>3. r[i + 1] = ProcessInputByte(r[i], c[i + 1]) /\ r[i] \in EscStates /\ c[i + 1] \in Keys
    <3>1. PICK m \in 1..Len(c) : m = i + 1 /\ m - 1 = i
      BY <2>1
    <3>2. r[m] = ProcessInputByte(r[m - 1], c[m])
      BY <1>2, Zenon
    <3>3. r[i] \in EscStates
      BY <2>1
    <3>4. c[m] \in Keys
      OBVIOUS
    <3> QED  BY <3>1, <3>2, <3>3, <3>4, Zenon
  <2>4. InStep(r[i], se, UpTo(s, c, i))
    BY <1>5, <2>1
  <2> QED  BY <2>2, <2>3, <2>4, ProcessInStep, Zenon
<1>6. \A i \in Nat : i \in Q
  <2> HIDE DEF Q
  <2> QED  BY <1>4, <1>5, SetInduction
<1>7. InStep(r[Len(c)], se, UpTo(s, c, Len(c))) /\ UpTo(s, c, Len(c)) = s \o c
  <2>1. Len(c) \in Nat /\ Len(c) \in 0..Len(c)
    OBVIOUS
  <2>2. InStep(r[Len(c)], se, UpTo(s, c, Len(c)))
    BY <1>6, <2>1
  <2> QED  BY <1>3, <2>2, Zenon
<1>8. nx \in EscStates
  BY <1>2
<1> QED  BY <1>1, <1>2, <1>7, <1>8, Zenon

\* The same for what is typed.
LEMMA PrefixKeys == \A a, b \in Seq(Keys) : IsPrefix(a, a \o b)
BY PrefixOf

\* The state of stdin_to_sock: while it runs, the flag says whether an odd run
\* of Ctrl-A ends the text and everything meant so far is sent; only a socket
\* that is closed can make it fall behind, and that ends it.
SentInv ==
  /\ armed \in BOOLEAN /\ quit \in BOOLEAN
  /\ typed \in Seq(Keys) /\ sent \in Seq(Keys)
  /\ stdinPump = "run" => ~quit /\ (armed <=> OddAt(typed, Len(typed) + 1))
  /\ stdinPump = "run" => sent = Meant(typed)
  /\ QuitAsMeant
  /\ SentAsMeant

\* An empty text means nothing.
LEMMA NothingMeant ==
  ExitAt(<<>>) = {} /\ Meant(<<>>) = <<>> /\ ~OddAt(<<>>, Len(<<>>) + 1)
<1>1. <<>> \in Seq(Keys) /\ Len(<<>>) = 0 /\ 1..0 = {}
  OBVIOUS
<1>2. ExitAt(<<>>) = {}
  BY <1>1 DEF ExitAt
<1>3. Until(<<>>) = <<>>
  BY <1>2 DEF Until
<1>4. EscapePieces(<<>>) = <<>> /\ FlattenSeq(<<>>) = <<>>
  BY DEF EscapePieces, FlattenSeq
<1>5. Meant(<<>>) = FlattenSeq(EscapePieces(Until(<<>>)))
  BY DEF Meant, EscapePieces
<1>6. Meant(<<>>) = <<>>
  BY <1>3, <1>4, <1>5, Zenon
<1>7. ~OddAt(<<>>, 1)
  BY <1>1, OddStep
<1> QED  BY <1>1, <1>2, <1>6, <1>7

\* SentInv holds at the start.
LEMMA SentInit == Init => SentInv
<1> SUFFICES ASSUME Init PROVE SentInv
  OBVIOUS
<1>1. typed = <<>> /\ armed = FALSE /\ sent = <<>> /\ quit = FALSE
  BY DEF Init
<1>2. <<>> \in Seq(Keys) /\ IsPrefix(<<>>, <<>>)
  BY DEF IsPrefix
<1>3. QuitAsMeant /\ SentAsMeant
  BY <1>1, <1>2, NothingMeant DEF QuitAsMeant, SentAsMeant
<1> QED  BY <1>1, <1>2, <1>3, NothingMeant DEF SentInv

\* What a chunk makes of the filter of a pump that runs.
LEMMA TypedChunk ==
  ASSUME SentInv, stdinPump = "run", NEW c \in Seq(Keys), NEW st,
         st = FoldLeft(ProcessInputByte, [armed |-> armed, exit |-> FALSE, out |-> <<>>], c)
  PROVE  st \in EscStates /\ InStep(st, sent, typed \o c)
<1>1. PICK s0 : s0 = [armed |-> armed, exit |-> FALSE, out |-> <<>>]
  OBVIOUS
<1>2. s0 \in EscStates /\ s0.armed = armed /\ s0.exit = FALSE /\ s0.out = <<>>
  BY <1>1 DEF EscStates, SentInv
<1>3. typed \in Seq(Keys) /\ sent \in Seq(Keys)
  BY DEF SentInv
<1>4. InStep(s0, sent, typed)
  <2>1. ExitAt(typed) = {} /\ (armed <=> OddAt(typed, Len(typed) + 1)) /\ sent = Meant(typed)
    BY DEF SentInv, QuitAsMeant
  <2>2. sent \o s0.out = sent
    BY <1>2, <1>3
  <2> QED  BY <1>2, <2>1, <2>2, Zenon DEF InStep
<1> QED  BY <1>1, <1>2, <1>3, <1>4, ChunkInStep, Zenon

\* A round of stdin_to_sock keeps SentInv.
LEMMA StdinChunkSent == SentInv /\ StdinChunk => SentInv'
<1> SUFFICES ASSUME SentInv, StdinChunk PROVE SentInv'
  OBVIOUS
<1>1. PICK c \in Chunks(Keys) :
        LET st == FoldLeft(ProcessInputByte,
                           [armed |-> armed, exit |-> FALSE, out |-> <<>>], c)
            fails == st.out # <<>> /\ sock = "closed"
        IN
        /\ typed' = typed \o c
        /\ armed' = st.armed
        /\ sent'  = IF fails THEN sent ELSE sent \o st.out
        /\ stdinPump' = IF st.exit \/ fails THEN "done" ELSE "run"
        /\ quit' = st.exit
  BY DEF StdinChunk
<1>2. PICK st : st = FoldLeft(ProcessInputByte,
                              [armed |-> armed, exit |-> FALSE, out |-> <<>>], c)
  OBVIOUS
<1>3. /\ c \in Seq(Keys) /\ typed \in Seq(Keys) /\ sent \in Seq(Keys)
      /\ stdinPump = "run" /\ sock' = sock
  BY ChunkType DEF SentInv, StdinChunk
<1>4. st \in EscStates /\ InStep(st, sent, typed \o c)
  BY <1>2, <1>3, TypedChunk
<1>5. PICK o \in Seq(Keys) : o = st.out
  BY <1>4 DEF EscStates
<1>6. typed' = typed \o c /\ typed' \in Seq(Keys)
  BY <1>1, <1>3
<1>7. armed' = st.armed /\ quit' = st.exit /\ st.armed \in BOOLEAN /\ st.exit \in BOOLEAN
  <2>1. armed' = st.armed /\ quit' = st.exit
    BY <1>1, <1>2, Zenon
  <2>2. st.armed \in BOOLEAN /\ st.exit \in BOOLEAN
    BY <1>4 DEF EscStates
  <2> QED  BY <2>1, <2>2
<1>8. /\ st.exit <=> ExitAt(typed') # {}
      /\ ~st.exit => (st.armed <=> OddAt(typed', Len(typed') + 1))
      /\ sent \o o = Meant(typed')
  BY <1>4, <1>5, <1>6, Zenon DEF InStep
<1>9. sent' = (IF o # <<>> /\ sock = "closed" THEN sent ELSE sent \o o)
  BY <1>1, <1>2, <1>5, Zenon
<1>10. stdinPump' = (IF st.exit \/ (o # <<>> /\ sock = "closed") THEN "done" ELSE "run")
  BY <1>1, <1>2, <1>5, Zenon
<1>11. QuitAsMeant'
  BY <1>7, <1>8, Zenon DEF QuitAsMeant
<1>12. stdinPump' = "run" => ~quit' /\ (armed' <=> OddAt(typed', Len(typed') + 1))
  <2>1. stdinPump' = "run" => ~st.exit
    BY <1>10
  <2> QED  BY <1>7, <1>8, <2>1, Zenon
<1>13. IsPrefix(sent, Meant(typed')) /\ IsPrefix(Meant(typed'), Meant(typed'))
  <2>1. sent \o o \in Seq(Keys) /\ (sent \o o) \o <<>> = sent \o o /\ <<>> \in Seq(Keys)
    BY <1>3
  <2>2. IsPrefix(sent, sent \o o) /\ IsPrefix(sent \o o, (sent \o o) \o <<>>)
    BY <1>3, <2>1, PrefixKeys, Zenon
  <2> QED  BY <1>8, <2>1, <2>2, Zenon
<1>14. CASE o # <<>> /\ sock = "closed"
  <2>1. sent' = sent /\ stdinPump' = "done" /\ sock' # "open"
    BY <1>3, <1>9, <1>10, <1>14
  <2>2. SentAsMeant'
    BY <1>13, <2>1 DEF SentAsMeant
  <2> QED  BY <1>3, <1>6, <1>7, <1>11, <1>12, <2>1, <2>2 DEF SentInv
<1>15. CASE ~(o # <<>> /\ sock = "closed")
  <2>1. sent' = Meant(typed')
    BY <1>8, <1>9, <1>15, Zenon
  <2>2. SentAsMeant'
    BY <1>13, <2>1 DEF SentAsMeant
  <2>3. sent' \in Seq(Keys)
    BY <1>3, <1>9
  <2> QED  BY <1>6, <1>7, <1>11, <1>12, <2>1, <2>2, <2>3 DEF SentInv
<1> QED  BY <1>14, <1>15

\* Nothing else that the client or the daemon does sends a byte.
LEMMA SentStep == SentInv /\ [Next]_vars => SentInv'
<1> SUFFICES ASSUME SentInv, [Next]_vars PROVE SentInv'
  OBVIOUS
<1>1. CASE StdinChunk
  BY <1>1, StdinChunkSent
<1>2. CASE StdinEof
  <2>1. UNCHANGED <<typed, armed, sent, quit, sock>> /\ stdinPump' = "done"
    BY <1>2 DEF StdinEof
  <2> QED  BY <2>1 DEF SentInv, QuitAsMeant, SentAsMeant
<1>3. CASE ServerCloses
  <2>1. UNCHANGED <<typed, armed, sent, quit, stdinPump>> /\ sock' = "closed"
    BY <1>3 DEF ServerCloses, inVars
  <2> QED  BY <2>1 DEF SentInv, QuitAsMeant, SentAsMeant
<1>4. CASE SockChunk \/ SockEof \/ AttachReturns \/ UNCHANGED vars
  <2>1. UNCHANGED <<typed, armed, sent, quit, stdinPump, sock>>
    BY <1>4 DEF SockChunk, SockEof, AttachReturns, vars, inVars
  <2> QED  BY <2>1 DEF SentInv, QuitAsMeant, SentAsMeant
<1> QED  BY <1>1, <1>2, <1>3, <1>4 DEF Next

\* SentInv always holds.
LEMMA SentInvariant == Spec => []SentInv
BY SentInit, SentStep, PTL DEF Spec

\* However stdin is split into reads, the guest is sent what the escape
\* convention makes of everything typed (process_input_byte and its
\* escape_armed flag).
THEOREM AlwaysSentAsMeant == Spec => []SentAsMeant
<1>1. SentInv => SentAsMeant
  BY DEF SentInv
<1> QED  BY <1>1, SentInvariant, PTL

\* The client quits when an odd run of Ctrl-A is followed by q, and not
\* otherwise, wherever a read split the escape.
THEOREM QuitsOnlyAsMeant == Spec => []QuitAsMeant
<1>1. SentInv => QuitAsMeant
  BY DEF SentInv
<1> QED  BY <1>1, SentInvariant, PTL
===============================================================================
