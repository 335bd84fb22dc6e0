------------------------------ MODULE Terminal ------------------------------
(***************************************************************************)
(* The two pumps of `dw attach`: stdin to the attach socket through the    *)
(* Ctrl-A escape (process_input_byte), and the socket to stdout through    *)
(* the line-ending translation (normalize_line_endings). Both filters keep *)
(* one flag of state from one read to the next, and a read may split the   *)
(* stream anywhere.                                                        *)
(*                                                                         *)
(* The bytes that matter to the filters are named; "x" is any other.       *)
(***************************************************************************)
EXTENDS Naturals, Sequences, SequencesExt

CONSTANTS
  MaxLen,     \* bound: bytes typed, and bytes received
  MaxChunk    \* bound: bytes one read returns (256 and 1024 in the code)

ASSUME TerminalAssumption ==
  MaxLen \in Nat /\ MaxChunk \in Nat \ {0}

VARIABLES
  translate, \* args.raw is not set; fixed for the life of the client
  typed,     \* history: the bytes read from stdin
  armed,     \* escape_armed
  sent,      \* the bytes written to the socket
  stdinPump, \* stdin_to_sock: "run" or "done"
  quit,      \* history: the pump ended because of Ctrl-A q
  rcvd,      \* history: the bytes read from the socket
  hadCr,     \* had_cr
  shown,     \* the bytes written to stdout
  sockPump,  \* sock_to_stdout: "run", "done" or "broken" (a failed write)
  sock,      \* the server's end of the socket: "open" or "closed"
  client     \* the process: "run" or "exited"

inVars  == <<typed, armed, sent, stdinPump, quit>>
outVars == <<rcvd, hadCr, shown, sockPump>>
vars    == <<translate, inVars, outVars, sock, client>>

Keys  == {"^A", "q", "x"}
Chars == {"CR", "LF", "x"}

Chunks(S) == UNION {[1..k -> S] : k \in 1..MaxChunk}

Init ==
  /\ translate \in BOOLEAN
  /\ typed = <<>> /\ armed = FALSE /\ sent = <<>>
  /\ stdinPump = "run" /\ quit = FALSE
  /\ rcvd = <<>> /\ hadCr = FALSE /\ shown = <<>>
  /\ sockPump = "run"
  /\ sock = "open" /\ client = "run"

----------------------------------------------------------------------------
(* stdin to the socket *)

\* Faulty variants of ProcessInputByte: a held Ctrl-A is dropped when the
\* next byte is not part of an escape, and the escape stays armed after a
\* literal Ctrl-A.
ProcessInputByteLossy(st, b) ==
  IF st.exit THEN st
  ELSE IF st.armed
    THEN [armed |-> FALSE,
          exit  |-> b = "q",
          out   |-> st.out \o (IF b = "q" THEN <<>> ELSE <<b>>)]
    ELSE [armed |-> b = "^A",
          exit  |-> FALSE,
          out   |-> st.out \o (IF b = "^A" THEN <<>> ELSE <<b>>)]

ProcessInputByteSticky(st, b) ==
  IF st.exit THEN st
  ELSE IF st.armed
    THEN [armed |-> b = "^A",
          exit  |-> b = "q",
          out   |-> st.out \o (CASE b = "^A" -> <<"^A">>
                                 [] b = "q"  -> <<>>
                                 [] OTHER    -> <<"^A", b>>)]
    ELSE [armed |-> b = "^A",
          exit  |-> FALSE,
          out   |-> st.out \o (IF b = "^A" THEN <<>> ELSE <<b>>)]

\* process_input_byte, and the loop over a chunk that stops at an exit.
ProcessInputByte(st, b) ==
  IF st.exit THEN st
  ELSE IF st.armed
    THEN [armed |-> FALSE,
          exit  |-> b = "q",
          out   |-> st.out \o (CASE b = "^A" -> <<"^A">>
                                 [] b = "q"  -> <<>>
                                 [] OTHER    -> <<"^A", b>>)]
    ELSE [armed |-> b = "^A",
          exit  |-> FALSE,
          out   |-> st.out \o (IF b = "^A" THEN <<>> ELSE <<b>>)]

\* One round of stdin_to_sock: the filtered bytes are written even if the
\* chunk ends in an exit; a failed write ends the pump.
StdinChunk ==
  /\ client = "run"
  /\ stdinPump = "run"
  /\ \E c \in Chunks(Keys) :
       LET st == FoldLeft(ProcessInputByte,
                          [armed |-> armed, exit |-> FALSE, out |-> <<>>], c)
           fails == st.out # <<>> /\ sock = "closed"
       IN
       /\ Len(typed) + Len(c) <= MaxLen
       /\ typed' = typed \o c
       /\ armed' = st.armed
       /\ sent'  = IF fails THEN sent ELSE sent \o st.out
       /\ stdinPump' = IF st.exit \/ fails THEN "done" ELSE "run"
       /\ quit' = st.exit
  /\ UNCHANGED <<translate, outVars, sock, client>>

StdinEof ==
  /\ client = "run"
  /\ stdinPump = "run"
  /\ stdinPump' = "done"
  /\ UNCHANGED <<translate, typed, armed, sent, quit, outVars, sock, client>>

----------------------------------------------------------------------------
(* The socket to stdout *)

\* Faulty variant of NormalizeByte: a line feed after a carriage return does
\* not use the carriage return up.
NormalizeByteTwice(st, b) ==
  CASE b = "CR" -> [hadCr |-> TRUE,
                    out |-> st.out \o (IF st.hadCr THEN <<"CR", "LF">> ELSE <<>>)]
    [] b = "LF" -> [hadCr |-> st.hadCr, out |-> st.out \o <<"CR", "LF">>]
    [] OTHER    -> [hadCr |-> FALSE,
                    out |-> st.out \o (IF st.hadCr THEN <<"CR", "LF">> ELSE <<>>)
                                   \o <<b>>]

\* One byte of normalize_line_endings.
NormalizeByte(st, b) ==
  CASE b = "CR" -> [hadCr |-> TRUE,
                    out |-> st.out \o (IF st.hadCr THEN <<"CR", "LF">> ELSE <<>>)]
    [] b = "LF" -> [hadCr |-> FALSE, out |-> st.out \o <<"CR", "LF">>]
    [] OTHER    -> [hadCr |-> FALSE,
                    out |-> st.out \o (IF st.hadCr THEN <<"CR", "LF">> ELSE <<>>)
                                   \o <<b>>]

\* One round of sock_to_stdout; a failed write ends the pump and loses what
\* the round was to show.
SockChunk ==
  /\ client = "run"
  /\ sockPump = "run"
  /\ sock = "open"
  /\ \E c \in Chunks(Chars), fails \in BOOLEAN :
       LET st == FoldLeft(NormalizeByte, [hadCr |-> hadCr, out |-> <<>>], c) IN
       /\ Len(rcvd) + Len(c) <= MaxLen
       /\ rcvd' = rcvd \o c
       /\ hadCr' = (translate /\ st.hadCr)
       /\ shown' = IF fails THEN shown
                   ELSE shown \o (IF translate THEN st.out ELSE c)
       /\ sockPump' = IF fails THEN "broken" ELSE "run"
  /\ UNCHANGED <<translate, inVars, sock, client>>

SockEof ==
  /\ client = "run"
  /\ sockPump = "run"
  /\ sock = "closed"
  /\ sockPump' = "done"
  /\ UNCHANGED <<translate, inVars, rcvd, hadCr, shown, sock, client>>

\* The daemon goes away.
ServerCloses ==
  /\ sock = "open"
  /\ sock' = "closed"
  /\ UNCHANGED <<translate, inVars, outVars, client>>

\* select! in attach: the client exits as soon as one pump has ended.
AttachReturns ==
  /\ client = "run"
  /\ stdinPump = "done" \/ sockPump \in {"done", "broken"}
  /\ client' = "exited"
  /\ UNCHANGED <<translate, inVars, outVars, sock>>

Next ==
  \/ StdinChunk
  \/ StdinEof
  \/ SockChunk
  \/ SockEof
  \/ ServerCloses
  \/ AttachReturns

Spec == Init /\ [][Next]_vars

----------------------------------------------------------------------------
(* Properties *)

\* How many Ctrl-A precede position i of s without a gap.
RunBefore(s, i) ==
  CHOOSE k \in 0..(i - 1) :
    /\ \A j \in (i - k)..(i - 1) : s[j] = "^A"
    /\ i - k = 1 \/ s[i - k - 1] # "^A"

\* What the escape convention makes of a typed text, by runs of Ctrl-A: a run
\* of k Ctrl-A stands for k/2 of them, rounded up if an ordinary byte
\* follows, and an odd run followed by q is the exit.
ExitAt(s) ==
  {i \in 1..Len(s) : s[i] = "q" /\ RunBefore(s, i) % 2 = 1}

Until(s) ==
  IF ExitAt(s) = {} THEN s
  ELSE SubSeq(s, 1, (CHOOSE i \in ExitAt(s) : \A j \in ExitAt(s) : i <= j) - 1)

EscapePiece(s, i) ==
  IF s[i] = "^A"
    THEN IF RunBefore(s, i) % 2 = 1 THEN <<"^A">> ELSE <<>>
    ELSE IF RunBefore(s, i) % 2 = 1 THEN <<"^A", s[i]>> ELSE <<s[i]>>

Meant(s) == FlattenSeq([i \in 1..Len(Until(s)) |-> EscapePiece(Until(s), i)])

\* However stdin is split into reads, the guest is sent exactly what the
\* escape convention makes of everything typed so far ("any other byte passes
\* through unchanged"), as long as the socket takes it.
SentAsMeant ==
  /\ IsPrefix(sent, Meant(typed))
  /\ sock = "open" => sent = Meant(typed)

\* The client quits on an escape the user completed, and on no other input:
\* not on a q after a literal Ctrl-A, nor on one far from the Ctrl-A.
QuitAsMeant ==
  quit <=> ExitAt(typed) # {}

\* Line endings by looking ahead: CR LF, CR alone and LF alone are each one
\* line ending, shown as CR LF.
LinePiece(s, i) ==
  CASE s[i] = "LF" -> <<"CR", "LF">>
    [] s[i] = "CR" -> IF i < Len(s) /\ s[i + 1] = "LF" THEN <<>> ELSE <<"CR", "LF">>
    [] OTHER       -> <<s[i]>>

Lines(s) == FlattenSeq([i \in 1..Len(s) |-> LinePiece(s, i)])

\* However the stream is split into reads, every line ending is shown as one
\* CR LF and no other byte is touched; all that may be missing is the line
\* ending of a CR that nothing follows yet, and what a broken stdout lost.
LinesShown ==
  LET all == IF translate THEN Lines(rcvd) ELSE rcvd
      due == IF hadCr THEN <<"CR", "LF">> ELSE <<>>
  IN
  /\ IsPrefix(shown, all)
  /\ sockPump # "broken" => shown \o due = all
=============================================================================
