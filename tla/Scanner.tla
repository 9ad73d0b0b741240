------------------------------ MODULE Scanner ------------------------------
(***************************************************************************)
(* The scanner flex made of scanner.l, from characters to tokens: matching *)
(* with the tables, the input buffers and their refilling, the start       *)
(* conditions and actions of the rules, and the stack of included files    *)
(* that scanctx.c keeps.  A configuration is read through it once, until   *)
(* its end or until the parser gives up.                                   *)
(***************************************************************************)
EXTENDS ScannerRules, SequencesExt

CONSTANTS
  Texts,         \* texts of the configuration
  Included,      \* texts of the files it may include
  BufSize,       \* YY_BUF_SIZE
  ReadSize,      \* YY_READ_BUF_SIZE
  MaxIncludeDepth,
  Strings,       \* whether config_read_string may be what reads it
  Terminals      \* whether a file may be a terminal

ASSUME TextsAssumption == \A text \in Texts \cup Included : text \in Seq(STRING)

ASSUME BuffersAssumption ==
  /\ BufSize \in Nat \ {0} /\ ReadSize \in Nat \ {0} /\ MaxIncludeDepth \in Nat
  /\ Strings \subseteq BOOLEAN /\ Terminals \subseteq BOOLEAN

NUL == "NUL"     \* a NUL character of a file

ASSUME NULAssumption == ClassOf(NUL) = 1

VARIABLES
  buffers,     \* live buffers, by number
  current,     \* YY_CURRENT_BUFFER, 0 for none
  nChars,      \* yyg->yy_n_chars
  pos,         \* yyg->yy_c_buf_p
  start,       \* yyg->yy_start
  atEnd,       \* the text up to the end of the buffer is to be matched as it is
  stack,       \* scan_ctx: the buffers of the including files, their includes open
  string,      \* scan_ctx->string
  token,       \* what yylex returned, when that was the last step
  result       \* "running", "ended", "stopped", "destroyed"

input == <<buffers, current, nChars, pos>>
vars == <<input, start, atEnd, stack, string, token, result>>

b == buffers[current]

\* text: what the buffer is to deliver; got: how much of it is read from its stream;
\* offset: how much of it was matched.
Buffer(text, fill, interactive) ==
  [chars |-> IF fill THEN << >> ELSE text, n |-> IF fill THEN 0 ELSE Len(text), pos |-> 1,
   size |-> IF fill THEN BufSize ELSE Len(text), bol |-> TRUE, status |-> "NEW", line |-> 1,
   fill |-> fill, interactive |-> interactive,
   text |-> text, got |-> IF fill THEN 0 ELSE Len(text), offset |-> 0]

Token(kind, text) == [kind |-> kind, text |-> text, line |-> b.line]
NoToken == [kind |-> "NONE", text |-> << >>, line |-> 0]

Init ==
  /\ \E text \in Texts, fill \in {TRUE} \cup {~ s : s \in Strings}, tty \in Terminals :
       /\ ~ fill => ~ tty /\ NUL \notin Range(text)
       /\ buffers = [k \in {1} |-> Buffer(text, fill, tty)]
       /\ nChars = IF fill THEN 0 ELSE Len(text)
  /\ current = 1 /\ pos = 1
  /\ start = INITIAL /\ atEnd = FALSE
  /\ stack = << >> /\ string = << >>
  /\ token = NoToken
  /\ result = "running"
-----------------------------------------------------------------------------
(* Matching.                                                               *)

\* Two NULs follow the last character: a NUL before them is told by where it is.
CharClass(i) ==
  IF i > nChars THEN 0 ELSE IF b.chars[i] = NUL THEN 1 ELSE ClassOf(b.chars[i])

\* The state after k characters of the match; two NULs stand behind the last one.
after[k \in 0..(nChars - pos + 3)] ==
  IF k = 0 THEN start + (IF b.bol THEN 1 ELSE 0)
  ELSE next[after[k - 1]][CharClass(pos + k - 1) + 1]

\* Where the match stops.
stop == Min({k \in DOMAIN after : Stops(after[k]) \/ (atEnd /\ pos + k > nChars)})

Accepted(k) == yy_accept[after[k] + 1]
accepting == {k \in 0..stop : Accepted(k) # 0}

\* Mutant: no backing up.
FoundAtStop == <<stop, Accepted(Max(accepting))>>

\* The length of the match and the rule, where the state was accepting last.
Found ==
  LET lengths == accepting
  IN IF lengths = {} THEN <<0, 0>> ELSE <<Max(lengths), Accepted(Max(lengths))>>

\* Rule 39 has trailing context, the newline.
match ==
  LET found == Found
      yyleng == found[1] - (IF found[2] = 39 THEN 1 ELSE 0)
  IN [length |-> found[1], rule |-> found[2],
      text |-> SubSeq(b.chars, pos, Min({pos + yyleng - 1, nChars}))]

EndOfBuffer == 42

Newlines(s) == Cardinality({i \in DOMAIN s : s[i] = "\n"})

\* The buffer after the match, YY_RULE_SETUP included.
MatchedBuffer(m) ==
  [b EXCEPT !.line = @ + (IF CanMatchEol(m.rule) THEN Newlines(m.text) ELSE 0),
            !.bol = Last(m.text) = "\n",
            !.offset = @ + Len(m.text)]

\* The parser gives up on these two.
Scanning == result = "running" /\ token.kind \notin {"GARBAGE", "ERROR"}

Match(m, rules) ==
  /\ Scanning /\ m.rule \in rules
  /\ atEnd' = FALSE

Consume(m) ==
  /\ buffers' = [buffers EXCEPT ![current] = MatchedBuffer(m)]
  /\ pos' = pos + Len(m.text)
  /\ UNCHANGED <<current, nChars, stack, result>>
-----------------------------------------------------------------------------
(* The rules.                                                              *)

\* Rule 41 is the default: the text goes to the standard output.
Blank(m) ==
  /\ Match(m, {3, 4, 20, 21, 39, 41}) /\ Consume(m)
  /\ token' = NoToken
  /\ UNCHANGED <<start, string>>

Begin(m) ==
  /\ Match(m, {1, 2, 5, 15}) /\ Consume(m)
  /\ start' = [r \in {1, 2, 5, 15} |-> CASE r = 1 -> IN_COMMENT [] r = 2 -> INITIAL
                                         [] r = 5 -> IN_STRING [] r = 15 -> IN_INCLUDE][m.rule]
  /\ token' = NoToken
  /\ UNCHANGED string

\* strcpy: nothing behind a NUL is appended.
UpToNul(s) ==
  SubSeq(s, 1, Min({i \in DOMAIN s : s[i] = NUL} \cup {Len(s) + 1}) - 1)

AppendString(m) ==
  /\ Match(m, {6, 7, 8, 9, 10, 11, 12, 13, 16, 17, 18}) /\ Consume(m)
  /\ string' = string \o
       CASE m.rule \in {6, 16} -> UpToNul(m.text)
         [] m.rule = 7 -> <<"\n">> [] m.rule = 8 -> <<"\r">> [] m.rule = 9 -> <<"\t">>
         [] m.rule = 10 -> <<"\f">> [] m.rule \in {11, 17} -> <<"\\">>
         [] m.rule \in {12, 18} -> <<"\"">>
         [] m.rule = 13 -> IF m.text[3] = "0" /\ m.text[4] = "0" THEN << >>
                         ELSE <<m.text[3] \o m.text[4]>>
  /\ token' = NoToken
  /\ UNCHANGED start

EndString(m) ==
  /\ Match(m, {14}) /\ Consume(m)
  /\ token' = Token("STRING", string)
  /\ string' = << >>
  /\ start' = INITIAL

tokenOf ==
  [r \in 22..40 |->
     <<"EQUALS", "COMMA", "GROUP_START", "GROUP_END", "BOOLEAN", "BOOLEAN", "NAME", "FLOAT",
       "INTEGER", "INTEGER64", "HEX", "HEX64", "ARRAY_START", "ARRAY_END", "LIST_START",
       "LIST_END", "SEMICOLON", "NONE", "GARBAGE">>[r - 21]]

ReturnToken(m) ==
  /\ Match(m, (22..38) \cup {40}) /\ Consume(m)
  /\ token' = [Token(tokenOf[m.rule], m.text) EXCEPT !.line = MatchedBuffer(m).line]
  /\ UNCHANGED <<start, string>>

\* yy_switch_to_buffer stores what only the scanner knew of the buffer it leaves.
Saved(m) ==
  [buffers EXCEPT ![current] = [MatchedBuffer(m) EXCEPT !.pos = pos + Len(m.text), !.n = nChars]]

\* The quote that ends the name of a file to include.
OpenInclude(m) ==
  /\ Match(m, {19})
  /\ Len(stack) < MaxIncludeDepth
  /\ string' = << >>
  /\ \E text \in Included :
       LET new == Max(DOMAIN buffers) + 1 IN
         /\ buffers' = [k \in DOMAIN buffers \cup {new} |->
                          IF k = new THEN Buffer(text, TRUE, FALSE) ELSE Saved(m)[k]]
         /\ current' = new
  /\ stack' = Append(stack, current)
  /\ nChars' = 0 /\ pos' = 1
  /\ start' = INITIAL /\ token' = NoToken
  /\ UNCHANGED result

\* There is no such file, or it is nested too deep.
FailInclude(m) ==
  /\ Match(m, {19}) /\ Consume(m)
  /\ string' = IF Len(stack) < MaxIncludeDepth THEN << >> ELSE string
  /\ token' = Token("ERROR", << >>)
  /\ UNCHANGED start
-----------------------------------------------------------------------------
(* The end of the buffer.                                                  *)

\* The size doubles until one character more has room.
Grown(size, moved) ==
  LET grown[n \in Nat] == IF n > moved + 1 THEN n ELSE grown[n * 2] IN grown[size]

\* YY_INPUT: a terminal delivers no more than a line.
InputLength(room) ==
  LET rest == SubSeq(b.text, b.got + 1, Len(b.text))
      most == Min({room, ReadSize, Len(rest)})
  IN IF b.interactive
       THEN Min({i \in 1..most : rest[i] = "\n"} \cup {most})
       ELSE most

\* Mutant: what moves is the front of the buffer.
RefillFront(moved) ==
  LET size == IF b.status = "EOF_PENDING" THEN b.size ELSE Grown(b.size, moved)
      read == IF b.status = "EOF_PENDING" THEN 0 ELSE InputLength(size - moved - 1)
  IN [b EXCEPT !.chars = SubSeq(b.chars, 1, moved) \o SubSeq(b.text, b.got + 1, b.got + read),
               !.size = size,
               !.got = @ + read,
               !.n = read,
               !.status = IF read = 0 THEN "EOF_PENDING" ELSE "NORMAL"]

\* yy_get_next_buffer: the match so far moves to the front, and more is read behind it.
Refill(moved) ==
  LET size == IF b.status = "EOF_PENDING" THEN b.size ELSE Grown(b.size, moved)
      read == IF b.status = "EOF_PENDING" THEN 0 ELSE InputLength(size - moved - 1)
  IN [b EXCEPT !.chars = SubSeq(b.chars, pos, pos + moved - 1)
                           \o SubSeq(b.text, b.got + 1, b.got + read),
               !.size = size,
               !.got = @ + read,
               !.n = read,
               !.status = IF read = 0 THEN "EOF_PENDING" ELSE "NORMAL"]

\* yyrestart, with the buffer's own stream
Restarted(r) == [r EXCEPT !.chars = << >>, !.n = 0, !.pos = 1, !.bol = TRUE, !.status = "NEW"]

\* Text is left, or more was read.
Continue(m) ==
  LET moved == m.length - 1 IN
  /\ Scanning /\ m.rule = EndOfBuffer
  /\ IF b.fill
       THEN LET r == Refill(moved) IN
              /\ ~ (r.n = 0 /\ moved = 0)
              /\ buffers' = [buffers EXCEPT ![current] = r]
              /\ nChars' = r.n + moved
              /\ pos' = 1
              /\ atEnd' = (r.n = 0)
       ELSE /\ moved # 0
            /\ buffers' = [buffers EXCEPT ![current].status = "NORMAL"]
            /\ atEnd' = TRUE
            /\ UNCHANGED <<nChars, pos>>
  /\ token' = NoToken
  /\ UNCHANGED <<current, start, stack, string, result>>

AtEOF(m) ==
  /\ Scanning /\ m.rule = EndOfBuffer /\ m.length = 1
  /\ b.fill => Refill(0).n = 0

\* <<EOF>> of an included file: its buffer is deleted and the including one loaded.
PopInclude(m) ==
  /\ AtEOF(m) /\ stack # << >>
  /\ buffers' = [k \in DOMAIN buffers \ {current} |-> buffers[k]]
  /\ current' = Last(stack)
  /\ stack' = Front(stack)
  /\ nChars' = buffers[Last(stack)].n
  /\ pos' = buffers[Last(stack)].pos
  /\ token' = NoToken
  /\ UNCHANGED <<start, atEnd, string, result>>

EndOfInput(m) ==
  /\ AtEOF(m) /\ stack = << >>
  /\ buffers' = [buffers EXCEPT ![current] = IF b.fill THEN Restarted(b) ELSE b]
  /\ nChars' = IF b.fill THEN 0 ELSE nChars
  /\ pos' = IF b.fill THEN 1 ELSE pos
  /\ token' = Token("EOF", << >>)
  /\ result' = "ended"
  /\ UNCHANGED <<current, start, atEnd, stack, string>>
-----------------------------------------------------------------------------
(* The end of __config_read.                                               *)

\* The parser may refuse any token.
Refuse ==
  /\ result = "running" /\ token.kind # "NONE"
  /\ result' = "stopped"
  /\ UNCHANGED <<input, start, atEnd, stack, string, token>>

\* The buffers of the including files are deleted, and the included files closed.
Unwind ==
  /\ result = "stopped" /\ stack # << >>
  /\ buffers' = [k \in DOMAIN buffers \ {Last(stack)} |-> buffers[k]]
  /\ stack' = Front(stack)
  /\ UNCHANGED <<current, nChars, pos, start, atEnd, string, token, result>>

\* yylex_destroy and scanctx_cleanup
Destroy ==
  /\ result \in {"stopped", "ended"} /\ stack = << >>
  /\ buffers' = [k \in DOMAIN buffers \ {current} |-> buffers[k]]
  /\ current' = 0
  /\ string' = << >>
  /\ result' = "destroyed"
  /\ UNCHANGED <<nChars, pos, start, atEnd, stack, token>>

Done == result = "destroyed" /\ UNCHANGED vars

Scan ==
  \E m \in {match} :
    \/ Blank(m) \/ Begin(m) \/ AppendString(m) \/ EndString(m) \/ ReturnToken(m)
    \/ OpenInclude(m) \/ FailInclude(m) \/ Continue(m) \/ PopInclude(m) \/ EndOfInput(m)

Next == \/ Scanning /\ Scan
        \/ Refuse \/ Unwind \/ Destroy \/ Done

Spec == Init /\ [][Next]_vars
-----------------------------------------------------------------------------
(* What scanner.l says.                                                    *)

Cut(s, k) == SubSeq(s, k + 1, Len(s))

\* The longest match, and of the rules that match as much the first.
Munch ==
  LET all == Matches(start, b.bol, Cut(b.text, b.offset))
      k == Max({q[1] : q \in all})
  IN <<k, Min({q[2] : q \in {q \in all : q[1] = k}})>>
-----------------------------------------------------------------------------
(* Properties.                                                             *)

\* Every match the compressed tables make on what happens to be in the buffer is the longest
\* match of the first rule of scanner.l on the whole text: neither the packing of the tables,
\* nor backing up, nor the places where the text was cut into reads shows in the tokens
\* (yylex, yy_get_next_buffer).
LongestMatch ==
  Scanning => \E m \in {match} : m.rule # EndOfBuffer => <<m.length, m.rule>> = Munch

\* No character is lost, doubled or moved when the buffer is refilled or grows, or when an
\* included file ends and its including one goes on: what is in the buffer from yy_c_buf_p on,
\* and then what is still to be read, is what was not matched of the text.
NothingLost ==
  result = "running" =>
    SubSeq(b.chars, pos, nChars) \o Cut(b.text, b.got) = Cut(b.text, b.offset)

\* The line an error message or config_setting_source_line reports counts the newlines before
\* it in its own file, also after included files and after comments, whose rule matches the
\* newline and gives it back.
LinesCounted ==
  \A k \in DOMAIN buffers :
    buffers[k].line = 1 + Newlines(SubSeq(buffers[k].text, 1, buffers[k].offset))

\* The live buffers are the current one and, without repetition, those of the including
\* files; none is left at the end, however the parse ends (<<EOF>>, __config_read).
BuffersOwned ==
  /\ DOMAIN buffers = ({current} \ {0}) \cup Range(stack)
  /\ Cardinality(DOMAIN buffers) = Len(stack) + (IF current = 0 THEN 0 ELSE 1)
  /\ result = "destroyed" => buffers = << >>

\* All of it: the scanner, on however small a buffer, treats its texts as if each were in
\* memory as a whole.
InputKept == NothingLost /\ LinesCounted /\ BuffersOwned
=============================================================================
