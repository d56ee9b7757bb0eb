------------------------------- MODULE Lexer -------------------------------
(***************************************************************************)
(* How a line becomes words: core/buffer.c, which collects it in           *)
(* read_data, core/lexer.c, which splits it on the server, and             *)
(* client/Stanza.cpp, which writes and splits lines on the client.         *)
(*                                                                         *)
(* A line comes from a client of this repository, which sends words, or    *)
(* from anybody, who types characters.  Of the characters only the five    *)
(* that the lexer tells apart are kept, and some plain ones.               *)
(***************************************************************************)
EXTENDS Naturals, Sequences, FiniteSets, SequencesExt

CONSTANTS
  Plain,      \* characters that mean themselves
  BufBase,    \* BUF_ALLOC_BASE
  MaxTyped,   \* bound on the length of a line that is typed
  Words,      \* the lists of words that a client sends
  NULL        \* no token list; a line that no client made

ASSUME PlainAssumption == Plain \cap {"blank", "quote", "backslash", "nul"} = {}
ASSUME BaseAssumption  == BufBase \in Nat \ {0}
ASSUME TypedAssumption == MaxTyped \in Nat
ASSUME WordsAssumption == Words \subseteq Seq(Seq(Plain \cup {"blank"}))

VARIABLES
  pc,       \* "read": read_data; "lex": lexer_split; "listed": the callback
  buffer,   \* client->buffer
  said,     \* the words behind the line, NULL if it was typed
  state,    \* state of the lexer
  i,        \* the index of the next character, from 1
  tokens,   \* the lexer's buffer
  list      \* what lexer_split returns

lexer == <<state, i, tokens, list>>
vars  == <<pc, buffer, said, lexer>>

Char == Plain \cup {"blank", "quote", "backslash", "nul"}

-----------------------------------------------------------------------------
(* Buffer: what it holds, its terminating zero not counted, and its memory. *)
(* Names that begin with "Slip" are plausible slips in the code, beside the *)
(* definitions they would change.                                           *)

(* size_enough *)
SizeEnough(current, required) ==
  LET grown[size \in Nat \ {0}] == IF size < required THEN grown[2 * size] ELSE size
  IN  grown[current]

SlipEnsureSize(memsize, required) ==   \* no room for the terminating zero
  IF memsize >= required THEN memsize ELSE SizeEnough(memsize, required)

EnsureSize(memsize, required) ==
  IF memsize >= required + 1 THEN memsize ELSE SizeEnough(memsize, required + 1)

NewBuffer == [text |-> <<>>, memsize |-> BufBase]

PutChar(buf, c) ==
  [text |-> Append(buf.text, c), memsize |-> EnsureSize(buf.memsize, Len(buf.text) + 1)]

(* One character after the other *)
PutAll(buf, chars) ==
  LET put[k \in 0 .. Len(chars)] == IF k = 0 THEN buf ELSE PutChar(put[k - 1], chars[k])
  IN  put[Len(chars)]

Cleared(buf) == [buf EXCEPT !.text = <<>>]

-----------------------------------------------------------------------------
(* Stanza *)

SlipLine(words) ==   \* nothing between two words
  FlattenSeq([k \in DOMAIN words |-> <<"quote">> \o words[k] \o <<"quote">>])

(* Stanza::toString *)
LineOf(words) ==
  FlattenSeq([k \in DOMAIN words |->
                <<"quote">> \o words[k] \o <<"quote", "blank">>])

(* One turn of the loop in Stanza::parse *)
ParseChar(p, c) ==
  LET Blank == c \in {"blank", "nul"}
  IN
  CASE p.state # "thrown" /\ c = "quote" ->
         [p EXCEPT !.state = IF @ = "Quote" THEN "Word" ELSE "Quote"]
    [] p.state = "Quote" /\ c = "nul" ->
         [p EXCEPT !.state = "thrown"]
    [] p.state = "Word" /\ Blank ->
         [state |-> "Whitespace", word |-> <<>>, words |-> Append(p.words, p.word)]
    [] p.state = "Quote" /\ c \notin {"quote", "nul"} ->
         [p EXCEPT !.word = Append(@, c)]
    [] p.state \in {"Whitespace", "Word"} /\ c # "quote" /\ ~Blank ->
         [p EXCEPT !.state = "Word", !.word = Append(@, c)]
    [] OTHER -> p

(* The loop *)
Parsed(line) ==
  LET parsed[k \in 0 .. Len(line)] ==
        IF k = 0 THEN [state |-> "Whitespace", word |-> <<>>, words |-> <<>>]
                 ELSE ParseChar(parsed[k - 1], line[k])
  IN  parsed[Len(line)]

SlipParse(line) ==   \* the terminating zero is not handled
  LET end == Parsed(line)
  IN  IF end.state = "thrown" THEN NULL ELSE end.words

(* Stanza::parse; NULL stands for ParserException *)
Parse(line) ==
  LET end == Parsed(Append(line, "nul"))
  IN  IF end.state = "thrown" THEN NULL ELSE end.words

-----------------------------------------------------------------------------
(* read_data *)

Init ==
  /\ pc = "read" /\ buffer = NewBuffer /\ said = NULL
  /\ state = "ST_WHITESPACE" /\ i = 1 /\ tokens = NewBuffer /\ list = NULL

(* A client of this repository writes a stanza, all but its newline. *)
ReadStanza(words) ==
  /\ pc = "read" /\ buffer.text = <<>>
  /\ said' = words
  /\ buffer' = PutAll(buffer, LineOf(words))
  /\ UNCHANGED <<pc, lexer>>

ReadChar(c) ==
  /\ pc = "read" /\ said = NULL /\ Len(buffer.text) < MaxTyped
  /\ buffer' = PutChar(buffer, c)
  /\ UNCHANGED <<pc, said, lexer>>

(* The newline: on_incoming_message calls lexer_split. *)
ReadNewline ==
  /\ pc = "read"
  /\ pc' = "lex"
  /\ UNCHANGED <<buffer, said, lexer>>

(* The callback ends with lexer_delete; then buffer_clear. *)
Clear ==
  /\ pc = "listed"
  /\ pc' = "read"
  /\ buffer' = Cleared(buffer) /\ said' = NULL
  /\ state' = "ST_WHITESPACE" /\ i' = 1 /\ tokens' = NewBuffer /\ list' = NULL

-----------------------------------------------------------------------------
(* lexer_split *)

(* strlen: the line as the lexer sees it ends at its first zero. *)
CString(text) ==
  IF "nul" \in Range(text)
    THEN SubSeq(text, 1, SelectInSeq(text, LAMBDA c : c = "nul") - 1)
    ELSE text

Src == CString(buffer.text)

Current == Append(Src, "nul")[i]

At(s) ==
  /\ pc = "lex" /\ state = s /\ i <= Len(Src) + 1
  /\ i' = i + 1
  /\ UNCHANGED <<pc, buffer, said, list>>

Goto(s)      == state' = s /\ UNCHANGED tokens
PutGoto(c, s) == state' = s /\ tokens' = PutChar(tokens, c)

Whitespace ==
  /\ At("ST_WHITESPACE")
  /\ \/ Current = "quote" /\ Goto("ST_QUOTE")
     \/ Current = "backslash" /\ Goto("ST_ESCAPE")
     \/ Current \in Plain /\ PutGoto(Current, "ST_WORD")
     \/ Current \in {"blank", "nul"} /\ Goto("ST_WHITESPACE")

Quote ==
  /\ At("ST_QUOTE")
  /\ \/ Current = "quote" /\ Goto("ST_WORD")
     \/ Current = "backslash" /\ Goto("ST_QUOTE_ESCAPE")
     \/ Current \in Plain \cup {"blank"} /\ PutGoto(Current, "ST_QUOTE")
     \/ Current = "nul" /\ Goto("ST_ERROR")

Word ==
  /\ At("ST_WORD")
  /\ \/ Current \in {"blank", "nul"} /\ PutGoto("nul", "ST_WHITESPACE")
     \/ Current = "quote" /\ Goto("ST_QUOTE")
     \/ Current = "backslash" /\ Goto("ST_ESCAPE")
     \/ Current \in Plain /\ PutGoto(Current, "ST_WORD")

Escape ==
  /\ At("ST_ESCAPE")
  /\ IF Current # "nul" THEN PutGoto(Current, "ST_WORD") ELSE Goto("ST_ERROR")

SlipQuoteEscape ==   \* the quoted part ends with the escaped character
  /\ At("ST_QUOTE_ESCAPE")
  /\ IF Current # "nul" THEN PutGoto(Current, "ST_WORD") ELSE Goto("ST_ERROR")

QuoteEscape ==
  /\ At("ST_QUOTE_ESCAPE")
  /\ IF Current # "nul" THEN PutGoto(Current, "ST_QUOTE") ELSE Goto("ST_ERROR")

(* The members of S up to n, in ascending order *)
Ascending(S, n) ==
  LET found[k \in 0 .. n] ==
        IF k = 0 THEN <<>>
        ELSE IF k \in S THEN Append(found[k - 1], k) ELSE found[k - 1]
  IN  found[n]

(* make_token_list: the strings between the zeros *)
TokenList(chars) ==
  LET zeros == Ascending({k \in DOMAIN chars : chars[k] = "nul"}, Len(chars))
  IN  [k \in DOMAIN zeros |->
         SubSeq(chars, IF k = 1 THEN 1 ELSE zeros[k - 1] + 1, zeros[k] - 1)]

Return ==
  /\ pc = "lex" /\ (state = "ST_ERROR" \/ i > Len(Src) + 1)
  /\ pc' = "listed"
  /\ list' = IF state = "ST_ERROR" THEN NULL ELSE TokenList(tokens.text)
  /\ UNCHANGED <<buffer, said, state, i, tokens>>

-----------------------------------------------------------------------------
(* Specification *)

Split == Whitespace \/ Quote \/ Word \/ Escape \/ QuoteEscape \/ Return

Next ==
  \/ \E words \in Words : ReadStanza(words)
  \/ \E c \in Char : ReadChar(c)
  \/ ReadNewline
  \/ Split
  \/ Clear

Spec == Init /\ [][Next]_vars

-----------------------------------------------------------------------------
(* The grammar, declared: a backslash takes the meaning from the character  *)
(* behind it; quotes that keep their meaning come in pairs; a blank that    *)
(* keeps its meaning, outside the quotes, separates, as the end of the line *)
(* does; and a word is a longest stretch without separators, less the       *)
(* quotes and backslashes that keep their meaning.                          *)

Escaped(line) ==
  LET escaped[k \in 0 .. Len(line)] ==
        IF k = 0 THEN FALSE
        ELSE k > 1 /\ line[k - 1] = "backslash" /\ ~escaped[k - 1]
  IN  escaped

Live(line, k, c) == line[k] = c /\ ~Escaped(line)[k]

Quoting(line, k) == Cardinality({j \in 1 .. k : Live(line, j, "quote")}) % 2 = 1

Separates(line, k) ==
  k = Len(line) + 1 \/ (Live(line, k, "blank") /\ ~Quoting(line, k))

Stretch(line, k) == {j \in 1 .. k : \A m \in j .. k : ~Separates(line, m)}

Meant(line, k) ==
  LET kept == Ascending({j \in Stretch(line, k) : /\ ~Live(line, j, "quote")
                                                 /\ ~Live(line, j, "backslash")}, k)
  IN  [j \in DOMAIN kept |-> line[kept[j]]]

Ends(line) == {k \in 1 .. Len(line) : ~Separates(line, k) /\ Separates(line, k + 1)}

Grammar(line) ==
  LET N    == Len(line)
      ends == Ascending(Ends(line), N)
  IN  IF Quoting(line, N) \/ (N > 0 /\ Live(line, N, "backslash"))
        THEN NULL
        ELSE [k \in DOMAIN ends |-> Meant(line, ends[k])]

(* The five-state machine, its single buffer of strings separated by zeros  *)
(* and the second pass over it give exactly the words of the grammar that   *)
(* lexer.c's header describes, in order, empty ones included, and an error  *)
(* exactly for an open quote or a backslash at the end.                     *)
TokensByGrammar == pc = "listed" => list = Grammar(Src)

(* No buffer is written past its memory, the terminating zero included,     *)
(* however the lines before have made it grow.                              *)
WithinMemory ==
  /\ Len(buffer.text) + 1 <= buffer.memsize
  /\ Len(tokens.text) + 1 <= tokens.memsize

(* What a client's Stanza::toString writes, the server's lexer reads as the *)
(* same words: empty ones, and ones with blanks, included.                  *)
WordsArrive == pc = "listed" /\ said # NULL => list = said

(* The client's parser and the server's lexer read a line alike, unless the *)
(* line uses the backslash, which only the server knows.                    *)
ParsersAgree ==
  pc = "listed" /\ Range(buffer.text) \cap {"backslash", "nul"} = {} =>
    Parse(buffer.text) = list
=============================================================================
