------------------------------ MODULE Characters ------------------------------
(***************************************************************************)
(* The character iterators of tcc_cc.c, each put on the one before it: the *)
(* file, the line splice, the comment strip (a co-routine that goes on     *)
(* where it returned last) and the include iterator, which gives the       *)
(* characters of a file in the place of the line that includes it; and the *)
(* characters C says are left after its first three phases.                *)
(*                                                                         *)
(* Every iterator has the character it is on, 0 at the end, and its line.  *)
(***************************************************************************)
EXTENDS Integers, Sequences

LOCAL INSTANCE SequencesExt

CONSTANTS
  Texts,     \* the contents of files: sequences of characters
  Headers,   \* those of the files that can be included
  MaxDepth   \* and how many of them at a time: _parent_source_its has room for ten

VARIABLES
  source_it,  \* the iterator of the file that is being read
  parents,    \* those of the files that include it, the innermost last
  base,       \* the character given
  left        \* and the characters C has there, it and the ones after it

vars == <<source_it, parents, base, left>>

NL == 10
CR == 13
Space == 32
Quote == 34
Apostrophe == 39
Star == 42
Slash == 47
Backslash == 92

Char(ch, line) == [ch |-> ch, line |-> line]
At(it) == Char(it.ch, it.line)
------------------------------------------------------------------------------
(* The file.                                                               *)

RECURSIVE file_iterator_next(_)
SkipReturns(f) == IF f.ch = CR THEN file_iterator_next(f) ELSE f
file_iterator_next(f) ==
  IF f.ch = 0 THEN f
  ELSE SkipReturns([text |-> IF f.text = <<>> THEN <<>> ELSE Tail(f.text),
                    ch |-> IF f.text = <<>> THEN 0 ELSE Head(f.text),
                    line |-> IF f.ch = NL THEN f.line + 1 ELSE f.line])

new_file_iterator(text) == file_iterator_next([text |-> text, ch |-> NL, line |-> 0])

------------------------------------------------------------------------------
(* The line splice.                                                        *)

\* On the character of the file, with the one after it looked at.
OnThe(file, after) == [file |-> after, ch |-> file.ch, a |-> after.ch, line |-> file.line]
On(file) == OnThe(file, file_iterator_next(file))

\* Mutant: of several line ends in a row only the first is spliced.
Spliced_once(s) ==
  IF s.ch = Backslash /\ s.a = NL THEN On(file_iterator_next(s.file)) ELSE s

\* As long as it is on a backslash before a line end, past both.
RECURSIVE Spliced(_)
Spliced(s) ==
  IF s.ch = Backslash /\ s.a = NL THEN Spliced(On(file_iterator_next(s.file))) ELSE s

line_splice_iterator_next(s) == IF s.a = 0 THEN [s EXCEPT !.ch = 0] ELSE Spliced(On(s.file))

new_line_splice_iterator(file) ==
  line_splice_iterator_next([file |-> file, ch |-> 0, a |-> file.ch, line |-> 0])

------------------------------------------------------------------------------
(* The comment strip.  The source is on the character a, or, in a literal, *)
(* on ch.  The state is the place to go on at, s0 to s9.                   *)

Moved(t, source) == [t EXCEPT !.source = source, !.ch = source.ch, !.line = source.line]
\* On the next character of the source, which is given.
Pulled(t) == Moved(t, line_splice_iterator_next(t.source))
LookedAt(t, source) == [t EXCEPT !.source = source, !.a = source.ch]
\* On the next character of the source, which is only looked at.
LookedAhead(t) == LookedAt(t, line_splice_iterator_next(t.source))
\* On the character looked at.
Taken(t) == [t EXCEPT !.ch = t.a, !.line = t.source.line]

RECURSIVE ToLineEnd(_)
ToLineEnd(t) == IF t.a \in {0, NL} THEN t ELSE ToLineEnd(LookedAhead(t))
RECURSIVE ToCommentEnd(_)
ToCommentEnd(t) ==
  CASE t.ch = 0 -> t
    [] t.ch = Star /\ t.a = Slash -> LookedAhead(t)
    [] OTHER -> ToCommentEnd(LookedAhead([t EXCEPT !.ch = t.a]))

RECURSIVE s0(_)
Outside(t) ==
  CASE t.ch = Slash /\ t.a = Slash -> s0(ToLineEnd(t))
    [] t.ch = Slash /\ t.a = Star -> [t EXCEPT !.ch = Space, !.state = 1]
    [] t.ch = Quote -> [t EXCEPT !.state = 2]
    [] t.ch = Apostrophe -> [t EXCEPT !.state = 6]
    [] OTHER -> t
s0(t) == IF t.a = 0 THEN [t EXCEPT !.ch = 0] ELSE Outside(LookedAhead(Taken(t)))

\* In a string, before the character ch is given.
InString(t) ==
  [t EXCEPT !.state = CASE t.ch = Backslash -> 3 [] t.ch = Quote -> 5 [] t.ch = 0 -> 0 [] OTHER -> 4]
InLiteral(t) == [t EXCEPT !.state = IF t.ch = Backslash THEN 7 ELSE 8]
AfterLiteral(t) == [t EXCEPT !.state = IF t.ch = Apostrophe THEN 9 ELSE 0]

\* From the place of the last return to the next one or, with state 0, to s0.
Resumed(t) ==
  CASE t.state = 0 -> t
    [] t.state = 1 -> ToCommentEnd(LookedAhead(Pulled([t EXCEPT !.state = 0])))
    [] t.state = 2 -> InString(Taken(t))
    [] t.state = 3 -> [Pulled(t) EXCEPT !.state = 4]
    [] t.state = 4 -> InString(Pulled(t))
    [] t.state \in {5, 9} -> LookedAhead([t EXCEPT !.state = 0])
    [] t.state = 6 -> InLiteral(Taken(t))
    [] t.state = 7 -> [Pulled(t) EXCEPT !.state = 8]
    [] t.state = 8 -> AfterLiteral(Pulled(t))
Started(t) == IF t.state = 0 THEN s0(t) ELSE t
comment_strip_iterator_next(t) == Started(Resumed(t))

new_comment_strip_iterator(source) ==
  comment_strip_iterator_next([source |-> source, ch |-> 0, a |-> source.ch, line |-> 0, state |-> 0])

Opened(text) ==
  new_comment_strip_iterator(new_line_splice_iterator(new_file_iterator(text)))

------------------------------------------------------------------------------
(* C's first three phases: carriage returns are dropped, lines are joined, *)
(* and every comment is a space.                                           *)

Unread(ch) == ch # CR
Lined(text) ==
  LET read == SelectSeq(text, Unread)
      LinesBefore(i) == Len(SelectSeq(SubSeq(read, 1, i - 1), LAMBDA ch : ch = NL))
  IN  [i \in DOMAIN read |-> Char(read[i], 1 + LinesBefore(i))]

Is(cs, i, ch) == i \in DOMAIN cs /\ cs[i].ch = ch
\* The first of some places, or the one behind the end.
First(places, cs) ==
  IF places = {} THEN Len(cs) + 1 ELSE CHOOSE i \in places : \A j \in places : i <= j
From(cs, i) == SubSeq(cs, i, Len(cs))

RECURSIVE Joined(_)
Joined(cs) ==
  CASE cs = <<>> -> <<>>
    [] Is(cs, 1, Backslash) /\ Is(cs, 2, NL) -> Joined(From(cs, 3))
    [] OTHER -> <<cs[1]>> \o Joined(Tail(cs))

\* The backslashes right before the place i.
Backslashes(cs, i) ==
  (i - 1) - CHOOSE j \in 0..(i - 1) :
              /\ \A k \in (j + 1)..(i - 1) : Is(cs, k, Backslash)
              /\ ~Is(cs, j, Backslash)
\* The place of the quote that closes the literal.
Closing(cs) ==
  First({i \in 2..Len(cs) : cs[i].ch = cs[1].ch /\ Backslashes(cs, i) % 2 = 0}, cs)

\* What C gives no meaning, or the compiler no support: what is not closed,
\* or not on one line, and character literals of several characters.
Unsupported == <<Char(-1, 0)>>
Supported(literal) ==
  /\ \A i \in DOMAIN literal : literal[i].ch # NL
  /\ literal[1].ch = Apostrophe => Len(literal) = IF Is(literal, 2, Backslash) THEN 4 ELSE 3

RECURSIVE Uncommented(_)
Uncommented(cs) ==
  CASE cs = <<>> -> <<>>
    [] Is(cs, 1, Slash) /\ Is(cs, 2, Slash) -> Uncommented(From(cs, First({i \in DOMAIN cs : Is(cs, i, NL)}, cs)))
    [] Is(cs, 1, Slash) /\ Is(cs, 2, Star) ->
         LET close == First({i \in 3..Len(cs) : Is(cs, i, Star) /\ Is(cs, i + 1, Slash)}, cs) IN
         IF close > Len(cs) THEN Unsupported
         ELSE <<Char(Space, cs[1].line)>> \o Uncommented(From(cs, close + 2))
    [] Is(cs, 1, Quote) \/ Is(cs, 1, Apostrophe) ->
         LET close == Closing(cs) IN
         IF close > Len(cs) \/ ~Supported(SubSeq(cs, 1, close)) THEN Unsupported
         ELSE SubSeq(cs, 1, close) \o Uncommented(From(cs, close + 1))
    [] OTHER -> <<cs[1]>> \o Uncommented(Tail(cs))

CharsOfC(text) == Uncommented(Joined(Lined(text)))
Defined(text) == Unsupported[1] \notin ToSet(CharsOfC(text))

------------------------------------------------------------------------------
Init ==
  /\ \E text \in Texts : Defined(text) /\ source_it = Opened(text) /\ left = CharsOfC(text)
  /\ parents = <<>>
  /\ base = At(source_it)

\* The end of an included file is the end of a line.
Onward(next) ==
  IF next.ch = 0 /\ parents # <<>>
  THEN /\ source_it' = Last(parents) /\ parents' = Front(parents)
       /\ base' = Char(NL, Last(parents).line)
  ELSE /\ source_it' = next /\ UNCHANGED parents
       /\ base' = IF next.ch = 0 THEN [base EXCEPT !.ch = 0] ELSE At(next)
include_iterator_next ==
  /\ Onward(comment_strip_iterator_next(source_it))
  /\ left' = IF left = <<>> THEN left ELSE Tail(left)

\* A line that includes a file was read up to its end.
include_iterator_add ==
  /\ base.ch = NL /\ Len(parents) < MaxDepth
  /\ \E text \in Headers :
       /\ new_file_iterator(text).ch # 0
       /\ source_it' = Opened(text) /\ base' = At(source_it')
       /\ left' = CharsOfC(text) \o left
  /\ parents' = Append(parents, source_it)

Next == include_iterator_next \/ include_iterator_add

Spec == Init /\ [][Next]_vars

------------------------------------------------------------------------------
\* Whatever is nested in, or cut by, what - comments in strings, quotes in
\* comments, both across joined lines, at the end of the file and of an
\* included one - the character given, and the line it is reported on, is
\* the one C has there.
CharactersOfC ==
  IF left = <<>> THEN base.ch = 0 ELSE base = left[1]
==============================================================================
