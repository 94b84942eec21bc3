---------------------------- MODULE MCPreprocessor ----------------------------
(* The conditional iterator with the definitions it makes, and what the    *)
(* conditions and the lines it gives come to under them; and the iterators *)
(* before it, of the characters and the tokens.  They share nothing, and a *)
(* behaviour runs one of the three.                                        *)
EXTENDS Conditionals, TLC

INSTANCE Expansion

VARIABLES part, source_it, parents, base, chars_left, file, i, token, meant, tokens_left
chars == <<source_it, parents, base, chars_left>>
tokens == <<file, i, token, meant, tokens_left>>

S == INSTANCE SourceTexts
Ch == INSTANCE Characters WITH
        Texts <- S!CharacterTexts, Headers <- S!IncludedTexts, MaxDepth <- 2, left <- chars_left
Tk == INSTANCE Tokens WITH Files <- S!TokenFiles, left <- tokens_left

x == <<"X">>
y == <<"Y">>
xy == <<"X", "Y">>
MCSymbols == {x, y, xy}
Def(args, body) == [args |-> args, tokens |-> body]
P == NameTok(<<"p">>)
Q == NameTok(<<"q">>)
N(s) == NameTok(s)
One == NumberTok(1)
Two == NumberTok(2)
Paren(ts) == <<Tok("(")>> \o ts \o <<Tok(")")>>

\* x may be defined by way of y, and pasted to xy; y stands for itself.
MCDefinitions ==
  (x :> {Def(<<>>, <<One>>), Def(<<>>, <<N(y)>>), Def(<<>>, <<N(y), N(xy)>>),
         Def(<<"p", "q">>, <<P, Tok("##"), Q, Q>>), Def(<<"p">>, <<N(y)>> \o Paren(<<P>>) \o <<P>>),
         Def(<<"p">>, <<Tok("#"), P, P>>), Def(<<"p", "q">>, <<N(y)>> \o Paren(<<Q>>))})
  @@ (y :> {Def(<<>>, <<Two>>), Def(<<>>, <<>>), Def(<<"p">>, Paren(<<P, P>>) \o <<One>>)})
  @@ (xy :> {Def(<<>>, <<Two, One>>)})

Name(s) == Leaf("name", s)
Atoms == {Name(x), Name(y), Leaf("isdef", x), Leaf("isdefp", y), Leaf("number", 1)}
Small == Atoms \cup {Node("not", <<a>>) : a \in Atoms}
           \cup {Node(k, <<a, Leaf("number", 1)>>) : k \in {"eq", "ne"}, a \in Atoms}
Trees == Small \cup {Node(k, <<a, b>>) : k \in {"and", "or", "eq"}, a, b \in Small}
Nested ==
  {Node(k, <<a, Node(l, <<b, c>>)>>) : k, l \in {"and", "or", "ne"}, a, b, c \in Atoms}
    \cup {Node(k, <<Node(l, <<a, b>>), c>>) : k, l \in {"and", "or"}, a, b, c \in Atoms}
    \cup {Node("not", <<t>>) : t \in Trees \ Atoms}

\* The conditions of the directives: what is asked of the symbols.
MCConditions == {Leaf("isdef", x), Node("not", <<Leaf("isdef", y)>>), Node("eq", <<Name(x), Name(y)>>)}
\* By ConditionsMeanC, what the parser makes of them.
MCValue(c, env) == Means(c, env)

Lines ==
  {<<N(x)>>, <<N(y), N(x), One>>, <<N(x)>> \o Paren(<<N(y)>>),
   <<N(x)>> \o Paren(<<N(y)>> \o Paren(<<One>>)) \o <<Two>>,
   <<N(x)>> \o Paren(<<N(x), Tok(","), N(y)>>),
   <<N(x)>> \o Paren(Paren(<<One, Tok(","), Two>>)),
   <<N(x)>> \o Paren(<<Tok(",")>> \o Paren(<<One, Tok(",")>>)),
   <<N(y)>> \o Paren(<<N(y)>> \o Paren(<<N(x)>>)),
   <<N(y)>> \o Paren(<<N(x)>> \o Paren(<<N(y), Tok(","), One>>)) \o <<N(x)>>}
------------------------------------------------------------------------------
NoLines == Init /\ \A k \in DOMAIN if_done : ~if_done[k]
NoChars == source_it = <<>> /\ parents = <<>> /\ base = Ch!Char(0, 0) /\ chars_left = <<>>
NoTokens == file = <<>> /\ i = 0 /\ token = Tk!NoToken /\ meant = token /\ tokens_left = <<>>

MCInit ==
  \/ part = "lines" /\ Init /\ NoChars /\ NoTokens
  \/ part = "characters" /\ Ch!Init /\ NoLines /\ NoTokens
  \/ part = "tokens" /\ Tk!Init /\ NoLines /\ NoChars
MCNext ==
  /\ \/ part = "lines" /\ Next /\ UNCHANGED <<chars, tokens>>
     \/ part = "characters" /\ Ch!Next /\ UNCHANGED <<vars, tokens>>
     \/ part = "tokens" /\ Tk!Next /\ UNCHANGED <<vars, chars>>
  /\ UNCHANGED part
MCSpec == MCInit /\ [][MCNext]_<<vars, chars, tokens, part>>

------------------------------------------------------------------------------
\* A line that is given, outside of all groups: all definitions come about
\* there, and with all flags still FALSE, which mean nothing there.
Given == given /\ Open = 0 /\ files = <<>> /\ \A k \in DOMAIN if_done : ~if_done[k]

\* What the parser of conditions makes of the tokens is what C makes of the
\* expression they spell, under all definitions that come about.
ConditionsMeanC ==
  Given => \A tree \in MCConditions \cup Trees \cup Nested :
    LET written == Written(tree, 1) IN
    parse_or_expr(written, 1, environment) = Gives(Means(tree, environment), Len(written) + 1)

\* Macros, with arguments, in arguments, with # and ##, come to the tokens C
\* says, for every line that is not reported.
Silently(line) == \A k \in DOMAIN line : line[k].tok # Reported.tok
ExpandsAsC ==
  Given => \A line \in Lines :
    LET expanded == CExpand(Plain(line), environment) IN
    Silently(expanded) => Expand(line, environment) = Toks(expanded)

\* See Characters and Tokens.
CharactersOfC == Ch!CharactersOfC
TokensOfC == Tk!TokensOfC
==============================================================================
