------------------------------ MODULE MCRuntime -------------------------------
(* What a compiled program runs on: the code of its tokens on either       *)
(* target, the functions of its library on memory and strings, and its     *)
(* heap and streams.  The three share nothing, and a behaviour runs one of *)
(* them.                                                                   *)
EXTENDS Library, MCTargets, ByteStrings

VARIABLES part

\* Of the second file, none is there at first.
MCDisks == {"a" :> <<97, 10, 98>> @@ "b" :> NoFile}
MCModes == {<<"r", FALSE>>, <<"w", TRUE>>}
------------------------------------------------------------------------------
(* What the functions are called with, in the codes of ASCII.              *)

\* A piece of a format: characters as they are (0), or a conversion.
Converts(kind, arg, width, left, longs) ==
  [kind |-> kind, arg |-> arg, width |-> width, left |-> left, longs |-> longs]
Plain(kind, arg) == Converts(kind, arg, 0, FALSE, <<>>)
D == 100
Pieces ==
  {Plain(0, <<>>), Plain(0, <<97>>), Plain(0, <<37, 46>>), Plain(0, <<58>>),
   Plain(115, <<>>), Plain(115, <<98, 37>>), Plain(99, 120)}
    \cup {Converts(D, v, w, l, g) :
            v \in {0, 7, 10, -12, 105}, w \in {0, 3, 11}, l \in BOOLEAN, g \in {<<>>, <<108>>}}
    \cup {Converts(k, v, 0, FALSE, g) : k \in {117, 120}, v \in {0, 31, 171}, g \in {<<>>, <<108, 108>>}}
MCRequests ==
  {<<>>} \cup {<<p>> : p \in Pieces} \cup {<<p, q>> : p, q \in Pieces}
    \cup {<<p, Plain(0, <<46>>), q>> : p, q \in {r \in Pieces : r.kind = D}}

\* - 0 0x 0X, a digit that is one of 8, of 10, of 16 or none, and one more.
NumberStrings ==
  {p \o <<a, b, 0>> : p \in {<<>>, <<45>>, <<48>>, <<48, 120>>, <<48, 88>>},
     a \in {48, 55, 57, 70, 97}, b \in {0, 49, 56, 102, 103, 76}}
\* A=B, names that begin another and values with a = in them.
Environments ==
  {<<a, 61, b, 0, c, 61, d, 0, e, 0>> : a, b, c, d, e \in {65, 66}}
    \cup {<<65, 0, a, b, 61, a, 0>> : a, b \in {65, 66}}
MCMemories ==
  [1..5 -> 0..2] \cup [1..6 -> 0..1] \cup NumberStrings \cup Environments

S == INSTANCE Strings WITH Requests <- MCRequests, Word <- 2
------------------------------------------------------------------------------
NoTokens == target = "amd64" /\ top = 0 /\ rest = <<0>> /\ TargetInit
NoCall == bytes = <<>> /\ result = <<>> /\ meant = <<bytes, <<>>>>

MCInit ==
  \/ part = "tokens" /\ TargetInit /\ NoCall /\ Init
  \/ part = "call" /\ S!Init /\ NoTokens /\ Init
  \/ part = "library" /\ Init /\ NoTokens /\ NoCall
MCNext ==
  /\ \/ part = "tokens" /\ TargetNext /\ UNCHANGED <<call_vars, vars>>
     \/ part = "call" /\ S!Next /\ UNCHANGED <<target_vars, vars>>
     \/ part = "library" /\ Next /\ UNCHANGED <<target_vars, call_vars>>
  /\ UNCHANGED part
MCSpec == MCInit /\ [][MCNext]_<<target_vars, call_vars, vars, part>>
==============================================================================
