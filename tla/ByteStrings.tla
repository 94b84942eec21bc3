----------------------------- MODULE ByteStrings ------------------------------
(***************************************************************************)
(* The functions of stdlib.c on memory and strings: what they do, byte     *)
(* after byte, and what C says of them where it says something.            *)
(*                                                                         *)
(* Memory is a sequence of bytes at the addresses from 1 on; a string goes *)
(* up to the next byte 0.  Of a comparison C gives only the sign.          *)
(***************************************************************************)
EXTENDS Integers, Sequences, FiniteSetsExt

CONSTANTS
  Memories,  \* what memory may hold
  Sought,    \* the bytes that are looked for and written
  Counts     \* how many bytes are asked for

VARIABLES
  bytes,   \* the memory
  result,  \* what the call gave
  meant    \* the memory and the result C has, or those there are Instead

call_vars == <<bytes, result, meant>>

\* Bytes are numbers, and so is how many there are.
ASSUME BytesAreNumbers ==
  Memories \subseteq Seq(Nat) /\ Sought \subseteq Nat /\ Counts \subseteq Nat

Nowhere == 0
Equals == 61
------------------------------------------------------------------------------
(* A loop, whose turns take its variables from x to turn[x], after n of    *)
(* them.  A turn of a loop that has ended changes nothing.                 *)

After(turn, x, n) ==
  LET at[k \in 0..n] == IF k = 0 THEN x ELSE turn[at[k - 1]] IN at[n]

\* The variables of a loop that writes: the memory and the index.
Writing(m) == [m : [DOMAIN m -> Nat], i : Nat]
Begin(m) == [m |-> m, i |-> 0]
Wrote(z, a, c) == [m |-> [z.m EXCEPT ![a] = c], i |-> z.i + 1]
------------------------------------------------------------------------------
(* Bytes.                                                                  *)

Copied(m, d, s, n) == After([z \in Writing(m) |-> Wrote(z, d + z.i, z.m[s + z.i])], Begin(m), n).m

memcpy(m, dest, src, n) == Copied(m, dest, src, n)
\* Mutant: the last byte first, which is for what is moved up.
memmove_down(m, dest, src, n) ==
  After([z \in Writing(m) |-> Wrote(z, dest + n - 1 - z.i, z.m[src + n - 1 - z.i])], Begin(m), n).m
\* Upwards, whichever comes first.
memmove(m, dest, src, n) == Copied(m, dest, src, n)

memset(m, s, c, n) == After([z \in Writing(m) |-> Wrote(z, s + z.i, c)], Begin(m), n).m

\* Where the two differ, if not behind the last.
Differs(m, s1, s2, n) == After([i \in Nat |-> IF m[s1 + i] # m[s2 + i] THEN i ELSE i + 1], 0, n)
Compared(m, s1, s2, i, n) == IF i = n THEN 0 ELSE m[s1 + i] - m[s2 + i]
memcmp(m, s1, s2, n) == Compared(m, s1, s2, Differs(m, s1, s2, n), n)
------------------------------------------------------------------------------
(* Strings.  A loop over one has ended when memory has.                    *)

strlen(m, s) == After([i \in Nat |-> IF m[s + i] = 0 THEN i ELSE i + 1], 0, Len(m))

Ended(z, dest) == [z.m EXCEPT ![dest + z.i] = 0]
strcpy(m, dest, src) ==
  Ended(After([z \in Writing(m) |-> IF z.m[src + z.i] = 0 THEN z ELSE Wrote(z, dest + z.i, z.m[src + z.i])],
              Begin(m), Len(m)),
        dest)

\* No bytes are set behind the end of a string that is shorter.
strncpy(m, dest, src, n) ==
  After([z \in Writing(m) |->
           IF z.i > 0 /\ z.m[src + z.i - 1] = 0 THEN z ELSE Wrote(z, dest + z.i, z.m[src + z.i])],
        Begin(m), n).m

strcat(m, dest, src) == strcpy(m, dest + strlen(m, dest), src)

Stops(m, s, c) == After([a \in Nat |-> IF m[a] \in {0, c} THEN a ELSE a + 1], s, Len(m))
IfAny(m, a) == IF m[a] = 0 THEN Nowhere ELSE a
Seen(m, a, c) == IF c = 0 THEN a ELSE IfAny(m, a)
strchr(m, s, c) == Seen(m, Stops(m, s, c), c)

strrchr(m, s, c) ==
  After([z \in [a : Nat, seen : Nat] |->
           IF m[z.a] = 0 THEN z ELSE [a |-> z.a + 1, seen |-> IF m[z.a] = c THEN z.a ELSE z.seen]],
        [a |-> s, seen |-> Nowhere], Len(m)).seen

\* The same, or behind the end of both.
Parting(m, s1, s2, n) ==
  After([i \in Nat |-> IF m[s1 + i] # m[s2 + i] \/ m[s1 + i] = 0 THEN i ELSE i + 1], 0, n)
strcmp(m, s1, s2) == Compared(m, s1, s2, Parting(m, s1, s2, Len(m)), Len(m))
strncmp(m, s1, s2, n) == Compared(m, s1, s2, Parting(m, s1, s2, n), n)

Found(m, haystack, needle, n) ==
  After([h \in Nat |-> IF m[h] = 0 \/ strncmp(m, h, needle, n) = 0 THEN h ELSE h + 1], haystack, Len(m))
strstr(m, haystack, needle) == IfAny(m, Found(m, haystack, needle, strlen(m, needle)))

\* env is the list of the addresses of the strings of the environment.
Sets(m, s, name, len) == strncmp(m, s, name, len) = 0 /\ m[s + len] = Equals
Looked(m, env, name, len) ==
  After([k \in Nat |-> IF Sets(m, env[k], name, len) THEN k ELSE k + 1], 1, Len(env))
getenv(m, env, name) == env[Looked(m, env, name, strlen(m, name))] + strlen(m, name) + 1
------------------------------------------------------------------------------
(* C.                                                                      *)

Region(a, n) == a..(a + n - 1)
InMemory(a, n) == Region(a, n) \subseteq 1..Len(bytes)
Apart(a, k, b, n) == Region(a, k) \cap Region(b, n) = {}
Ends(s) == {a \in s..Len(bytes) : bytes[a] = 0}
Str(s) == SubSeq(bytes, s, Min(Ends(s)) - 1)
Strs == {s \in 1..Len(bytes) : Ends(s) # {}}
\* The bytes of a string, and the 0.
Whole(s) == Len(Str(s)) + 1

With(d, new) ==
  [a \in DOMAIN bytes |-> IF a \in Region(d, Len(new)) THEN new[a - d + 1] ELSE bytes[a]]
BytesAt(s, n) == SubSeq(bytes, s, s + n - 1)

FirstOf(places) == IF places = {} THEN Nowhere ELSE Min(places)
LastOf(places) == IF places = {} THEN Nowhere ELSE Max(places)
Begins(prefix, s) == Len(prefix) <= Len(Str(s)) /\ SubSeq(Str(s), 1, Len(prefix)) = prefix

Sign(n) == IF n < 0 THEN -1 ELSE IF n = 0 THEN 0 ELSE 1
\* The order of two sequences of the same length.
Order(x, y) ==
  LET different == {k \in DOMAIN x : x[k] # y[k]} IN
  IF different = {} THEN 0 ELSE Sign(x[Min(different)] - y[Min(different)])
Filled(x, n) == [k \in 1..n |-> IF k <= Len(x) THEN x[k] ELSE 0]
------------------------------------------------------------------------------
CallInit == bytes \in Memories /\ result = <<>> /\ meant = <<bytes, <<>>>>

\* One call: the memory and the result there are, and those C has.
Gives(m, r, cm, cr) == bytes' = m /\ result' = <<r>> /\ meant' = <<cm, <<cr>>>>
Answers(r, cr) == Gives(bytes, r, bytes, cr)

Copy(d, s, n) ==
  \/ Apart(d, n, s, n) /\ Gives(memcpy(bytes, d, s, n), d, With(d, BytesAt(s, n)), d)
  \* What overlaps is moved down only.
  \/ d <= s /\ Gives(memmove(bytes, d, s, n), d, With(d, BytesAt(s, n)), d)
Compare(d, s, n) == Answers(Sign(memcmp(bytes, d, s, n)), Order(BytesAt(d, n), BytesAt(s, n)))
OfBytes ==
  \E d, s \in 1..Len(bytes), n \in Counts :
    InMemory(d, n) /\ InMemory(s, n) /\ (Copy(d, s, n) \/ Compare(d, s, n))
Set ==
  \E s \in 1..Len(bytes), n \in Counts, c \in Sought :
    InMemory(s, n) /\ Gives(memset(bytes, s, c, n), s, With(s, [k \in 1..n |-> c]), s)

\* The whole string, or no more than its bytes.
Onto(d, s) ==
  \/ /\ InMemory(d, Whole(s)) /\ Apart(d, Whole(s), s, Whole(s))
     /\ Gives(strcpy(bytes, d, s), d, With(d, Append(Str(s), 0)), d)
  \/ \E n \in Counts :
       /\ n <= Whole(s) /\ InMemory(d, n) /\ Apart(d, n, s, n)
       /\ Gives(strncpy(bytes, d, s, n), d, With(d, BytesAt(s, n)), d)
StringCopy == \E d \in 1..Len(bytes), s \in Strs : Onto(d, s)
Joins(d, s, end) ==
  /\ InMemory(end, Whole(s)) /\ Apart(d, Whole(d) + Whole(s) - 1, s, Whole(s))
  /\ Gives(strcat(bytes, d, s), d, With(end, Append(Str(s), 0)), d)
Join == \E d, s \in Strs : Joins(d, s, d + Len(Str(d)))

Length == \E s \in Strs : Answers(strlen(bytes, s), Len(Str(s)))
Search ==
  \E s \in Strs, c \in Sought :
    \/ Answers(strchr(bytes, s, c), FirstOf({a \in Region(s, Whole(s)) : bytes[a] = c}))
    \/ c # 0 /\ Answers(strrchr(bytes, s, c), LastOf({a \in Region(s, Whole(s)) : bytes[a] = c}))
Ordered(s1, s2, n) ==
  \/ Answers(Sign(strcmp(bytes, s1, s2)), Order(Filled(Str(s1), Len(bytes)), Filled(Str(s2), Len(bytes))))
  \/ Answers(Sign(strncmp(bytes, s1, s2, n)), Order(Filled(Str(s1), n), Filled(Str(s2), n)))
StringCompare == \E s1, s2 \in Strs, n \in Counts : Ordered(s1, s2, n)
Within ==
  \E s1, s2 \in Strs :
    /\ Str(s1) # <<>> \/ Str(s2) # <<>>
    /\ Answers(strstr(bytes, s1, s2), FirstOf({a \in Region(s1, Len(Str(s1))) : Begins(Str(s2), a)}))

\* The name is set: of one that is not, getenv returns no value.
Environment(env, name) ==
  LET set == {k \in DOMAIN env : Begins(Append(Str(name), Equals), env[k])} IN
  set # {} /\ Answers(getenv(bytes, env, name), env[Min(set)] + Len(Str(name)) + 1)
Variables == \E s1, s2, name \in Strs : s1 # s2 /\ Environment(<<s1, s2>>, name)

(* Where C has something else: the memory and the result there are then.   *)

\* A byte moved up is the one that lies as far before it, which for the first
\* of them is what was there, and for the others what was moved.
Repeated(m, d, s, n) ==
  [a \in DOMAIN bytes |-> IF a \in Region(d, n) THEN m[a - (d - s)] ELSE bytes[a]]
MovedUp(d, s, n) ==
  /\ d > s /\ InMemory(d, n) /\ InMemory(s, n)
  /\ \E m \in {memmove(bytes, d, s, n)} : Gives(m, d, Repeated(m, d, s, n), d)
\* The string is shorter, and nothing is set behind its 0.
Unfilled(d, s, n) ==
  /\ n > Whole(s) /\ InMemory(d, n) /\ Apart(d, n, s, Whole(s))
  /\ Gives(strncpy(bytes, d, s, n), d, With(d, Append(Str(s), 0)), d)
\* The 0 of a string is not found from behind.
NoEnd(s) == Answers(strrchr(bytes, s, 0), Nowhere)
\* The empty string is not found in the empty string.
NoneInNone(s1, s2) ==
  Str(s1) = <<>> /\ Str(s2) = <<>> /\ Answers(strstr(bytes, s1, s2), Nowhere)

Instead ==
  \/ \E d, s \in 1..Len(bytes), n \in Counts : MovedUp(d, s, n)
  \/ \E d \in 1..Len(bytes), s \in Strs, n \in Counts : Unfilled(d, s, n)
  \/ \E s1, s2 \in Strs : NoEnd(s1) \/ NoneInNone(s1, s2)

CallNext ==
  /\ result = <<>>
  /\ \/ OfBytes \/ Set \/ StringCopy \/ Join \/ Length \/ Search \/ StringCompare
     \/ Within \/ Variables \/ Instead

CallSpec == CallInit /\ [][CallNext]_call_vars
------------------------------------------------------------------------------
\* Whatever memory holds: a call changes the bytes C says and no others, and
\* gives the result C says, when what is copied lies apart from its place or
\* is moved down, what strncpy copies is not shorter than its count, strrchr
\* looks for another byte than 0, strstr not for the empty string in itself, and
\* getenv for a name that is set.  In the first four of these cases otherwise,
\* and for memmove, it does what Instead says and nothing else.
CallsOfC == meant = <<bytes, result>>
==============================================================================
