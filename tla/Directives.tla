----------------------------- MODULE Directives -----------------------------
(***************************************************************************)
(* How a Cache-Control value is read (src/cache.rs, split_outside_quotes   *)
(* and the loop of Directives::parse): split at the commas that are not    *)
(* inside a quoted string, each part split at its first "=", and a quoted  *)
(* argument unquoted. One step takes one character, or one part.           *)
(*                                                                         *)
(* "x" stands for any letter or digit, "quote" and "backslash" are the     *)
(* characters of that name. White space, which is trimmed, and case, which *)
(* is lowered, are left out. The names are apart from those of Policy, the *)
(* rules on what is read here: PolicyProof extends both.                   *)
(***************************************************************************)
EXTENDS Integers, Sequences, FiniteSets

CONSTANT MaxLen         \* the longest value

ASSUME MaxLenAssumption == MaxLen \in Nat

VARIABLES
  value,                \* the field value
  i,                    \* the character at hand
  start,                \* where the part at hand begins
  quoted, escaped,      \* whether it is in a quoted string, after a backslash
  parts,                \* the parts so far, as pairs of first and last place
  list                  \* the directives so far

scan == <<i, start, quoted, escaped, parts>>
parseVars == <<value, scan, list>>

Char == {"x", "=", ",", "quote", "backslash"}
Values == UNION {[1 .. n -> Char] : n \in 0 .. MaxLen}
NoArgument == <<"no argument">>

Done == start = Len(value) + 2

ParseInit ==
  /\ value \in Values
  /\ i = 1 /\ start = 1
  /\ quoted = FALSE /\ escaped = FALSE
  /\ parts = <<>> /\ list = <<>>

-----------------------------------------------------------------------------
(* split_outside_quotes *)

(* The arms for a character that is not escaped: a backslash, if quoted, a  *)
(* quote, anything else.                                                    *)
Unescaped(c) ==
  /\ escaped' = (c = "backslash" /\ quoted)
  /\ quoted' = (IF c = "quote" THEN ~quoted ELSE quoted)

(* Mutant of Part: every comma ends a part.                                 *)
PartAtComma(c) == c = ","

Part(c) == c = "," /\ ~quoted /\ ~escaped

Step ==
  /\ i <= Len(value)
  /\ LET c == value[i] IN
     /\ IF escaped THEN escaped' = FALSE /\ UNCHANGED quoted ELSE Unescaped(c)
     /\ IF Part(c)
        THEN parts' = Append(parts, <<start, i - 1>>) /\ start' = i + 1
        ELSE UNCHANGED <<parts, start>>
  /\ i' = i + 1
  /\ UNCHANGED <<value, list>>

(* The rest of the value is the last part.                                  *)
LastPart ==
  /\ i = Len(value) + 1 /\ ~Done
  /\ parts' = Append(parts, <<start, Len(value)>>)
  /\ start' = Len(value) + 2
  /\ UNCHANGED <<value, i, quoted, escaped, list>>

-----------------------------------------------------------------------------
(* Directives::parse *)

Text(v, from, to) == SubSeq(v, from, to)

(* Mutant of Unquoted: one quote is enough.                                 *)
UnquotedHalf(s) ==
  IF s # <<>> /\ s[1] = "quote" THEN SubSeq(s, 2, Len(s)) ELSE s

(* strip_prefix and then strip_suffix, or as it was.                        *)
Unquoted(s) ==
  IF Len(s) >= 2 /\ s[1] = "quote" /\ s[Len(s)] = "quote" THEN SubSeq(s, 2, Len(s) - 1) ELSE s

(* split_once('=')                                                          *)
DirectiveOf(v, from, to) ==
  LET equals == {j \in from .. to : v[j] = "="}
      first == CHOOSE j \in equals : \A k \in equals : j <= k
  IN  IF equals = {} THEN [name |-> Text(v, from, to), argument |-> NoArgument]
      ELSE [name |-> Text(v, from, first - 1), argument |-> Unquoted(Text(v, first + 1, to))]

Parse ==
  /\ Done /\ parts # <<>>
  /\ LET d == DirectiveOf(value, parts[1][1], parts[1][2])
     IN  list' = IF d.name = <<>> THEN list ELSE Append(list, d)
  /\ parts' = Tail(parts)
  /\ UNCHANGED <<value, i, start, quoted, escaped>>

ParseNext == Step \/ LastPart \/ Parse

ParseSpec == ParseInit /\ [][ParseNext]_parseVars

-----------------------------------------------------------------------------
(* The grammar of RFC 9110, for a value v: a quoted string runs from a      *)
(* quote that is not in one to the next quote before which the number of    *)
(* backslashes is even, or to the end of the value.                         *)

Place(v) == 1 .. Len(v)

(* The backslashes right before place c, in a string that began at o.       *)
Backslashes(v, o, c) ==
  {k \in o + 1 .. c - 1 : \A j \in k .. c - 1 : v[j] = "backslash"}
Even(v, o, c) == Cardinality(Backslashes(v, o, c)) % 2 = 0

Closings(v, o) == {c \in Place(v) : c > o /\ v[c] = "quote" /\ Even(v, o, c)}
Close(v, o) ==
  IF Closings(v, o) = {} THEN Len(v) + 1
  ELSE CHOOSE c \in Closings(v, o) : \A k \in Closings(v, o) : c <= k

(* The only set of quotes of which each begins where no earlier one runs.   *)
Quotes(v) == {o \in Place(v) : v[o] = "quote"}
Openings(v) ==
  CHOOSE S \in SUBSET Quotes(v) :
    S = {o \in Quotes(v) : \A p \in S : p < o => Close(v, p) < o}

Inside(v, j) == \E o \in Openings(v) : o < j /\ j < Close(v, o)
Separators(v) == {j \in Place(v) : v[j] = "," /\ ~Inside(v, j)}

(* "splits a field value on commas that are not inside a quoted string"     *)
(* (split_outside_quotes), whatever quotes and backslashes the value has,   *)
(* closed or not: the parts end at the separators of the grammar, and the   *)
(* flags say at every character whether a quoted string runs there.         *)
SplitsOutsideQuotes ==
  /\ ~Done => {parts[k][2] + 1 : k \in DOMAIN parts} = {j \in Separators(value) : j < i}
  /\ i <= Len(value) /\ value[i] # "quote" => quoted = Inside(value, i)

(* Between two separators, a plain name stands alone or before a "=".        *)
Begins(v) == {1} \cup {j + 1 : j \in Separators(v)}
End(v, b) == CHOOSE e \in b - 1 .. Len(v) :
               /\ e + 1 \in Separators(v) \cup {Len(v) + 1}
               /\ \A j \in b .. e : j \notin Separators(v)
NameEnds(v, b) ==
  {e \in b .. End(v, b) : /\ \A j \in b .. e : v[j] = "x"
                          /\ e = End(v, b) \/ v[e + 1] = "="}
Named(v) == {b \in Begins(v) : NameEnds(v, b) # {}}

(* The argument as the grammar has it: none, a quoted string's content, or  *)
(* a token. What is neither has no reading.                                 *)
Argument(v, b, e) ==
  LET end == End(v, b) IN
  IF e = end THEN {NoArgument}
  ELSE IF e + 2 \in Openings(v) /\ Close(v, e + 2) = end THEN {Text(v, e + 3, end - 1)}
  ELSE IF \A j \in e + 2 .. end : v[j] # "quote" THEN {Text(v, e + 2, end)}
  ELSE {}

(* Nothing inside a quoted argument is taken for a directive, and no        *)
(* directive outside of one is missed: the plain names that are read are    *)
(* the value's, as many as it has, each with its argument without the       *)
(* quotes.                                                                  *)
Plain(name) == \A j \in DOMAIN name : name[j] = "x"
ReadsTheDirectives ==
  Done /\ parts = <<>> =>
    LET plain == {d \in DOMAIN list : Plain(list[d].name)}
    IN  /\ Cardinality(plain) = Cardinality(Named(value))
        /\ \A b \in Named(value) : \E d \in plain :
             LET e == b + Len(list[d].name) - 1
             IN  /\ NameEnds(value, b) = {e}
                 /\ Argument(value, b, e) \subseteq {list[d].argument}

-----------------------------------------------------------------------------
(* The parts of the inductive invariant from which PolicyProof shows        *)
(* SplitsOutsideQuotes and ReadsTheDirectives.                              *)

(* The scan stays within the value.                                         *)
ParseTypeOK ==
  /\ value \in Values /\ i \in 1 .. Len(value) + 1
  /\ start \in 1 .. Len(value) + 2
  /\ quoted \in BOOLEAN /\ escaped \in BOOLEAN
  /\ parts \in Seq(Nat \X Nat)
  /\ list \in Seq([name : Seq(Char), argument : Seq(Char) \cup {NoArgument}])

(* The flags are those of the one quoted string that runs at i, if any.     *)
Quoting ==
  IF quoted
  THEN \E o \in Openings(value) :
         o < i /\ i <= Close(value, o) /\ escaped = ~Even(value, o, i)
  ELSE ~escaped /\ \A o \in Openings(value) : o < i => Close(value, o) < i

(* The parts so far, each up to its separator, and after them the one that  *)
(* is being read.                                                           *)
Unread == {parts[k][1] : k \in DOMAIN parts}
Splitting ==
  /\ \A k \in DOMAIN parts : parts[k][2] = End(value, parts[k][1])
  /\ \A k, l \in DOMAIN parts : parts[k][1] = parts[l][1] => k = l
  /\ ~Done => /\ start <= i /\ start \notin Unread /\ list = <<>>
              /\ Unread \cup {start} = {b \in Begins(value) : b <= i}
              /\ {parts[k][2] + 1 : k \in DOMAIN parts} = {j \in Separators(value) : j < i}
              /\ \A j \in start .. i - 1 : j \notin Separators(value)
  /\ Done => i = Len(value) + 1 /\ Unread \subseteq Begins(value)

(* The list has what was read: a directive for each part that has a name,   *)
(* in some order of the parts.                                              *)
Read(v, b) == DirectiveOf(v, b, End(v, b))
Reading ==
  Done => \E f \in [DOMAIN list -> Begins(value) \ Unread] :
    /\ \A d \in DOMAIN list : list[d] = Read(value, f[d]) /\ list[d].name # <<>>
    /\ \A d, e \in DOMAIN list : f[d] = f[e] => d = e
    /\ \A b \in Begins(value) \ Unread :
         Read(value, b).name # <<>> => \E d \in DOMAIN list : f[d] = b

ParseInv == ParseTypeOK /\ Quoting /\ Splitting /\ Reading
=============================================================================
