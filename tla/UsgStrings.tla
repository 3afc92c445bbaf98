----------------------------- MODULE UsgStrings ----------------------------
(***************************************************************************)
(* The string helpers of common/usg_common.cpp that a container's command  *)
(* line and its paths go through: `run` stores array_join(argv, " "),      *)
(* `start` executes str_split of it, and the place of a volume is          *)
(* path_join of the merged directory and the path that was given.  Also    *)
(* str_join, which nothing calls, and the trim functions.                  *)
(*                                                                         *)
(* A string is a sequence of characters: " " for any character of BLANK,   *)
(* "/" for PATH_SEPERATOR, and letters.                                    *)
(***************************************************************************)
EXTENDS Integers, SequencesExt

CONSTANTS
    Chars,      \* characters of the strings that are looked at
    MaxLen,     \* bound: length of a string
    MaxArgs,    \* bound: arguments of a command
    SplitLen,   \* pointers str_split allocates at first (64)
    PathSize    \* characters path_join allocates at first (1024)

BLANK == " "
PATH_SEPERATOR == "/"

ASSUME StringsAssumption ==
    /\ {BLANK, PATH_SEPERATOR} \subseteq Chars
    /\ {MaxLen, MaxArgs} \subseteq Nat
    /\ {SplitLen, PathSize} \subseteq Nat \ {0}

NULL == <<"NULL">>

Strings == BoundedSeq(Chars, MaxLen)

Argvs == BoundedSeq(Strings, MaxArgs)

Join(a, separator, b) == a \o separator \o b

\* The length of the arguments, summed up by the first loop of array_join.
Size(arr) == FoldLeft(LAMBDA sum, str : sum + Len(str), 0, arr)

\* Mutant: the separator comes after every argument but the first.
array_join_Late(arr, separator) ==
    IF arr = <<>> \/ Size(arr) = 0 THEN NULL
    ELSE FoldLeft(LAMBDA buf, str : Join(buf, str, separator), Head(arr), Tail(arr))

array_join(arr, separator) ==
    IF arr = <<>> \/ Size(arr) = 0 THEN NULL
    ELSE FoldLeft(LAMBDA buf, str : Join(buf, separator, str), Head(arr), Tail(arr))

\* What array_join allocates for that, the final zero included.
array_join_malloc(arr, separator) == Size(arr) + Len(separator) * (Len(arr) - 1) + 1

\* strtok: the string so far is a sequence of tokens, open while the last one
\* may still grow.
Token(split, c, delim) ==
    IF c = delim THEN [split EXCEPT !.open = FALSE]
    ELSE IF split.open
         THEN [split EXCEPT !.tokens = Front(@) \o <<Append(Last(@), c)>>]
         ELSE [tokens |-> Append(split.tokens, <<c>>), open |-> TRUE]

str_split(str, delim) ==
    FoldLeft(LAMBDA split, c : Token(split, c, delim), [tokens |-> <<>>, open |-> FALSE], str).tokens

\* Mutant: the array grows one token late.
Grown_Late(len, n) == IF n > len THEN len * 2 ELSE len

\* realloc before token n (counted from 0) is stored.
Grown(len, n) == IF n >= len THEN len * 2 ELSE len

\* The length of the array when token n is stored, ...
split_len[n \in Nat] ==
    IF n = 0 THEN Grown(SplitLen, 0) ELSE Grown(split_len[n - 1], n)

\* ... and when the NULL after n tokens is.
split_end(n) ==
    LET len == IF n = 0 THEN SplitLen ELSE split_len[n - 1]
    IN  IF n >= len THEN len + 1 ELSE len

\* How many characters sep str begins with.
strspn(str, sep) == Cardinality({k \in 1..Len(str) : \A j \in 1..k : str[j] = sep})

ltrim(str, sep) == SubSeq(str, strspn(str, sep) + 1, Len(str))

\* The loop that clears the last character as long as it is sep.
rtrim(str, sep) == SubSeq(str, 1, Len(str) - strspn(Reverse(str), sep))

trim(str, sep) == ltrim(rtrim(str, sep), sep)

-----------------------------------------------------------------------------
(* path_join and str_join *)

EndsWithSeparator(str) == str # <<>> /\ Last(str) = PATH_SEPERATOR

\* One separator is cut off at the end, ...
WithoutLast(str) == IF EndsWithSeparator(str) THEN Front(str) ELSE str

\* ... and all of them at the start.
WithoutFirst(str) == SubSeq(str, strspn(str, PATH_SEPERATOR) + 1, Len(str))

\* Mutant: the second path is taken as it is.
path_join_Raw(dir, str) == Join(WithoutLast(dir), <<PATH_SEPERATOR>>, str)

path_join(dir, str) == Join(WithoutLast(dir), <<PATH_SEPERATOR>>, WithoutFirst(str))

\* The test before malloc and before each strcat.
Fitting(size, len) == IF len >= size THEN len * 2 ELSE size

\* The size of the buffer after each of the three tests.
path_join_sizes(dir, str) ==
    LET first  == Fitting(PathSize, Len(dir))
        second == Fitting(first, Len(WithoutLast(dir)) + 1)
        third  == Fitting(second, Len(path_join(dir, str)))
    IN  <<first, second, third>>

\* One round of str_join: its buffer, the size of that, and whether every
\* strcat had room for the text and the final zero.
Joined(buf, separator, str) ==
    LET first  == Fitting(buf.size, Len(buf.text) + Len(separator))
        text   == Join(buf.text, separator, str)
        second == Fitting(first, Len(text))
    IN  [text |-> text, size |-> second,
         fits |-> /\ buf.fits
                  /\ Len(buf.text) + Len(separator) < first
                  /\ Len(text) < second]

str_join(separator, strs) ==
    FoldLeft(LAMBDA buf, str : Joined(buf, separator, str),
             [text |-> Head(strs), size |-> Fitting(PathSize, Len(Head(strs))), fits |-> TRUE],
             Tail(strs))

-----------------------------------------------------------------------------
(* What `run`, `start` and the mounting of a volume do with them.          *)

VARIABLES
    argv,     \* the command that `run` was given
    command,  \* the command in the container's record
    cmd,      \* the command that `start` executes
    path,     \* the directory and ...
    dest,     \* ... the destination of a volume
    target    \* where the volume is mounted

commandVars == <<argv, command, cmd>>
volumeVars == <<path, dest, target>>
stringVars == <<commandVars, volumeVars>>

StringsInit ==
    /\ argv = <<>> /\ command = NULL /\ cmd = <<>>
    /\ path = <<>> /\ dest = <<>> /\ target = NULL

Separator == <<BLANK>>

Untouched == argv = <<>> /\ path = <<>>

\* The callback of `run`; a NULL ends the process.
RunRecords ==
    /\ Untouched
    /\ argv' \in Argvs \ {<<>>}
    /\ command' = array_join(argv', Separator)
    /\ UNCHANGED <<cmd, volumeVars>>

StartSplits ==
    /\ command # NULL /\ cmd = <<>>
    /\ cmd' = str_split(command, BLANK)
    /\ UNCHANGED <<argv, command, volumeVars>>

\* bind_mount; the merged directory has a name.
VolumePlaced ==
    /\ Untouched
    /\ path' \in Strings \ {<<>>} /\ dest' \in Strings
    /\ target' = path_join(path', dest')
    /\ UNCHANGED commandVars

StringsNext == RunRecords \/ StartSplits \/ VolumePlaced

StringsSpec == StringsInit /\ [][StringsNext]_stringVars

-----------------------------------------------------------------------------
(* Properties *)

\* The words that `start` passes on are what lies between blanks of the
\* recorded command: all of it, none empty, none joined or torn.
SplitIsWords ==
    LET Blank(k) == k \notin DOMAIN command \/ command[k] = BLANK
        starts == {k \in DOMAIN command : ~Blank(k) /\ Blank(k - 1)}
    IN  cmd # <<>> =>
          /\ Len(cmd) = Cardinality(starts)
          /\ \A t \in DOMAIN cmd : \E k \in starts :
                LET end == k + Len(cmd[t])
                IN  /\ Cardinality({j \in starts : j <= k}) = t
                    /\ cmd[t] = SubSeq(command, k, end - 1)
                    /\ Blank(end) /\ \A j \in k..(end - 1) : ~Blank(j)

\* What `start` executes is the command that `run` was given, with its
\* arguments cut at blanks: the same command if no argument contains a blank
\* or is empty, and never anything but its words, in their order.
CommandKept ==
    /\ SplitIsWords
    /\ cmd # <<>> => cmd = FlattenSeq([k \in DOMAIN argv |-> str_split(argv[k], BLANK)])

\* array_join, which computes the size first, str_split, path_join and str_join,
\* which enlarge as they go, never write beyond what they allocated; and both
\* joins make the same text, wherever array_join has an answer.
BuffersFit ==
    /\ command # NULL => Len(command) + 1 <= array_join_malloc(argv, Separator)
    /\ \A n \in 0..Len(cmd) : n < split_end(n) /\ (n < Len(cmd) => n < split_len[n])
    /\ target # NULL =>
          LET sizes == path_join_sizes(path, dest)
          IN  /\ Len(path) + 1 <= sizes[1]
              /\ Len(WithoutLast(path)) + 2 <= sizes[2]
              /\ Len(target) + 1 <= sizes[3]
    /\ argv # <<>> =>
          LET joined == str_join(Separator, argv)
          IN  /\ joined.fits /\ Len(joined.text) < joined.size
              /\ command # NULL => joined.text = command

\* A volume is mounted below the directory it is joined to, name by name,
\* whatever separators it was given with, and no empty name comes in between.
PathNames ==
    LET Names(s) == str_split(s, PATH_SEPERATOR)
        Doubled(s) == \E k \in 1..(Len(s) - 1) : s[k] = PATH_SEPERATOR /\ s[k + 1] = PATH_SEPERATOR
    IN  target # NULL =>
          /\ Names(target) = Names(path) \o Names(dest)
          /\ Doubled(target) => Doubled(path) \/ Doubled(WithoutFirst(dest))
=============================================================================
