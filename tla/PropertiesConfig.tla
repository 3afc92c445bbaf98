-------------------------- MODULE PropertiesConfig -------------------------
(***************************************************************************)
(* common/properties_config.cpp: a file of lines "key = value" is read     *)
(* into a map, line by line.  What a line without a key or a value does is *)
(* decided by std::string, which throws when it is made from NULL.         *)
(***************************************************************************)
EXTENDS UsgStrings

CONSTANTS
    ConfigChars,  \* characters of the file
    MaxLine,      \* bound: length of a line
    MaxLines,     \* bound: lines of the file
    LineSize      \* sizeof(line), 1024

delim == "="
Hash  == "#"

ASSUME ConfigAssumption ==
    /\ {BLANK, delim, Hash} \subseteq ConfigChars
    /\ {MaxLine, MaxLines, LineSize} \subseteq Nat

VARIABLES
    lines,          \* the lines that were read
    propertiesMap,  \* the map
    reading         \* "reading", "read" or "died"

configVars == <<lines, propertiesMap, reading>>

ConfigInit ==
    /\ lines = <<>>
    /\ propertiesMap = <<>>
    /\ reading = "reading"

Skipped(line) == trim(line, BLANK) = <<>> \/ IsPrefix(<<Hash>>, trim(line, BLANK))

\* Mutant: as with operator[], the last line for a key is the one that counts.
Insert_Overwrites(key, value) ==
    propertiesMap' =
        [k \in DOMAIN propertiesMap \cup {key} |-> IF k = key THEN value ELSE propertiesMap[k]]

\* map.insert leaves a key that is there as it is.
Insert(key, value) ==
    propertiesMap' =
        [k \in DOMAIN propertiesMap \cup {key} |->
            IF k \in DOMAIN propertiesMap THEN propertiesMap[k] ELSE value]

\* One round of the loop: strtok finds the text before the first run of
\* delimiters and the text behind it, up to the next one.
ReadLine(line) ==
    /\ reading = "reading" /\ Len(line) < LineSize
    /\ lines' = Append(lines, line)
    /\ LET tokens == str_split(trim(line, BLANK), delim)
       IN  \/ Skipped(line) /\ UNCHANGED <<propertiesMap, reading>>
           \/ /\ ~Skipped(line) /\ Len(tokens) >= 2
              /\ Insert(trim(tokens[1], BLANK), trim(tokens[2], BLANK))
              /\ UNCHANGED reading
           \/ /\ ~Skipped(line) /\ Len(tokens) < 2
              /\ reading' = "died" /\ UNCHANGED propertiesMap

\* The end of the file, or a line that does not fit, behind which nothing is
\* read.
ReadEnds ==
    /\ reading = "reading"
    /\ reading' = "read"
    /\ UNCHANGED <<lines, propertiesMap>>

ConfigNext ==
    \/ \E line \in BoundedSeq(ConfigChars, MaxLine) : Len(lines) < MaxLines /\ ReadLine(line)
    \/ ReadEnds

ConfigSpec == ConfigInit /\ [][ConfigNext]_configVars

\* PropertiesConfig::get; a name that is not there gives the empty string.
get(name) == IF name \in DOMAIN propertiesMap THEN propertiesMap[name] ELSE <<>>

-----------------------------------------------------------------------------
(* Properties *)

\* A line of the file as its author means it: from its first to its last
\* character that is no blank, a comment, or a key and a value.
Ink(text) ==
    LET marks == {k \in DOMAIN text : text[k] # BLANK}
    IN  IF marks = {} THEN <<>> ELSE SubSeq(text, Min(marks), Max(marks))

Comment(line) == Ink(line) = <<>> \/ Ink(line)[1] = Hash

Delims(line) == {k \in DOMAIN line : line[k] = delim}

KeyOf(line)   == Ink(SubSeq(line, 1, Min(Delims(line)) - 1))
ValueOf(line) == Ink(SubSeq(line, Min(Delims(line)) + 1, Len(line)))

Plain(line) ==
    Cardinality(Delims(line)) = 1 /\ KeyOf(line) # <<>> /\ ValueOf(line) # <<>>

\* A file of comments and plain lines is read to its end, and get gives for
\* every key what the first line for it says.  (A line without a value ends the
\* process; what follows a second delimiter is lost.)
ConfigReads ==
    LET said == {k \in DOMAIN lines : ~Comment(lines[k])}
    IN  (\A k \in said : Plain(lines[k])) =>
          /\ reading # "died"
          /\ DOMAIN propertiesMap = {KeyOf(lines[k]) : k \in said}
          /\ \A k \in said :
                (\A j \in said : j < k => KeyOf(lines[j]) # KeyOf(lines[k]))
                    => get(KeyOf(lines[k])) = ValueOf(lines[k])
=============================================================================
