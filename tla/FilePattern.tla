----------------------------- MODULE FilePattern -----------------------------
(***************************************************************************)
(* How the arguments of trit add and trit drop select files (staging.cpp):   *)
(* an argument that names a directory becomes a recursive pattern, a pattern *)
(* becomes a regular expression, and a file is selected when its path        *)
(* relative to the working directory matches as a whole.                     *)
(*                                                                         *)
(* A path is the sequence of its characters, a pattern likewise. Slash, Dot, *)
(* Star and Mark (the question mark) are the characters that are special.    *)
(***************************************************************************)
EXTENDS SequencesExt

Slash == 0
Dot   == 1
Star  == 6
Mark  == 7

\* A regular expression is a sequence of atoms: .* or [^/]* or . or a character.
Anything    == <<"anything", Star>>
InSegment   == <<"in segment", Star>>
AnyOne      == <<"any one", Mark>>
Literal(c)  == <<"literal", c>>

\* Faulty: the dot of a pattern is not escaped.
AtomUnescaped(c) == IF c \in {Mark, Dot} THEN AnyOne ELSE Literal(c)
Atom(c) == IF c = Mark THEN AnyOne ELSE Literal(c)

\* file_pattern_to_regex: two stars in a row are taken together.
Regex(pattern) ==
    LET rest[i \in 1..Len(pattern) + 1] ==   \* from the i-th character on
            IF i > Len(pattern) THEN <<>>
            ELSE IF pattern[i] # Star THEN <<Atom(pattern[i])>> \o rest[i + 1]
            ELSE IF i < Len(pattern) /\ pattern[i + 1] = Star THEN <<Anything>> \o rest[i + 2]
            ELSE <<InSegment>> \o rest[i + 1]
    IN  rest[1]

From(s, i) == SubSeq(s, i, Len(s))

\* An atom matches the characters of the path from the i-th to the one before the j-th.
Covers(atom, path, i, j) ==
    \/ atom = Anything
    \/ atom = InSegment /\ \A k \in i..j - 1 : path[k] # Slash
    \/ j = i + 1 /\ atom \in {AnyOne, Literal(path[i])}

\* std::regex_match: the whole path, cut into one piece for each atom. From the last atom
\* to the first, the positions where the part of the path that is left may begin.
RegexMatch(regex, path) ==
    1 \in FoldRight(LAMBDA atom, ends : {i \in 1..Len(path) + 1 :
                                           \E j \in ends : i <= j /\ Covers(atom, path, i, j)},
                    regex, {Len(path) + 1})

\* The characters of a path that name nothing: a step that is a dot, and a slash that
\* ends no step.
LoneDot(path, i) ==
    path[i] = Dot /\ (i = 1 \/ path[i - 1] = Slash) /\ (i = Len(path) \/ path[i + 1] = Slash)
NamesNothing(path, i) ==
    \/ LoneDot(path, i)
    \/ path[i] = Slash /\ (i = 1 \/ path[i - 1] = Slash \/ LoneDot(path, i - 1))

\* A relative path without them.
Direct(path) ==
    LET rest[i \in 1..Len(path) + 1] ==   \* from the i-th character on
            IF i > Len(path) THEN <<>>
            ELSE (IF NamesNothing(path, i) THEN <<>> ELSE <<path[i]>>) \o rest[i + 1]
    IN  rest[1]

\* What the paths of the files below a directory begin with; nothing for the working
\* directory itself.
Tree(arg) ==
    LET name == Direct(arg)
    IN  IF name = <<>> \/ name[Len(name)] = Slash THEN name ELSE name \o <<Slash>>

\* std::filesystem::is_directory, in a working directory that holds these files, however
\* the argument spells the directory. One without files counts as a name that does not
\* exist: either selects nothing.
IsDirectory(arg, files) == arg # <<>> /\ \E f \in files : IsPrefix(Tree(arg), f)

\* A path that is absolute or has a step up: where it leads is not modelled.
Leaves(arg) ==
    \/ arg[1] = Slash
    \/ \E i \in 1..Len(arg) - 1 :
          /\ arg[i] = Dot /\ arg[i + 1] = Dot
          /\ i = 1 \/ arg[i - 1] = Slash
          /\ i + 1 = Len(arg) \/ arg[i + 2] = Slash

\* normalize_patterns: path's operator / puts a slash in between when there is none.
Normalized(arg, files) ==
    IF ~IsDirectory(arg, files) THEN arg
    ELSE arg \o (IF arg[Len(arg)] = Slash THEN <<>> ELSE <<Slash>>) \o <<Star, Star>>

\* match_file_patterns_to_paths: the paths that one of the arguments selects, in a
\* working directory that holds files.
Matched(args, paths, files) ==
    {f \in paths : \E arg \in args : RegexMatch(Regex(Normalized(arg, files)), f)}
-----------------------------------------------------------------------------
(***************************************************************************)
(* Reference: the table of README.md. A row selects the files whose path is  *)
(* its prefix, then a stem, then its suffix; a stem with a slash is meant    *)
(* only where the table says recursively.                                    *)
(***************************************************************************)
Between(prefix, suffix, files) ==
    {f \in files : /\ Len(f) >= Len(prefix) + Len(suffix)
                   /\ SubSeq(f, 1, Len(prefix)) = prefix
                   /\ From(f, Len(f) - Len(suffix) + 1) = suffix}

Flat(prefix, suffix, files) ==
    {f \in Between(prefix, suffix, files) :
        \A i \in Len(prefix) + 1..Len(f) - Len(suffix) : f[i] # Slash}
=============================================================================
