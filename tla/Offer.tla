-------------------------------- MODULE Offer --------------------------------
(***************************************************************************)
(* From the arguments of trit add and trit drop to the list of files the     *)
(* receiver is asked to accept: FilePattern selects, Sender::                *)
(* create_transfer_request describes and serializes what is staged, and the  *)
(* receiver deserializes it. The staging area itself (locking, loading,      *)
(* saving) is the subject of Staging, the way of the buffer of Session.      *)
(***************************************************************************)
EXTENDS TransferCodec, FilePattern

CONSTANTS Files,       \* the paths of the files of the working directory
          Sizings,     \* the sizes they may have
          Arguments,   \* the argument lists of add and drop, each a set
          None,        \* a value not made yet
          MaxListed,   \* bound: files staged when a request is made
          MaxEdits     \* bound: add and drop commands

ASSUME OfferAssumption ==
    /\ Files \subseteq Seq(0..Radix - 1) /\ IsFiniteSet(Files)
    /\ Sizings \subseteq [Files -> 0..Values[Long] - 1]
    /\ Arguments \subseteq SUBSET Seq(0..Radix - 1)
    /\ MaxListed \in 0..Values[Wide] - 1 /\ MaxEdits \in Nat

\* A path is spelled in the shortest way, as std::filesystem::relative returns it.
Canonical(path) == \A i \in DOMAIN path : ~NamesNothing(path, i)

\* No file is a directory.
ASSUME FilesAssumption ==
    \A f \in Files : f # <<>> /\ Canonical(f) /\ ~IsDirectory(f, Files)

\* What is named stays in the working directory.
ASSUME ArgumentsAssumption ==
    \A args \in Arguments : \A arg \in args : arg # <<>> => ~Leaves(arg)

VARIABLES size,      \* size[f]: the size of the file f
          staged,    \* the staged paths
          edit,      \* the last command: its arguments, what they select among and select
          edits,     \* counter of the bound
          request,   \* the TransferRequest of the sender, or None
          buffer,    \* what it was serialized to
          arrived,   \* the buffer the receiver has
          got        \* what it was deserialized to

vars == <<size, staged, edit, edits, request, buffer, arrived, got>>

Init ==
    /\ size \in Sizings
    /\ staged = {} /\ edit = [args |-> {}, among |-> {}, matched |-> {}] /\ edits = 0
    /\ request = None /\ buffer = None /\ arrived = None /\ got = None

Edit(args, paths) ==
    /\ request = None /\ edits < MaxEdits
    /\ edits' = edits + 1
    /\ edit' = [args |-> args, among |-> paths, matched |-> Matched(args, paths, Files)]
    /\ UNCHANGED <<size, request, buffer, arrived, got>>

\* stage selects among the files of the working directory, unstage among the staged.
Add(args)  == Edit(args, Files) /\ staged' = staged \cup edit'.matched
Drop(args) == Edit(args, staged) /\ staged' = staged \ edit'.matched

Info(f) == [path |-> f, size |-> size[f]]

\* Sender::create_transfer_request, with the staged set in any order.
Describe ==
    /\ request = None /\ Cardinality(staged) <= MaxListed
    /\ \E order \in SetToSeqs(staged) :
          request' = FromFilePaths([i \in DOMAIN order |-> Info(order[i])])
    /\ UNCHANGED <<size, staged, edit, edits, buffer, arrived, got>>

Write ==
    /\ request \notin {None, Thrown} /\ buffer = None
    /\ buffer' = Serialize(request)
    /\ UNCHANGED <<size, staged, edit, edits, request, arrived, got>>

\* The receiver reads the buffer, or one of which only the first bytes are there.
Read(length) ==
    /\ arrived' = SubSeq(buffer, 1, length)
    /\ got' = Deserialize(arrived')
    /\ UNCHANGED <<size, staged, edit, edits, request, buffer>>

Next == \/ \E args \in Arguments : Add(args) \/ Drop(args)
        \/ Describe \/ Write
        \/ /\ buffer \notin {None, Thrown} /\ got = None
           /\ \E length \in 0..Len(buffer) : Read(length)

Spec == Init /\ [][Next]_vars
-----------------------------------------------------------------------------
\* The files below a directory.
Below(arg, f) == f \in Between(Tree(arg), <<>>, Files)

\* README.md's table: * stands for a name without a slash, ** at the end of a
\* pattern for everything, ? for one character; a directory for the files below it.
Selects(arg, f) ==
    \/ arg = f
    \/ IsDirectory(arg, Files) /\ Below(arg, f)
    \/ \E i \in DOMAIN arg :
          LET before == SubSeq(arg, 1, i - 1)
              after  == From(arg, i + 1)
          IN \/ arg[i] = Star /\ f \in Flat(before, after, Files)
             \/ arg[i] = Star /\ after = <<Star>> /\ f \in Between(before, <<>>, Files)
             \/ arg[i] = Mark /\ Len(f) = Len(arg) /\ arg = [f EXCEPT ![i] = Mark]

\* The arguments AsDocumented is claimed for: a name, or one wildcard in it, or two stars
\* at the end. Left out are those the code treats otherwise than documented: the row with
\* two stars before a slash, and names with a dot for a step or with a slash too many.
Plain(s) == \A i \in DOMAIN s : s[i] \notin {Star, Mark}
IsRow(arg) ==
    /\ arg # <<>> /\ Canonical(arg)
    /\ \/ Plain(arg)
       \/ /\ ~IsDirectory(arg, Files)
          /\ \E i \in DOMAIN arg :
                /\ Plain(SubSeq(arg, 1, i - 1))
                /\ \/ arg[i] \in {Star, Mark} /\ Plain(From(arg, i + 1))
                   \/ arg[i] = Star /\ From(arg, i + 1) = <<Star>>

\* What the expressions made from arguments of these kinds select is what README.md says
\* of them: a dot is a dot, and a single star stays inside of a directory.
AsDocumented == edit.matched = {f \in edit.among : \E arg \in edit.args : Selects(arg, f)}

\* The receiver is asked about the files that are staged, with their sizes, and about
\* the chunks the sender will send: the two sides of the format agree, or the sender
\* throws, which is the case of a path too long for its length field.
ArrivesAsStaged ==
    got # None /\ arrived = buffer =>
        got = request /\ ToSet(request.file_infos) = {Info(f) : f \in staged}

\* A buffer that ends too early is never taken for a request.
CutIsNoticed == got # None /\ arrived # buffer => got = Thrown

\* What the files hold together.
Bytes(files) == FoldSet(LAMBDA f, sum : sum + size[f], 0, files)

\* The chunks announced hold exactly the bytes of the files, if and only if their
\* number fits its counter; beyond that the counter wraps and they hold fewer.
PlanCoversTransfer ==
    request \notin {None, Thrown} =>
        LET last == IF request.final_chunk_size = 0 THEN request.chunk_size
                                                    ELSE request.final_chunk_size
        IN  (request.num_chunks - 1) * request.chunk_size + last = Bytes(staged)
                <=> Fits(Bytes(staged))

\* What README.md says of a directory: passing one stages all files under it
\* recursively. So it does, in whichever way the argument names the directory.
DirectoryIsItsTree ==
    \A arg \in edit.args : IsDirectory(arg, Files) =>
        {f \in edit.among : Below(arg, f)} \subseteq edit.matched
=============================================================================
