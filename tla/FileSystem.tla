----------------------------- MODULE FileSystem -----------------------------
(***************************************************************************)
(* The files that the programs of the repository read and write, as the    *)
(* calls of std::fs they make use them. A file is a sequence of blocks, a  *)
(* block being what one write call puts there; each writer keeps its own   *)
(* position, so a file that is emptied under a writer gets a hole.         *)
(***************************************************************************)
EXTENDS Naturals, Sequences

CONSTANTS
    Name,      \* the paths in question
    Document,  \* what may be written: the document of each run of a program
    Length,    \* the number of blocks of each document
    Before,    \* the files there may be at first, with their documents
    Absent     \* no file

Hole == <<Absent, 0>>

\* the i-th block of a document, and the document whole
Block(d, i) == <<d, i>>
Whole(d) == [i \in 1..Length[d] |-> Block(d, i)]

ASSUME FileAssumption ==
    /\ Length \in [Document -> Nat \ {0}]
    /\ Absent \notin Document
    /\ Absent \notin Seq((Document \union {Absent}) \X Nat)
    /\ DOMAIN Before \subseteq Name
    /\ \A n \in DOMAIN Before : Before[n] \in Document


VARIABLE content  \* what each path holds

FilesInit ==
    \E there \in SUBSET DOMAIN Before :
        content = [n \in Name |-> IF n \in there THEN Whole(Before[n])
                                  ELSE Absent]

Exists(n) == content[n] # Absent

Create_keeps(n) ==
    content' = [content EXCEPT ![n] = IF @ = Absent THEN <<>> ELSE @]

\* File::create: an existing file is emptied
Create(n) == content' = [content EXCEPT ![n] = <<>>]

\* OpenOptions::create_new: one call that finds the path free and takes it
CreateNew(n) == ~Exists(n) /\ content' = [content EXCEPT ![n] = <<>>]

\* A write at position i of a document by whoever holds the file open
WriteAt(n, d, i) ==
    content' = [content EXCEPT ![n] =
        [j \in 1..(IF i > Len(@) THEN i ELSE Len(@)) |->
            IF j = i THEN Block(d, i) ELSE IF j <= Len(@) THEN @[j] ELSE Hole]]
=============================================================================
