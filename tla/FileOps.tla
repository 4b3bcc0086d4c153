---------------------------------- MODULE FileOps ----------------------------------
(***************************************************************************)
(* The file operations (file_ops.c): a table of paths.  An entry is never  *)
(* used again, and nothing looks whether a path is there already.  Sizes   *)
(* are always 0.  Nothing in the kernel calls the operations yet; the      *)
(* callers they are made for pass paths, never null pointers, and keep     *)
(* them: the table holds the pointers.                                     *)
(***************************************************************************)
EXTENDS Integers, Sequences, FiniteSets

CONSTANTS MAX_FILES, Paths

ASSUME FileAssumption == MAX_FILES \in Nat

VARIABLES
  file_table,    \* the first file_count entries
  file_result    \* what the last call returned

fileVars == <<file_table, file_result>>

FileInit == file_table = << >> /\ file_result = 0

\* Mutant: an entry whose file is gone still counts.
HasAnyway(entry, path) == entry.path = path

Has(entry, path) == entry.path = path /\ entry.exists

\* The entries the loops stop at: the first with the path.
Entry(path) == {i \in DOMAIN file_table : /\ Has(file_table[i], path)
                                          /\ \A j \in 1 .. i - 1 : ~Has(file_table[j], path)}

Returns(r) == file_result' = r

FileNotFound(path) == Entry(path) = {} /\ Returns(-1) /\ UNCHANGED file_table

Delete(path) ==
  \/ \E i \in Entry(path) : file_table' = [file_table EXCEPT ![i].exists = FALSE] /\ Returns(0)
  \/ FileNotFound(path)

Full == Len(file_table) >= MAX_FILES
NoRoom == Full /\ Returns(-1) /\ UNCHANGED file_table

Copy(src, dst) ==
  \/ \E i \in Entry(src) :
       \/ ~Full /\ file_table' = Append(file_table, [file_table[i] EXCEPT !.path = dst]) /\ Returns(0)
       \/ NoRoom
  \/ FileNotFound(src)

Mkdir(path) ==
  \/ /\ ~Full /\ Returns(0)
     /\ file_table' = Append(file_table, [path |-> path, is_directory |-> TRUE, exists |-> TRUE])
  \/ NoRoom

Move(src, dst) ==
  \/ \E i \in Entry(src) : file_table' = [file_table EXCEPT ![i].path = dst] /\ Returns(0)
  \/ FileNotFound(src)

FileNext == \E p, q \in Paths : Delete(p) \/ Copy(p, q) \/ Mkdir(p) \/ Move(p, q)

FileSpec == FileInit /\ [][FileNext]_fileVars

-------------------------------------------------------------------------------
\* How many files an outsider finds of each path and kind.
Kind(entry) == IF entry.is_directory THEN "directory" ELSE "file"
Named(p, k) == {i \in DOMAIN file_table :
                  file_table[i].exists /\ file_table[i].path = p /\ Kind(file_table[i]) = k}
Files == [f \in Paths \X {"file", "directory"} |-> Cardinality(Named(f[1], f[2]))]

B == INSTANCE FileBag WITH files <- Files, made <- Len(file_table), result <- file_result

\* A call does what the abstract call with the same arguments does.
FileCallMatches ==
  \A p, q \in Paths : /\ Delete(p) => B!Delete(p)
                      /\ Copy(p, q) => B!Copy(p, q)
                      /\ Mkdir(p) => B!MakeDirectory(p)
                      /\ Move(p, q) => B!Move(p, q)

\* In any sequence of calls, with paths that are there several times, were moved
\* onto each other or deleted and made again: a call that returns 0 adds, removes
\* or renames exactly one file, one that returns -1 changes nothing, and it does
\* so only for a file that is not there or a table that is used up.
ImplementsFileBag == B!Spec /\ [][FileCallMatches]_fileVars

===============================================================================
