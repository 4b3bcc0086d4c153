---------------------------------- MODULE FileBag ----------------------------------
(***************************************************************************)
(* What the file operations promise: a bag of files, each a path with its  *)
(* kind, given by how often each is there.  MAX_FILES is how many files    *)
(* can ever be made; deleting gives no room back.                          *)
(***************************************************************************)
EXTENDS Integers

CONSTANTS Paths, MAX_FILES

VARIABLES files, made, result

vars == <<files, made, result>>

Kinds == {"file", "directory"}
IsThere(p) == \E k \in Kinds : files[<<p, k>>] > 0

Init == files = [f \in Paths \X Kinds |-> 0] /\ made = 0 /\ result = 0

Add(p, k) == files' = [files EXCEPT ![<<p, k>>] = @ + 1] /\ made' = made + 1

Fails == result' = -1 /\ UNCHANGED <<files, made>>

Delete(p) ==
  \/ /\ \E k \in Kinds : files[<<p, k>>] > 0 /\ files' = [files EXCEPT ![<<p, k>>] = @ - 1]
     /\ result' = 0 /\ UNCHANGED made
  \/ ~IsThere(p) /\ Fails

Copy(p, q) ==
  \/ made < MAX_FILES /\ result' = 0 /\ \E k \in Kinds : files[<<p, k>>] > 0 /\ Add(q, k)
  \/ (~IsThere(p) \/ made = MAX_FILES) /\ Fails

MakeDirectory(p) ==
  \/ made < MAX_FILES /\ result' = 0 /\ Add(p, "directory")
  \/ made = MAX_FILES /\ Fails

Move(p, q) ==
  \/ /\ \E k \in Kinds : /\ files[<<p, k>>] > 0
                         /\ LET taken == [files EXCEPT ![<<p, k>>] = @ - 1]
                            IN  files' = [taken EXCEPT ![<<q, k>>] = @ + 1]
     /\ result' = 0 /\ UNCHANGED made
  \/ ~IsThere(p) /\ Fails

Next == \E p, q \in Paths : Delete(p) \/ Copy(p, q) \/ MakeDirectory(p) \/ Move(p, q)

Spec == Init /\ [][Next]_vars

===============================================================================
