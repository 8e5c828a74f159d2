----------------------------- MODULE FileStore -----------------------------
(***************************************************************************)
(* What a MiniFs volume promises: names with contents of their own. New    *)
(* room in a file holds anything; everything else changes only on request. *)
(* Any request may be refused for want of space, which is a stuttering     *)
(* step.                                                                   *)
(***************************************************************************)
EXTENDS Naturals

CONSTANTS Names, Values,
          MaxLen   \* no file is longer

VARIABLE contents   \* from the names of the existing files to their bytes

Init == contents = << >>

\* Only the file `name' may be made, deleted or changed by a step.
Only(name) ==
    \A m \in (DOMAIN contents \cup DOMAIN contents') \ {name} :
        m \in DOMAIN contents \cap DOMAIN contents' /\ contents'[m] = contents[m]

Create(name) ==
    /\ name \in DOMAIN contents' \ DOMAIN contents
    /\ \E n \in 0 .. MaxLen : contents'[name] \in [1 .. n -> Values]

Delete(name) == name \in DOMAIN contents \ DOMAIN contents'

\* A shorter or a longer file begins as before.
Resize(name) ==
    /\ name \in DOMAIN contents \cap DOMAIN contents'
    /\ \E n \in 0 .. MaxLen : contents'[name] \in [1 .. n -> Values]
    /\ \A i \in DOMAIN contents[name] \cap DOMAIN contents'[name] : contents'[name][i] = contents[name][i]

\* The bytes at positions `from' to `to', counted from 1, become v.
Write(name, from, to, v) ==
    /\ name \in DOMAIN contents \cap DOMAIN contents'
    /\ contents'[name] = [i \in DOMAIN contents[name] |-> IF i \in from .. to THEN v ELSE contents[name][i]]

Writes(name) == \E v \in Values, from, to \in 1 .. MaxLen : Write(name, from, to, v)

Next ==
    \E name \in Names :
        /\ Only(name)
        /\ Create(name) \/ Delete(name) \/ Resize(name) \/ Writes(name)

Spec == Init /\ [][Next]_contents
=============================================================================
