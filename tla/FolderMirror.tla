---------------------------- MODULE FolderMirror ----------------------------
(* What the message cache promises about a folder whose provider synchronises *)
(* incrementally: it learns only mail the folder has held, forgets only mail  *)
(* that has left, and in the end holds what stays there and can be read,      *)
(* unless the cache is used in a way that is known to lose mail.              *)
CONSTANTS
  Items,   \* what the folder may come to hold
  Due,     \* the mail that can be read
  ExtOf,   \* the identity the cache keeps an item under
  Nobody   \* no item

VARIABLES
  present, \* in the folder
  gone,    \* have left it, some to come back
  held,    \* the item the cache holds under an identity, or Nobody
  lossy    \* catching up is no longer promised
vars == <<present, gone, held, lossy>>

Exts == {ExtOf[i] : i \in Items}
Seen(e) == {i \in present \union gone : ExtOf[i] = e}

Init == present = {} /\ gone = {} /\ held = [e \in Exts |-> Nobody] /\ lossy = FALSE

\* The promise may be given up with any step, and is not taken up again.
MayLose == lossy => lossy'

Arrive(i) ==
  /\ i \notin present
  /\ present' = present \union {i}
  /\ MayLose /\ UNCHANGED <<gone, held>>

Leave(i) ==
  /\ i \in present
  /\ present' = present \ {i} /\ gone' = gone \union {i}
  /\ UNCHANGED <<held, lossy>>

\* Any number of rows change at once: each learns mail the folder holds or has
\* held, and is forgotten only for mail that has left.
Absorb ==
  /\ \E h \in [Exts -> Items \union {Nobody}] :
       /\ \A e \in Exts : \/ h[e] \in {held[e]} \union Seen(e)
                          \/ h[e] = Nobody /\ held[e] \in gone
       /\ held' = h
  /\ MayLose /\ UNCHANGED <<present, gone>>

Next == Absorb \/ \E i \in Items : Arrive(i) \/ Leave(i)

\* Mail that stays and can be read comes to be held.
CatchesUp == \A i \in Due : i \in present ~> held[ExtOf[i]] = i \/ i \notin present \/ lossy

Safe == Init /\ [][Next]_vars
Spec == Safe /\ CatchesUp
=============================================================================
