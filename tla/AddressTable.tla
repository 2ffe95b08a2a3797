----------------------------- MODULE AddressTable -----------------------------
(***************************************************************************)
(* What slices promise to their users, without objects, policies, bitmaps  *)
(* or names of objects: a table of which name holds which offset.  An      *)
(* offset is handed out only while nobody holds it, a name keeps its       *)
(* offset until it gives it up, and one step gives up at most one and      *)
(* takes at most one.  Only the deletion of a whole slice ends several     *)
(* holdings at once: those of its offsets, and no other.                   *)
(*                                                                         *)
(* Whatever anybody writes to one slice, IPSlice implements Spec.  Clients *)
(* never give up for one name and take for another in one write, so a      *)
(* cluster of slices, Blocks, implements SpecApart, with the addresses of  *)
(* all networks for offsets.                                               *)
(***************************************************************************)
CONSTANTS Names, Offsets,
          Slices   \* sets of offsets

VARIABLE held   \* a function from the names that hold an offset to Offsets

Init == held = [n \in {} |-> n]

\* The names in `out' (one at most) give up their offsets and, in the same step,
\* the names in `in' (one at most) take one that is then free.
Exchange(out, in) ==
    /\ held' \in [(DOMAIN held \ out) \cup in -> Offsets]
    /\ \A n \in DOMAIN held \ out : held'[n] = held[n]
    /\ \A n \in in : \A other \in DOMAIN held \ out : held'[n] # held[other]

AtMostOne(S) == {{}} \cup {{n} : n \in S}

Change == \E out \in AtMostOne(DOMAIN held) :
              \E in \in AtMostOne(Names \ DOMAIN held) : Exchange(out, in)

Delete(slice) == held' = [n \in {m \in DOMAIN held : held[m] \notin slice} |-> held[n]]

Next == Change \/ \E slice \in Slices : Delete(slice)

Spec == Init /\ [][Next]_held

\* Nobody takes in the step in which somebody gives up.
NextApart == \/ \E n \in Names \ DOMAIN held : Exchange({}, {n})
             \/ \E n \in DOMAIN held : Exchange({n}, {})
             \/ \E slice \in Slices : Delete(slice)

SpecApart == Init /\ [][NextApart]_held
=============================================================================
