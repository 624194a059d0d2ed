----------------------------- MODULE EditHistory -----------------------------
(***************************************************************************)
(* What undo and redo promise: the document is one of a line of snapshots, *)
(* with the earlier ones in past and the later ones in future.  An edit    *)
(* takes a snapshot and forgets the future; undo and redo go back and      *)
(* forth along the line and change nothing else; a reset (clear, or a      *)
(* sheet loaded from the server) starts a new line.                        *)
(***************************************************************************)
EXTENDS Integers, SequencesExt

CONSTANT Items       \* what a document is made of

VARIABLES
  doc,               \* the document shown
  past,              \* snapshots undo returns to, the nearest last
  future             \* snapshots redo returns to, the nearest last

vars == <<doc, past, future>>

TypeOK == doc \subseteq Items /\ past \in Seq(SUBSET Items) /\ future \in Seq(SUBSET Items)

Init == doc = {} /\ past = <<>> /\ future = <<>>

\* One gesture may count as two edits, of which the first leaves doc alone.
Edit ==
  /\ doc' \in SUBSET Items
  /\ past' = Append(past, doc) \/ past' = past \o <<doc, doc>>
  /\ future' = <<>>

Undo ==
  /\ past # <<>>
  /\ doc' = Last(past)
  /\ past' = Front(past)
  /\ future' = Append(future, doc)

Redo ==
  /\ future # <<>>
  /\ doc' = Last(future)
  /\ future' = Front(future)
  /\ past' = Append(past, doc)

Reset ==
  /\ doc' \in SUBSET Items
  /\ past' = <<>> /\ future' = <<>>

Next == Edit \/ Undo \/ Redo \/ Reset

Spec == Init /\ [][Next]_vars
=============================================================================
