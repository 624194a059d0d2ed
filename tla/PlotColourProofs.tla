--------------------------- MODULE PlotColourProofs ---------------------------
(***************************************************************************)
(* Proofs about PlotColour, for any objects, colours, sheets and bounds:   *)
(* what a save stores are the colours of the drawing, and the highlight    *)
(* follows the selection.                                                  *)
(*                                                                         *)
(* A fill remembers the colours it replaced, and an undo paints those,     *)
(* whatever happened since.  What makes that right is a fact about all     *)
(* fills on both stacks at once: in the order they were made (Timeline),   *)
(* each remembers of an object what those before it say of it, and the     *)
(* object has the colour that those done so far say (Linked).  An undo or  *)
(* a redo leaves the timeline as it is and moves along it.  Besides, the   *)
(* stacks of PlotScene hold as many fills as there are (Counted), only     *)
(* what was selected is on the timeline (Reached), and no fill remembers   *)
(* the highlight as a line's colour (Changes).                             *)
(***************************************************************************)
EXTENDS PlotColour, PlotSceneProofs, FiniteSetTheorems

-----------------------------------------------------------------------------
\* The invariant

\* What a fill records; the colour before it is never the highlight's.
Changes ==
  {c \in UNION {[D -> [old : AllColours, nw : Colours]] : D \in SUBSET Objects} :
     \A o \in DOMAIN c : IsLine(o) => c[o].old # Gold}

ColourTypes ==
  /\ colour \in [Objects -> AllColours] /\ born \in [Objects -> AllColours]
  /\ origColor \in [Objects -> Colours \cup {White, NoColour}]
  /\ curColor \in Colours /\ touched \subseteq Objects
  /\ fills \in Seq(Changes) /\ unfills \in Seq(Changes)

\* The commands of a stack that are fills.
FillsOf(stack) == {i \in 1..Len(stack) : stack[i].op = "fill"}

\* The stacks of PlotScene hold as many fills as there are changes.
Counted ==
  /\ IsFiniteSet(FillsOf(undoStack)) /\ Cardinality(FillsOf(undoStack)) = Len(fills)
  /\ IsFiniteSet(FillsOf(redoStack)) /\ Cardinality(FillsOf(redoStack)) = Len(unfills)

\* All changes recorded, in the order they were made: first those done, then
\* those undone.
Timeline ==
  [i \in 1 .. Len(fills) + Len(unfills) |->
     IF i <= Len(fills) THEN fills[i] ELSE unfills[Len(fills) + Len(unfills) + 1 - i]]

\* After the first n changes of line the colour of o is c, when it began as b.
Says(line, n, o, b, c) ==
  \/ \E i \in 1..n : /\ o \in DOMAIN line[i] /\ c = line[i][o].nw
                     /\ \A j \in i + 1 .. n : o \notin DOMAIN line[j]
  \/ (\A i \in 1..n : o \notin DOMAIN line[i]) /\ c = b

Meshes == {o \in Objects : KindOf[o] \in {"block", "wall"}}

\* The colour of a mesh is what the changes done say, and each change knows what
\* those before it say.
Linked ==
  \A o \in Meshes :
    /\ Says(Timeline, Len(fills), o, born[o], colour[o])
    /\ \A i \in DOMAIN Timeline :
         o \in DOMAIN Timeline[i] => Says(Timeline, i - 1, o, born[o], Timeline[i][o].old)

\* Only what was selected is filled, and all else is as it was made.
Reached ==
  /\ selected \subseteq touched
  /\ \A i \in DOMAIN Timeline : DOMAIN Timeline[i] \subseteq touched
  /\ \A o \in Objects \ touched : KindOf[o] # "div" => colour[o] = born[o]

ColoursInv == ColourTypes /\ Counted /\ Linked /\ Reached /\ HighlightFollows

\* A step of the colours is a step of the drawing, or leaves it alone.
LEMMA ColourStep ==
  ASSUME [CNext]_cvars
  PROVE  [Next]_vars
<1>1. CASE \E c \in Colours : DoColor(c)
  BY <1>1 DEF DoColor
<1>2. CASE (\E t \in Tools : CTool(t)) \/ (\E hit \in Objects \cup {NoObj}, shift \in BOOLEAN : CSelect(hit, shift))
  BY <1>2 DEF CTool, CSelect, Next
<1>3. CASE CFill \/ CUndo \/ CRedo \/ CClear
  BY <1>3 DEF CFill, CUndo, CRedo, CClear, Next
<1>4. CASE CRecord \/ CIdle
  BY <1>4 DEF CRecord, CIdle, Next
<1>5. CASE \E o \in Objects : CDraw(o) \/ CStroke(o)
  BY <1>5 DEF CDraw, CStroke, Next
<1>6. CASE \E sheet \in Sheets : CLoad(sheet)
  BY <1>6 DEF CLoad, Next
<1>7. CASE UNCHANGED cvars
  BY <1>7 DEF cvars
<1> QED BY <1>1, <1>2, <1>3, <1>4, <1>5, <1>6, <1>7 DEF CNext

\* What the drawing keeps, it keeps when it is coloured.
LEMMA ColouredDraws == CSpec => []TypeOK
<1>1. CInit => Init
  BY DEF CInit
<1>2. [CNext]_cvars => [Next]_vars
  BY ColourStep
<1> QED BY <1>1, <1>2, TypeCorrect, PTL DEF CSpec, Spec

-----------------------------------------------------------------------------
\* The timeline

\* What the changes say depends on those counted only.
LEMMA SaysSame ==
  ASSUME NEW line, NEW other, NEW n \in Nat, NEW o, NEW b, NEW c,
         \A i \in 1..n : line[i] = other[i], Says(line, n, o, b, c)
  PROVE  Says(other, n, o, b, c)
<1>1. \A i \in 1..n : \A j \in i + 1 .. n : j \in 1..n
  OBVIOUS
<1>2. ASSUME NEW i \in 1..n, o \in DOMAIN line[i], c = line[i][o].nw, \A j \in i + 1 .. n : o \notin DOMAIN line[j]
      PROVE  o \in DOMAIN other[i] /\ c = other[i][o].nw /\ \A j \in i + 1 .. n : o \notin DOMAIN other[j]
  BY <1>1, <1>2
<1>3. ASSUME \A i \in 1..n : o \notin DOMAIN line[i]
      PROVE  \A i \in 1..n : o \notin DOMAIN other[i]
  BY <1>3
<1> QED BY <1>2, <1>3 DEF Says

\* A change that is not about o says nothing of it.
LEMMA SaysBeside ==
  ASSUME NEW line, NEW n \in Nat, NEW o, NEW b, NEW c, o \notin DOMAIN line[n + 1]
  PROVE  Says(line, n + 1, o, b, c) <=> Says(line, n, o, b, c)
<1>1. 1 .. n + 1 = (1..n) \cup {n + 1} /\ \A i \in 1..n : i + 1 .. n + 1 = (i + 1 .. n) \cup {n + 1}
  OBVIOUS
<1>2. ASSUME Says(line, n + 1, o, b, c) PROVE Says(line, n, o, b, c)
  BY <1>1, <1>2 DEF Says
<1>3. ASSUME Says(line, n, o, b, c) PROVE Says(line, n + 1, o, b, c)
  BY <1>1, <1>3 DEF Says
<1> QED BY <1>2, <1>3

\* The last change about o says what it says.
LEMMA SaysNew ==
  ASSUME NEW line, NEW n \in Nat, NEW o, NEW b, o \in DOMAIN line[n + 1]
  PROVE  Says(line, n + 1, o, b, line[n + 1][o].nw)
<1>1. n + 1 \in 1 .. n + 1 /\ (n + 1) + 1 .. n + 1 = {}
  OBVIOUS
<1> QED BY <1>1 DEF Says

\* There is a change at every place of the timeline.
LEMMA TimelineIs ==
  ASSUME ColourTypes
  PROVE  /\ Len(fills) \in Nat /\ Len(unfills) \in Nat
         /\ DOMAIN Timeline = 1 .. Len(fills) + Len(unfills)
         /\ \A i \in DOMAIN Timeline : Timeline[i] \in Changes
         /\ \A i \in 1..Len(fills) : i \in DOMAIN Timeline /\ Timeline[i] = fills[i]
<1> DEFINE n == Len(fills)
           m == Len(unfills)
<1>1. n \in Nat /\ m \in Nat
  BY LenProperties DEF ColourTypes
<1>2. (\A i \in 1..n : fills[i] \in Changes) /\ (\A i \in 1..m : unfills[i] \in Changes)
  BY ElementOfSeq DEF ColourTypes
<1>3. DOMAIN Timeline = 1 .. n + m
  BY DEF Timeline
<1>4. \A i \in 1 .. n + m : Timeline[i] = IF i <= n THEN fills[i] ELSE unfills[n + m + 1 - i]
  BY DEF Timeline
<1> HIDE DEF n, m
<1>5. \A i \in 1 .. n + m : (i \in 1..n /\ i <= n) \/ (~(i <= n) /\ n + m + 1 - i \in 1..m)
  BY <1>1
<1>6. \A i \in 1 .. n + m : Timeline[i] \in Changes
  BY <1>2, <1>4, <1>5
<1>7. \A i \in 1..n : i \in 1 .. n + m /\ i <= n
  BY <1>1
<1> QED BY <1>1, <1>3, <1>4, <1>6, <1>7 DEF n, m

\* Recording a command forgets the changes undone.
LEMMA TimelineForget ==
  ASSUME ColourTypes, fills' = fills, unfills' = <<>>
  PROVE  DOMAIN Timeline' = 1..Len(fills) /\ \A i \in 1..Len(fills) : Timeline'[i] = Timeline[i]
<1> DEFINE n == Len(fills)
<1>1. n \in Nat /\ Len(unfills') = 0 /\ n + 0 = n
  BY TimelineIs
<1>2. Timeline' = [i \in 1 .. n + Len(unfills') |-> IF i <= n THEN fills[i] ELSE unfills'[n + Len(unfills') + 1 - i]]
  BY DEF Timeline
<1>3. \A i \in 1..n : i <= n /\ Timeline[i] = fills[i]
  BY TimelineIs
<1> HIDE DEF n
<1>4. DOMAIN Timeline' = 1..n /\ \A i \in 1..n : Timeline'[i] = fills[i]
  BY <1>1, <1>2, <1>3
<1> QED BY <1>3, <1>4 DEF n

\* A fill takes their place.
LEMMA TimelineRecord ==
  ASSUME ColourTypes, NEW change \in Changes, fills' = Append(fills, change), unfills' = <<>>
  PROVE  /\ Len(fills') = Len(fills) + 1 /\ DOMAIN Timeline' = 1 .. Len(fills) + 1
         /\ Timeline'[Len(fills) + 1] = change
         /\ \A i \in 1..Len(fills) : Timeline'[i] = Timeline[i]
<1> DEFINE n == Len(fills)
           longer == Append(fills, change)
<1>1. n \in Nat /\ Len(unfills') = 0 /\ \A i \in 1..n : Timeline[i] = fills[i]
  BY TimelineIs
<1>2. Len(longer) = n + 1 /\ longer[n + 1] = change /\ \A i \in 1..n : longer[i] = fills[i]
  BY AppendProperties DEF ColourTypes
<1>3. Timeline' = [i \in 1 .. Len(longer) + Len(unfills') |->
                     IF i <= Len(longer) THEN longer[i] ELSE unfills'[Len(longer) + Len(unfills') + 1 - i]]
  BY DEF Timeline
<1> HIDE DEF n, longer
<1>4. DOMAIN Timeline' = 1 .. n + 1 /\ \A i \in 1 .. n + 1 : Timeline'[i] = longer[i]
  BY <1>1, <1>2, <1>3
<1>5. n + 1 \in 1 .. n + 1 /\ \A i \in 1..n : i \in 1 .. n + 1
  BY <1>1
<1> QED BY <1>1, <1>2, <1>4, <1>5 DEF n, longer

\* A change that moves from one end of done to undone stays where it was.
LEMMA TimelineMoves ==
  ASSUME NEW left \in Seq(Changes), NEW right \in Seq(Changes), left # <<>>
  PROVE  /\ Len(Front(left)) = Len(left) - 1 /\ Len(left) \in Nat /\ Len(left) >= 1
         /\ Front(left) \in Seq(Changes) /\ Append(right, Last(left)) \in Seq(Changes)
         /\ Len(Append(right, Last(left))) = Len(right) + 1
         /\ [i \in 1 .. Len(left) + Len(right) |->
               IF i <= Len(left) THEN left[i] ELSE right[Len(left) + Len(right) + 1 - i]]
            = [i \in 1 .. Len(Front(left)) + Len(Append(right, Last(left))) |->
                 IF i <= Len(Front(left)) THEN Front(left)[i]
                 ELSE Append(right, Last(left))[Len(Front(left)) + Len(Append(right, Last(left))) + 1 - i]]
<1> DEFINE n == Len(left)
           m == Len(right)
           less == Front(left)
           more == Append(right, Last(left))
<1>1. /\ n \in Nat /\ n >= 1 /\ m \in Nat
      /\ less \in Seq(Changes) /\ Len(less) = n - 1 /\ \A i \in 1 .. n - 1 : less[i] = left[i]
      /\ Last(left) = left[n] /\ Last(left) \in Changes
  BY FrontLast, LenProperties
<1>2. more \in Seq(Changes) /\ Len(more) = m + 1 /\ more[m + 1] = left[n] /\ \A i \in 1..m : more[i] = right[i]
  BY <1>1, AppendProperties
<1> HIDE DEF n, m, less, more
<1>3. Len(less) + Len(more) = n + m
  BY <1>1, <1>2
<1>4. ASSUME NEW i \in 1 .. n + m
      PROVE  (IF i <= n THEN left[i] ELSE right[n + m + 1 - i])
             = IF i <= Len(less) THEN less[i] ELSE more[n + m + 1 - i]
  <2>1. CASE i <= n - 1
    <3>1. i \in 1 .. n - 1 /\ i <= n
      BY <1>1, <2>1
    <3> QED BY <1>1, <2>1, <3>1
  <2>2. CASE i = n
    <3>1. ~(i <= n - 1) /\ i <= n /\ n + m + 1 - i = m + 1
      BY <1>1, <2>2
    <3> QED BY <1>1, <1>2, <2>2, <3>1
  <2>3. CASE i > n
    <3>1. ~(i <= n - 1) /\ ~(i <= n) /\ n + m + 1 - i \in 1..m
      BY <1>1, <2>3
    <3> QED BY <1>1, <1>2, <3>1
  <2> QED BY <1>1, <2>1, <2>2, <2>3
<1> QED BY <1>1, <1>2, <1>3, <1>4 DEF n, m, less, more

\* Undo takes back the last change done.
LEMMA TimelineUndo ==
  ASSUME ColourTypes, fills # <<>>, fills' = Front(fills), unfills' = Append(unfills, Last(fills))
  PROVE  /\ Timeline' = Timeline /\ Len(fills') = Len(fills) - 1 /\ Len(unfills') = Len(unfills) + 1
         /\ Len(fills) >= 1 /\ Timeline[Len(fills)] = Last(fills)
         /\ fills' \in Seq(Changes) /\ unfills' \in Seq(Changes)
<1>1. fills \in Seq(Changes) /\ unfills \in Seq(Changes)
  BY DEF ColourTypes
<1>2. Last(fills) = fills[Len(fills)]
  BY <1>1, FrontLast
<1>3. Timeline' = Timeline
  <2>1. [i \in 1 .. Len(fills) + Len(unfills) |->
               IF i <= Len(fills) THEN fills[i] ELSE unfills[Len(fills) + Len(unfills) + 1 - i]]
            = [i \in 1 .. Len(Front(fills)) + Len(Append(unfills, Last(fills))) |->
                 IF i <= Len(Front(fills)) THEN Front(fills)[i]
                 ELSE Append(unfills, Last(fills))[Len(Front(fills)) + Len(Append(unfills, Last(fills))) + 1 - i]]
    BY <1>1, TimelineMoves
  <2> QED BY <2>1, Zenon DEF Timeline
<1>4. Len(fills) \in 1..Len(fills)
  BY <1>1, TimelineMoves
<1> QED BY <1>1, <1>2, <1>3, <1>4, TimelineMoves, TimelineIs

\* Redo makes the last change undone again.
LEMMA TimelineRedo ==
  ASSUME ColourTypes, unfills # <<>>, unfills' = Front(unfills), fills' = Append(fills, Last(unfills))
  PROVE  /\ Timeline' = Timeline /\ Len(fills') = Len(fills) + 1 /\ Len(unfills) = Len(unfills') + 1
         /\ Len(unfills) >= 1 /\ Timeline[Len(fills) + 1] = Last(unfills)
         /\ fills' \in Seq(Changes) /\ unfills' \in Seq(Changes)
<1>1. /\ fills \in Seq(Changes) /\ unfills \in Seq(Changes)
      /\ Len(unfills) \in Nat /\ Len(unfills) >= 1 /\ Len(fills) \in Nat
      /\ Last(unfills) \in Changes /\ Front(unfills) \in Seq(Changes) /\ Len(Front(unfills)) = Len(unfills) - 1
  BY FrontLast, TimelineIs DEF ColourTypes
<1>2. /\ fills' \in Seq(Changes) /\ fills' # <<>> /\ Last(fills') = Last(unfills) /\ Front(fills') = fills
      /\ Len(fills') = Len(fills) + 1 /\ fills'[Len(fills) + 1] = Last(unfills)
  BY <1>1, FrontLastOfAppend, AppendProperties
<1>3. unfills = Append(Front(unfills), Last(unfills))
  <2> DEFINE whole == Append(Front(unfills), Last(unfills))
             n == Len(unfills)
  <2>1. /\ n \in Nat /\ n >= 1 /\ Last(unfills) = unfills[n]
        /\ \A i \in 1 .. n - 1 : Front(unfills)[i] = unfills[i]
    BY <1>1, FrontLast
  <2>2. whole \in Seq(Changes) /\ Len(whole) = (n - 1) + 1 /\ whole[(n - 1) + 1] = Last(unfills)
        /\ \A i \in 1 .. n - 1 : whole[i] = Front(unfills)[i]
    BY <1>1, AppendProperties
  <2> HIDE DEF whole, n
  <2>3. Len(whole) = n /\ whole[n] = unfills[n] /\ \A i \in 1 .. n - 1 : whole[i] = unfills[i]
    BY <2>1, <2>2
  <2>4. \A i \in 1..n : i = n \/ i \in 1 .. n - 1
    BY <2>1
  <2>5. \A i \in 1..n : whole[i] = unfills[i]
    BY <2>3, <2>4, Zenon
  <2>6. unfills = whole
    BY <1>1, <2>2, <2>3, <2>5, SeqEqual DEF n
  <2> QED BY <2>6 DEF whole
<1>4. unfills = Append(unfills', Last(fills'))
  BY <1>2, <1>3
<1>5. Timeline' = Timeline
  <2>1. unfills' \in Seq(Changes)
    BY <1>1
  <2>2. [i \in 1 .. Len(fills') + Len(unfills') |->
               IF i <= Len(fills') THEN fills'[i] ELSE unfills'[Len(fills') + Len(unfills') + 1 - i]]
            = [i \in 1 .. Len(Front(fills')) + Len(Append(unfills', Last(fills'))) |->
                 IF i <= Len(Front(fills')) THEN Front(fills')[i]
                 ELSE Append(unfills', Last(fills'))[Len(Front(fills')) + Len(Append(unfills', Last(fills'))) + 1 - i]]
    BY <1>2, <2>1, TimelineMoves
  <2> QED BY <1>2, <1>4, <2>2, Zenon DEF Timeline
<1>6. Timeline'[Len(fills) + 1] = fills'[Len(fills) + 1]
  <2>1. Len(fills) + 1 \in 1 .. Len(fills') + Len(unfills') /\ Len(fills) + 1 <= Len(fills')
    BY <1>1, <1>2
  <2> QED BY <2>1 DEF Timeline
<1> QED BY <1>1, <1>2, <1>5, <1>6

-----------------------------------------------------------------------------
\* The fills on the stacks

\* Commands that are no fills leave the number of fills alone.
LEMMA FillsBeside ==
  ASSUME NEW stack \in Seq(Commands), NEW cmds \in Seq(Commands),
         \A i \in 1..Len(cmds) : cmds[i].op # "fill"
  PROVE  FillsOf(stack \o cmds) = FillsOf(stack)
<1> DEFINE n == Len(stack)
           m == Len(cmds)
           longer == stack \o cmds
<1>1. /\ n \in Nat /\ m \in Nat /\ Len(longer) = n + m
      /\ \A i \in 1 .. n + m : longer[i] = IF i <= n THEN stack[i] ELSE cmds[i - n]
  BY ConcatProperties, LenProperties
<1> HIDE DEF n, m, longer
<1>2. ASSUME NEW i \in 1 .. n + m, longer[i].op = "fill"
      PROVE  i \in 1..n /\ stack[i].op = "fill"
  <2>1. CASE i <= n
    BY <1>1, <1>2, <2>1
  <2>2. CASE ~(i <= n)
    <3>1. i - n \in 1..m
      BY <1>1, <2>2
    <3> QED BY <1>1, <1>2, <2>2, <3>1 DEF m
  <2> QED BY <2>1, <2>2
<1>3. ASSUME NEW i \in 1..n, stack[i].op = "fill"
      PROVE  i \in 1 .. n + m /\ longer[i].op = "fill"
  <2>1. i <= n /\ i \in 1 .. n + m
    BY <1>1
  <2> QED BY <1>1, <1>3, <2>1
<1>4. FillsOf(longer) = FillsOf(stack)
  BY <1>1, <1>2, <1>3 DEF FillsOf, n
<1> QED BY <1>4 DEF longer

\* A command pushed counts if it is a fill.
LEMMA FillsPushed ==
  ASSUME NEW stack \in Seq(Commands), NEW cmd \in Commands, IsFiniteSet(FillsOf(stack))
  PROVE  /\ IsFiniteSet(FillsOf(Append(stack, cmd)))
         /\ Cardinality(FillsOf(Append(stack, cmd))) =
              Cardinality(FillsOf(stack)) + IF cmd.op = "fill" THEN 1 ELSE 0
<1> DEFINE n == Len(stack)
           longer == Append(stack, cmd)
<1>1. /\ n \in Nat /\ Len(longer) = n + 1 /\ longer[n + 1] = cmd
      /\ \A i \in 1..n : longer[i] = stack[i]
  BY AppendProperties, LenProperties
<1> HIDE DEF n, longer
<1>2. 1 .. n + 1 = (1..n) \cup {n + 1} /\ n + 1 \notin 1..n
  BY <1>1
<1>3. FillsOf(longer) = FillsOf(stack) \cup (IF cmd.op = "fill" THEN {n + 1} ELSE {}) /\ n + 1 \notin FillsOf(stack)
  BY <1>1, <1>2 DEF FillsOf, n
<1>4. CASE cmd.op = "fill"
  <2>1. FillsOf(longer) = FillsOf(stack) \cup {n + 1}
    BY <1>3, <1>4
  <2>2. /\ IsFiniteSet(FillsOf(stack) \cup {n + 1})
        /\ Cardinality(FillsOf(stack) \cup {n + 1}) = Cardinality(FillsOf(stack)) + 1
    BY <1>3, FS_AddElement
  <2> QED BY <1>4, <2>1, <2>2 DEF longer
<1>5. CASE cmd.op # "fill"
  <2>1. FillsOf(longer) = FillsOf(stack)
    BY <1>3, <1>5
  <2>2. Cardinality(FillsOf(stack)) + 0 = Cardinality(FillsOf(stack))
    BY FS_CardinalityType
  <2> QED BY <1>5, <2>1, <2>2 DEF longer
<1> QED BY <1>4, <1>5

\* So does one popped.
LEMMA FillsPopped ==
  ASSUME NEW stack \in Seq(Commands), stack # <<>>, IsFiniteSet(FillsOf(stack))
  PROVE  /\ IsFiniteSet(FillsOf(Front(stack)))
         /\ Cardinality(FillsOf(stack)) =
              Cardinality(FillsOf(Front(stack))) + IF Last(stack).op = "fill" THEN 1 ELSE 0
<1>1. Front(stack) \in Seq(Commands) /\ Last(stack) \in Commands /\ stack = Append(Front(stack), Last(stack))
  BY FrontAppendLast
<1>2. IsFiniteSet(FillsOf(Front(stack)))
  <2>1. FillsOf(Front(stack)) \subseteq FillsOf(stack)
    <3>1. /\ Len(stack) \in Nat /\ Len(Front(stack)) = Len(stack) - 1
          /\ \A i \in 1 .. Len(stack) - 1 : Front(stack)[i] = stack[i]
      BY FrontLast
    <3> QED BY <3>1 DEF FillsOf
  <2> QED BY <2>1, FS_Subset
<1>3. Cardinality(FillsOf(Append(Front(stack), Last(stack)))) =
        Cardinality(FillsOf(Front(stack))) + IF Last(stack).op = "fill" THEN 1 ELSE 0
  BY <1>1, <1>2, FillsPushed
<1> QED BY <1>1, <1>2, <1>3

\* No fill is left where there is no command.
LEMMA FillsEmpty == FillsOf(<<>>) = {} /\ IsFiniteSet(FillsOf(<<>>)) /\ Cardinality(FillsOf(<<>>)) = 0
<1>1. FillsOf(<<>>) = {}
  BY DEF FillsOf
<1> QED BY <1>1, FS_EmptySet

\* An undo takes the change of a fill from one side to the other, if there is one.
LEMMA CountedUndo ==
  ASSUME TypeOK, ColourTypes, Counted, Undo,
         IF Last(undoStack).op = "fill" THEN fills' = Front(fills) /\ unfills' = Append(unfills, Last(fills))
                                        ELSE UNCHANGED <<fills, unfills>>
  PROVE  Counted' /\ (Last(undoStack).op = "fill" => fills # <<>>)
<1>1. /\ undoStack \in Seq(Commands) /\ undoStack # <<>> /\ redoStack \in Seq(Commands)
      /\ undoStack' = Front(undoStack) /\ redoStack' = Append(redoStack, Last(undoStack))
      /\ Last(undoStack) \in Commands
  BY FrontLast DEF Undo, TypeOK
<1>2. /\ IsFiniteSet(FillsOf(undoStack')) /\ IsFiniteSet(FillsOf(redoStack'))
      /\ Len(fills) = Cardinality(FillsOf(undoStack')) + IF Last(undoStack).op = "fill" THEN 1 ELSE 0
      /\ Cardinality(FillsOf(redoStack')) = Len(unfills) + IF Last(undoStack).op = "fill" THEN 1 ELSE 0
  BY <1>1, FillsPopped, FillsPushed DEF Counted
<1>3. Cardinality(FillsOf(undoStack')) \in Nat /\ Len(fills) \in Nat /\ Len(unfills) \in Nat
  BY <1>2, FS_CardinalityType, TimelineIs
<1>4. CASE Last(undoStack).op = "fill"
  <2>1. Len(fills) = Cardinality(FillsOf(undoStack')) + 1 /\ Cardinality(FillsOf(redoStack')) = Len(unfills) + 1
    BY <1>2, <1>4
  <2>2. fills # <<>>
    BY <1>3, <2>1
  <2>3. Len(fills') = Len(fills) - 1 /\ Len(unfills') = Len(unfills) + 1
    BY <1>4, <2>2, TimelineUndo
  <2> QED BY <1>2, <1>3, <2>1, <2>2, <2>3 DEF Counted
<1>5. CASE Last(undoStack).op # "fill"
  BY <1>2, <1>3, <1>5 DEF Counted
<1> QED BY <1>4, <1>5

\* So does a redo.
LEMMA CountedRedo ==
  ASSUME TypeOK, ColourTypes, Counted, Redo,
         IF Last(redoStack).op = "fill" THEN unfills' = Front(unfills) /\ fills' = Append(fills, Last(unfills))
                                        ELSE UNCHANGED <<fills, unfills>>
  PROVE  Counted' /\ (Last(redoStack).op = "fill" => unfills # <<>>)
<1>1. /\ undoStack \in Seq(Commands) /\ redoStack # <<>> /\ redoStack \in Seq(Commands)
      /\ redoStack' = Front(redoStack) /\ undoStack' = Append(undoStack, Last(redoStack))
      /\ Last(redoStack) \in Commands
  BY FrontLast DEF Redo, TypeOK
<1>2. /\ IsFiniteSet(FillsOf(undoStack')) /\ IsFiniteSet(FillsOf(redoStack'))
      /\ Len(unfills) = Cardinality(FillsOf(redoStack')) + IF Last(redoStack).op = "fill" THEN 1 ELSE 0
      /\ Cardinality(FillsOf(undoStack')) = Len(fills) + IF Last(redoStack).op = "fill" THEN 1 ELSE 0
  BY <1>1, FillsPopped, FillsPushed DEF Counted
<1>3. Cardinality(FillsOf(redoStack')) \in Nat /\ Len(fills) \in Nat /\ Len(unfills) \in Nat
  BY <1>2, FS_CardinalityType, TimelineIs
<1>4. CASE Last(redoStack).op = "fill"
  <2>1. Len(unfills) = Cardinality(FillsOf(redoStack')) + 1 /\ Cardinality(FillsOf(undoStack')) = Len(fills) + 1
    BY <1>2, <1>4
  <2>2. unfills # <<>>
    BY <1>3, <2>1
  <2>3. Len(unfills) = Len(unfills') + 1 /\ Len(fills') = Len(fills) + 1
    BY <1>4, <2>2, TimelineRedo
  <2>4. unfills' \in Seq(Changes)
    BY <1>4, <2>2, TimelineRedo
  <2>5. Len(unfills') \in Nat
    BY <2>4, LenProperties
  <2> QED BY <1>2, <1>3, <2>1, <2>2, <2>3, <2>5 DEF Counted
<1>5. CASE Last(redoStack).op # "fill"
  BY <1>2, <1>3, <1>5 DEF Counted
<1> QED BY <1>4, <1>5

\* Other commands recorded leave the changes done and forget those undone.
LEMMA CountedRecord ==
  ASSUME TypeOK, Counted, NEW cmds \in Seq(Commands), \A i \in 1..Len(cmds) : cmds[i].op # "fill",
         RecordAll(cmds), fills' = fills, unfills' = <<>>
  PROVE  Counted'
<1>1. undoStack' = undoStack \o cmds /\ redoStack' = <<>> /\ undoStack \in Seq(Commands)
  BY DEF RecordAll, TypeOK
<1>2. FillsOf(undoStack') = FillsOf(undoStack) /\ Len(unfills') = 0
  BY <1>1, FillsBeside
<1> QED BY <1>1, <1>2, FillsEmpty DEF Counted

-----------------------------------------------------------------------------
\* What the changes say, step by step

\* Where the colours of the meshes stay, so does what the changes done say.
LEMMA LinkedStays ==
  ASSUME ColourTypes, Linked, UNCHANGED fills, unfills' \in {unfills, <<>>},
         \A o \in Meshes : colour'[o] = colour[o] /\ born'[o] = born[o]
  PROVE  Linked'
<1> DEFINE n == Len(fills)
<1>1. n \in Nat /\ DOMAIN Timeline' \subseteq DOMAIN Timeline /\ (\A i \in DOMAIN Timeline' : Timeline'[i] = Timeline[i])
      /\ \A i \in 1..n : Timeline'[i] = Timeline[i]
  <2>1. CASE unfills' = unfills
    <3>1. Timeline' = Timeline
      BY <2>1 DEF Timeline
    <3> QED BY <3>1, TimelineIs
  <2>2. CASE unfills' = <<>>
    BY <2>2, TimelineForget, TimelineIs
  <2> QED BY <2>1, <2>2
<1>2. \A i \in DOMAIN Timeline' : i - 1 \in Nat /\ \A j \in 1 .. i - 1 : j \in DOMAIN Timeline'
  <2>1. CASE unfills' = unfills
    <3>1. Timeline' = Timeline
      BY <2>1 DEF Timeline
    <3> QED BY <3>1, TimelineIs
  <2>2. CASE unfills' = <<>>
    BY <2>2, TimelineForget, TimelineIs
  <2> QED BY <2>1, <2>2
<1> HIDE DEF n
<1> SUFFICES ASSUME NEW o \in Meshes
             PROVE  /\ Says(Timeline', n, o, born[o], colour[o])
                    /\ \A i \in DOMAIN Timeline' :
                         o \in DOMAIN Timeline'[i] => Says(Timeline', i - 1, o, born[o], Timeline'[i][o].old)
  BY DEF Linked, Meshes, n
<1>3. Says(Timeline', n, o, born[o], colour[o])
  BY <1>1, SaysSame DEF Linked, n
<1>4. ASSUME NEW i \in DOMAIN Timeline', o \in DOMAIN Timeline'[i]
      PROVE  Says(Timeline', i - 1, o, born[o], Timeline'[i][o].old)
  <2>1. Says(Timeline, i - 1, o, born[o], Timeline[i][o].old) /\ Timeline'[i] = Timeline[i]
    BY <1>1, <1>4 DEF Linked
  <2>2. \A j \in 1 .. i - 1 : Timeline[j] = Timeline'[j]
    BY <1>1, <1>2
  <2> QED BY <1>2, <2>1, <2>2, SaysSame
<1> QED BY <1>3, <1>4

\* So do the changes that reach only what was selected.
LEMMA ReachedStays ==
  ASSUME ColourTypes, Reached, UNCHANGED fills, unfills' \in {unfills, <<>>},
         touched \subseteq touched', selected' \subseteq touched',
         \A o \in Objects \ touched' : KindOf[o] # "div" => colour'[o] = colour[o] /\ born'[o] = born[o]
  PROVE  Reached'
<1>1. \A i \in DOMAIN Timeline' : i \in DOMAIN Timeline /\ Timeline'[i] = Timeline[i]
  <2>1. CASE unfills' = unfills
    <3>1. Timeline' = Timeline
      BY <2>1 DEF Timeline
    <3> QED BY <3>1, TimelineIs
  <2>2. CASE unfills' = <<>>
    BY <2>2, TimelineForget, TimelineIs
  <2> QED BY <2>1, <2>2
<1> QED BY <1>1 DEF Reached

\* A fill paints the meshes it records, and records what they were.
LEMMA LinkedRecord ==
  ASSUME ColourTypes, Linked, NEW change \in Changes,
         fills' = Append(fills, change), unfills' = <<>>, UNCHANGED born,
         \A o \in Meshes : IF o \in DOMAIN change THEN change[o].old = colour[o] /\ colour'[o] = change[o].nw
                                                  ELSE colour'[o] = colour[o]
  PROVE  Linked'
<1> DEFINE n == Len(fills)
<1>1. /\ n \in Nat /\ Len(fills') = n + 1 /\ DOMAIN Timeline' = 1 .. n + 1
      /\ Timeline'[n + 1] = change
      /\ \A i \in 1..n : i \in DOMAIN Timeline /\ Timeline[i] = Timeline'[i]
  BY TimelineRecord, TimelineIs
<1> HIDE DEF n
<1> SUFFICES ASSUME NEW o \in Meshes
             PROVE  /\ Says(Timeline', n + 1, o, born[o], colour'[o])
                    /\ \A i \in 1 .. n + 1 :
                         o \in DOMAIN Timeline'[i] => Says(Timeline', i - 1, o, born[o], Timeline'[i][o].old)
  BY <1>1 DEF Linked, Meshes
<1>2. Says(Timeline', n, o, born[o], colour[o])
  <2>1. Says(Timeline, n, o, born[o], colour[o])
    BY DEF Linked, n
  <2> QED BY <1>1, <2>1, SaysSame
<1>3. Says(Timeline', n + 1, o, born[o], colour'[o])
  <2>1. CASE o \in DOMAIN change
    <3>1. colour'[o] = Timeline'[n + 1][o].nw /\ o \in DOMAIN Timeline'[n + 1]
      BY <1>1, <2>1
    <3>2. Says(Timeline', n + 1, o, born[o], Timeline'[n + 1][o].nw)
      BY <1>1, <3>1, SaysNew
    <3> QED BY <3>1, <3>2
  <2>2. CASE o \notin DOMAIN change
    <3>1. colour'[o] = colour[o] /\ o \notin DOMAIN Timeline'[n + 1]
      BY <1>1, <2>2
    <3> QED BY <1>1, <1>2, <3>1, SaysBeside
  <2> QED BY <2>1, <2>2
<1>4. ASSUME NEW i \in 1 .. n + 1, o \in DOMAIN Timeline'[i]
      PROVE  Says(Timeline', i - 1, o, born[o], Timeline'[i][o].old)
  <2>1. CASE i \in 1..n
    <3>1. Says(Timeline, i - 1, o, born[o], Timeline[i][o].old) /\ Timeline[i] = Timeline'[i]
      BY <1>1, <1>4, <2>1 DEF Linked
    <3>2. i - 1 \in Nat /\ \A j \in 1 .. i - 1 : Timeline[j] = Timeline'[j]
      BY <1>1, <2>1
    <3> QED BY <3>1, <3>2, SaysSame
  <2>2. CASE i = n + 1
    <3>1. Timeline'[i][o].old = colour[o] /\ i - 1 = n
      BY <1>1, <1>4, <2>2
    <3> QED BY <1>2, <3>1
  <2> QED BY <1>1, <2>1, <2>2
<1> QED BY <1>3, <1>4

\* Undoing a fill gives the meshes back what they were before it.
LEMMA LinkedUndo ==
  ASSUME ColourTypes, Linked, fills # <<>>, fills' = Front(fills), unfills' = Append(unfills, Last(fills)),
         UNCHANGED born,
         \A o \in Meshes : colour'[o] = IF o \in DOMAIN Last(fills) THEN Last(fills)[o].old ELSE colour[o]
  PROVE  Linked'
<1> DEFINE n == Len(fills)
           k == Len(fills')
<1>1. /\ Timeline' = Timeline /\ n = k + 1 /\ k \in Nat /\ Timeline[n] = Last(fills) /\ n \in DOMAIN Timeline
  <2>1. /\ Timeline' = Timeline /\ Len(fills') = Len(fills) - 1
        /\ Len(fills) >= 1 /\ Timeline[Len(fills)] = Last(fills)
    BY TimelineUndo
  <2>2. Len(fills) \in Nat /\ Len(unfills) \in Nat /\ DOMAIN Timeline = 1 .. Len(fills) + Len(unfills)
    BY TimelineIs
  <2> QED BY <2>1, <2>2
<1> HIDE DEF n, k
<1> SUFFICES ASSUME NEW o \in Meshes
             PROVE  Says(Timeline, k, o, born[o], colour'[o])
  BY <1>1 DEF Linked, Meshes, k
<1>2. Says(Timeline, k + 1, o, born[o], colour[o])
  BY <1>1 DEF Linked, n
<1>3. CASE o \in DOMAIN Last(fills)
  <2>1. Says(Timeline, n - 1, o, born[o], Timeline[n][o].old) /\ colour'[o] = Timeline[n][o].old
    BY <1>1, <1>3 DEF Linked
  <2>2. n - 1 = k
    BY <1>1
  <2> QED BY <2>1, <2>2
<1>4. CASE o \notin DOMAIN Last(fills)
  <2>1. o \notin DOMAIN Timeline[k + 1] /\ colour'[o] = colour[o]
    BY <1>1, <1>4
  <2> QED BY <1>1, <1>2, <2>1, SaysBeside
<1> QED BY <1>3, <1>4

\* Redoing it gives them what it gave them.
LEMMA LinkedRedo ==
  ASSUME ColourTypes, Linked, unfills # <<>>, unfills' = Front(unfills), fills' = Append(fills, Last(unfills)),
         UNCHANGED born,
         \A o \in Meshes : colour'[o] = IF o \in DOMAIN Last(unfills) THEN Last(unfills)[o].nw ELSE colour[o]
  PROVE  Linked'
<1> DEFINE n == Len(fills)
<1>1. /\ Timeline' = Timeline /\ n \in Nat /\ Len(fills') = n + 1 /\ Timeline[n + 1] = Last(unfills)
  BY TimelineRedo, TimelineIs
<1> HIDE DEF n
<1> SUFFICES ASSUME NEW o \in Meshes
             PROVE  Says(Timeline, n + 1, o, born[o], colour'[o])
  BY <1>1 DEF Linked, Meshes
<1>2. Says(Timeline, n, o, born[o], colour[o])
  BY DEF Linked, n
<1>3. CASE o \in DOMAIN Last(unfills)
  <2>1. o \in DOMAIN Timeline[n + 1] /\ colour'[o] = Timeline[n + 1][o].nw
    BY <1>1, <1>3
  <2> QED BY <1>1, <2>1, SaysNew
<1>4. CASE o \notin DOMAIN Last(unfills)
  <2>1. o \notin DOMAIN Timeline[n + 1] /\ colour'[o] = colour[o]
    BY <1>1, <1>4
  <2> QED BY <1>1, <1>2, <2>1, SaysBeside
<1> QED BY <1>3, <1>4

\* An object that no fill on the stacks refers to is on no place of the timeline.
LEMMA UnfilledIs ==
  ASSUME ColourTypes, NEW o, Unfilled(o)
  PROVE  \A i \in DOMAIN Timeline : o \notin DOMAIN Timeline[i]
<1> DEFINE n == Len(fills)
           m == Len(unfills)
           all == fills \o unfills
<1>1. /\ n \in Nat /\ m \in Nat /\ all \in Seq(Changes) /\ Len(all) = n + m
      /\ \A i \in 1 .. n + m : all[i] = IF i <= n THEN fills[i] ELSE unfills[i - n]
  BY ConcatProperties, LenProperties DEF ColourTypes
<1>2. DOMAIN Timeline = 1 .. n + m
      /\ \A i \in 1 .. n + m : Timeline[i] = IF i <= n THEN fills[i] ELSE unfills[n + m + 1 - i]
  BY DEF Timeline
<1>3. \A i \in 1 .. n + m : o \notin DOMAIN all[i]
  <2>1. ToSet(all) = {all[i] : i \in DOMAIN all} /\ DOMAIN all = 1..Len(all)
    BY <1>1, LenProperties DEF ToSet
  <2> HIDE DEF all
  <2>2. \A i \in 1 .. n + m : all[i] \in ToSet(all)
    BY <1>1, <2>1
  <2> QED BY <2>2 DEF Unfilled, all
<1> HIDE DEF n, m, all
<1>4. ASSUME NEW i \in 1 .. n + m PROVE o \notin DOMAIN Timeline[i]
  <2>1. CASE i <= n
    BY <1>1, <1>2, <1>3, <2>1
  <2>2. CASE ~(i <= n)
    <3>1. n + (n + m + 1 - i) \in 1 .. n + m /\ ~(n + (n + m + 1 - i) <= n) /\ (n + (n + m + 1 - i)) - n = n + m + 1 - i
      BY <1>1, <2>2
    <3>2. Timeline[i] = all[n + (n + m + 1 - i)]
      BY <1>1, <1>2, <2>2, <3>1
    <3> QED BY <1>3, <3>1, <3>2
  <2> QED BY <2>1, <2>2
<1> QED BY <1>2, <1>4

\* An object is made: no change is about it.
LEMMA LinkedMade ==
  ASSUME ColourTypes, Linked, NEW o \in Objects, Unfilled(o), UNCHANGED fills, unfills' \in {unfills, <<>>},
         o \in Meshes => colour'[o] = born'[o],
         \A p \in Objects \ {o} : colour'[p] = colour[p] /\ born'[p] = born[p]
  PROVE  Linked'
<1> DEFINE n == Len(fills)
<1>1. /\ n \in Nat
      /\ \A i \in DOMAIN Timeline' : i \in DOMAIN Timeline /\ Timeline'[i] = Timeline[i] /\ i - 1 \in Nat
                                     /\ \A j \in 1 .. i - 1 : Timeline'[j] = Timeline[j]
      /\ \A i \in 1..n : Timeline'[i] = Timeline[i] /\ i \in DOMAIN Timeline
  <2>1. CASE unfills' = unfills
    <3>1. Timeline' = Timeline
      BY <2>1 DEF Timeline
    <3> QED BY <3>1, TimelineIs
  <2>2. CASE unfills' = <<>>
    BY <2>2, TimelineForget, TimelineIs
  <2> QED BY <2>1, <2>2
<1> HIDE DEF n
<1>2. \A i \in DOMAIN Timeline : o \notin DOMAIN Timeline[i]
  BY UnfilledIs
<1> SUFFICES ASSUME NEW p \in Meshes
             PROVE  /\ Says(Timeline', n, p, born'[p], colour'[p])
                    /\ \A i \in DOMAIN Timeline' :
                         p \in DOMAIN Timeline'[i] => Says(Timeline', i - 1, p, born'[p], Timeline'[i][p].old)
  BY DEF Linked, Meshes, n
<1>3. CASE p = o
  <2>1. \A i \in 1..n : p \notin DOMAIN Timeline'[i]
    BY <1>1, <1>2, <1>3
  <2>2. Says(Timeline', n, p, born'[p], colour'[p])
    BY <1>3, <2>1 DEF Says
  <2> QED BY <1>1, <1>2, <1>3, <2>2
<1>4. CASE p # o
  <2>1. colour'[p] = colour[p] /\ born'[p] = born[p]
    BY <1>4 DEF Meshes
  <2>2. Says(Timeline', n, p, born[p], colour[p])
    <3>1. Says(Timeline, n, p, born[p], colour[p])
      BY DEF Linked, n
    <3> QED BY <1>1, <3>1, SaysSame
  <2>3. ASSUME NEW i \in DOMAIN Timeline', p \in DOMAIN Timeline'[i]
        PROVE  Says(Timeline', i - 1, p, born[p], Timeline'[i][p].old)
    <3>1. Says(Timeline, i - 1, p, born[p], Timeline[i][p].old) /\ Timeline'[i] = Timeline[i]
      BY <1>1, <2>3 DEF Linked
    <3> QED BY <1>1, <3>1, SaysSame
  <2> QED BY <2>1, <2>2, <2>3
<1> QED BY <1>3, <1>4

\* So it is with what was selected.
LEMMA ReachedMade ==
  ASSUME ColourTypes, Reached, NEW o \in Objects, Unfilled(o), UNCHANGED <<fills, selected>>,
         unfills' \in {unfills, <<>>}, o \notin selected, touched' = touched \ {o},
         KindOf[o] # "div" => colour'[o] = born'[o],
         \A p \in Objects \ {o} : colour'[p] = colour[p] /\ born'[p] = born[p]
  PROVE  Reached'
<1>1. \A i \in DOMAIN Timeline' : i \in DOMAIN Timeline /\ Timeline'[i] = Timeline[i]
  <2>1. CASE unfills' = unfills
    <3>1. Timeline' = Timeline
      BY <2>1 DEF Timeline
    <3> QED BY <3>1, TimelineIs
  <2>2. CASE unfills' = <<>>
    BY <2>2, TimelineForget, TimelineIs
  <2> QED BY <2>1, <2>2
<1>2. \A i \in DOMAIN Timeline : o \notin DOMAIN Timeline[i]
  BY UnfilledIs
<1> QED BY <1>1, <1>2 DEF Reached

-----------------------------------------------------------------------------
\* The colours and the highlight

\* What a change holds.
LEMMA ChangeIs ==
  ASSUME NEW change \in Changes, NEW o \in DOMAIN change
  PROVE  /\ o \in Objects /\ change[o]["old"] \in AllColours /\ change[o]["nw"] \in Colours
         /\ change[o]["old"] = change[o].old /\ change[o]["nw"] = change[o].nw
         /\ IsLine(o) => change[o]["old"] # Gold
BY DEF Changes

\* Painting a change, or taking it back, leaves the highlight to the selection.
LEMMA PaintKeeps ==
  ASSUME ColourTypes, HighlightFollows, NEW change \in Changes, NEW side \in {"old", "nw"},
         Paint(change, side), UNCHANGED <<selected, born>>
  PROVE  /\ colour' \in [Objects -> AllColours] /\ origColor' \in [Objects -> Colours \cup {White, NoColour}]
         /\ HighlightFollows'
<1>1. \A o \in DOMAIN change : /\ change[o][side] \in AllColours
                               /\ IsLine(o) => change[o][side] \in Colours \cup {White} /\ change[o][side] # Gold
  BY ChangeIs, ColoursAssumption DEF AllColours
<1>2. /\ \A o \in Objects : colour'[o] = IF o \in DOMAIN change /\ ~(IsLine(o) /\ o \in selected)
                                         THEN change[o][side] ELSE colour[o]
      /\ colour' \in [Objects -> AllColours]
  BY <1>1 DEF Paint, ColourTypes
<1>3. origColor' \in [Objects -> Colours \cup {White, NoColour}]
  BY <1>1 DEF Paint, ColourTypes
<1>4. HighlightFollows'
  BY <1>1, <1>2 DEF HighlightFollows, IsLine
<1> QED BY <1>2, <1>3, <1>4

\* The highlight is put on what becomes selected and taken off what no longer is.
LEMMA HighlightKeeps ==
  ASSUME ColourTypes, HighlightFollows, Highlight(selected'), UNCHANGED <<origColor, born>>
  PROVE  /\ colour' \in [Objects -> AllColours] /\ HighlightFollows'
         /\ \A o \in Objects : ~IsLine(o) \/ o \notin selected \cup selected' => colour'[o] = colour[o]
<1>1. \A o \in Objects : Restored(o) \in AllColours /\ Restored(o) # Gold
  BY ColoursAssumption DEF Restored, ColourTypes, AllColours
<1>2. \A o \in Objects : colour'[o] = IF ~IsLine(o) THEN colour[o]
                                      ELSE IF o \in selected' \ selected THEN Gold
                                      ELSE IF o \in selected \ selected' THEN Restored(o)
                                      ELSE colour[o]
  BY DEF Highlight
<1>3. colour' \in [Objects -> AllColours]
  <2>1. Gold \in AllColours
    BY DEF AllColours
  <2> QED BY <1>1, <2>1 DEF Highlight, ColourTypes
<1>4. HighlightFollows'
  BY <1>1, <1>2 DEF HighlightFollows, IsLine
<1> QED BY <1>2, <1>3, <1>4

\* Objects made anew are not selected.
LEMMA MakeKeeps ==
  ASSUME ColourTypes, HighlightFollows, NEW made \in SUBSET Objects, NEW c,
         \A o \in made : c[o] \in AllColours, Make(made, c), selected' \cap made = {},
         \A o \in Objects \ made : o \in selected' => o \in selected,
         \A o \in Objects \ made : o \in selected => o \in selected'
  PROVE  /\ colour' \in [Objects -> AllColours] /\ born' \in [Objects -> AllColours]
         /\ origColor' \in [Objects -> Colours \cup {White, NoColour}]
         /\ HighlightFollows'
         /\ \A o \in made : KindOf[o] # "div" => colour'[o] = born'[o]
         /\ \A o \in Objects \ made : colour'[o] = colour[o] /\ born'[o] = born[o]
<1>1. White \in AllColours
  BY DEF AllColours
<1>2. colour' \in [Objects -> AllColours]
  BY <1>1 DEF Make, ColourTypes
<1>3. born' \in [Objects -> AllColours]
  BY DEF Make, ColourTypes
<1>4. origColor' \in [Objects -> Colours \cup {White, NoColour}]
  BY DEF Make, ColourTypes
<1>5. /\ \A o \in made : born'[o] = c[o] /\ (KindOf[o] # "div" => colour'[o] = c[o])
      /\ \A o \in Objects \ made : colour'[o] = colour[o] /\ born'[o] = born[o]
  BY DEF Make
<1>6. HighlightFollows'
  <2> SUFFICES ASSUME NEW o \in Objects, IsLine(o)
               PROVE  /\ o \in selected' => colour'[o] = Gold
                      /\ o \notin selected' /\ colour'[o] = Gold => born'[o] = Gold
    BY DEF HighlightFollows, IsLine
  <2>1. CASE o \in made
    BY <1>5, <2>1 DEF IsLine
  <2>2. CASE o \notin made
    BY <1>5, <2>2 DEF HighlightFollows
  <2> QED BY <2>1, <2>2
<1> QED BY <1>2, <1>3, <1>4, <1>5, <1>6

\* After a clear or a load there is nothing to undo.
LEMMA AllMade ==
  ASSUME ColourTypes, HighlightFollows, NEW c, \A o \in Objects : c[o] \in AllColours, Make(Objects, c),
         selected' = {}, fills' = <<>>, unfills' = <<>>, undoStack' = <<>>, redoStack' = <<>>,
         UNCHANGED curColor
  PROVE  ColoursInv'
<1>1. /\ colour' \in [Objects -> AllColours] /\ born' \in [Objects -> AllColours]
      /\ origColor' \in [Objects -> Colours \cup {White, NoColour}]
      /\ HighlightFollows'
      /\ \A o \in Objects : KindOf[o] # "div" => colour'[o] = born'[o]
  BY MakeKeeps
<1>2. touched' = {}
  BY DEF Make, ColourTypes
<1>3. Len(fills') = 0 /\ Len(unfills') = 0 /\ fills' \in Seq(Changes) /\ unfills' \in Seq(Changes)
  BY EmptySeq
<1>4. DOMAIN Timeline' = {}
  <2>1. DOMAIN Timeline' = 1 .. Len(fills') + Len(unfills')
    BY DEF Timeline
  <2> QED BY <1>3, <2>1
<1>5. ColourTypes'
  BY <1>1, <1>2, <1>3 DEF ColourTypes
<1>6. Counted'
  BY <1>3, FillsEmpty DEF Counted
<1>7. Linked'
  <2> SUFFICES ASSUME NEW o \in Meshes PROVE Says(Timeline', 0, o, born'[o], colour'[o])
    BY <1>3, <1>4 DEF Linked, Meshes
  <2>1. colour'[o] = born'[o]
    BY <1>1 DEF Meshes
  <2> QED BY <2>1 DEF Says
<1>8. Reached'
  BY <1>1, <1>2, <1>4 DEF Reached
<1> QED BY <1>1, <1>5, <1>6, <1>7, <1>8 DEF ColoursInv

-----------------------------------------------------------------------------
\* The steps

\* The drawing starts uncoloured.
LEMMA ColoursInit == CInit => ColoursInv
<1> SUFFICES ASSUME CInit PROVE ColoursInv
  OBVIOUS
<1>1. /\ undoStack = <<>> /\ redoStack = <<>> /\ selected = {} /\ fills = <<>> /\ unfills = <<>>
      /\ touched = {} /\ curColor \in Colours
      /\ colour = [o \in Objects |-> White] /\ origColor = [o \in Objects |-> NoColour]
      /\ born = [o \in Objects |-> White]
  BY DEF CInit, Init
<1>2. Len(fills) = 0 /\ Len(unfills) = 0 /\ fills \in Seq(Changes) /\ unfills \in Seq(Changes)
  BY <1>1, EmptySeq
<1>3. DOMAIN Timeline = {}
  <2>1. DOMAIN Timeline = 1 .. Len(fills) + Len(unfills)
    BY DEF Timeline
  <2> QED BY <1>2, <2>1
<1>4. ColourTypes
  BY <1>1, <1>2 DEF ColourTypes, AllColours
<1>5. Counted
  BY <1>1, <1>2, FillsEmpty DEF Counted
<1>6. Linked
  <2> SUFFICES ASSUME NEW o \in Meshes PROVE Says(Timeline, 0, o, born[o], colour[o])
    BY <1>2, <1>3 DEF Linked
  <2> QED BY <1>1 DEF Says, Meshes
<1>7. Reached /\ HighlightFollows
  BY <1>1, <1>3, ColoursAssumption DEF Reached, HighlightFollows
<1> QED BY <1>4, <1>5, <1>6, <1>7 DEF ColoursInv

\* Tools and clicks select.
LEMMA SelectionSteps ==
  ASSUME TypeOK', ColoursInv,
         (\E t \in Tools : CTool(t)) \/ \E hit \in Objects \cup {NoObj}, shift \in BOOLEAN : CSelect(hit, shift)
  PROVE  ColoursInv'
<1>1. /\ Highlight(selected') /\ UNCHANGED <<history, origColor, fills, unfills, born, curColor>>
      /\ touched \subseteq touched' /\ touched' \subseteq touched \cup selected'
      /\ selected' \subseteq touched'
  BY DEF CTool, CSelect, DoTool, SelectClick, ColoursInv, Reached
<1>2. ColourTypes /\ HighlightFollows /\ Linked /\ Reached /\ Counted /\ selected' \subseteq Objects
  BY DEF ColoursInv, TypeOK
<1>3. /\ colour' \in [Objects -> AllColours] /\ HighlightFollows'
      /\ \A o \in Objects : ~IsLine(o) \/ o \notin selected \cup selected' => colour'[o] = colour[o]
  BY <1>1, <1>2, HighlightKeeps
<1>4. ColourTypes'
  BY <1>1, <1>2, <1>3 DEF ColourTypes
<1>5. Counted'
  BY <1>1, <1>2 DEF Counted, history
<1>6. Linked'
  <2>1. \A o \in Meshes : colour'[o] = colour[o] /\ born'[o] = born[o]
    BY <1>1, <1>3 DEF Meshes, IsLine
  <2> QED BY <1>1, <1>2, <2>1, LinkedStays
<1>7. Reached'
  <2>1. \A o \in Objects \ touched' : colour'[o] = colour[o] /\ born'[o] = born[o]
    BY <1>1, <1>2, <1>3 DEF Reached
  <2> QED BY <1>1, <1>2, <2>1, ReachedStays
<1> QED BY <1>3, <1>4, <1>5, <1>6, <1>7 DEF ColoursInv

\* The selection is filled.
LEMMA FillStep ==
  ASSUME TypeOK, ColoursInv, CFill
  PROVE  ColoursInv'
<1> DEFINE change == [o \in selected |-> [old |-> IF IsLine(o) THEN Restored(o) ELSE colour[o],
                                          nw  |-> curColor]]
<1>1. /\ Record("fill", NoObj) /\ UNCHANGED <<selected, born, touched, curColor>>
      /\ Paint(change, "nw") /\ fills' = Append(fills, change) /\ unfills' = <<>>
  BY DEF CFill, DoFill, Forget
<1>2. ColourTypes /\ HighlightFollows /\ Linked /\ Reached /\ Counted /\ selected \subseteq Objects
  BY DEF ColoursInv, TypeOK
<1>3. change \in Changes
  <2>1. \A o \in Objects : Restored(o) \in AllColours /\ Restored(o) # Gold /\ colour[o] \in AllColours
    BY <1>2, ColoursAssumption DEF Restored, ColourTypes, AllColours
  <2>2. change \in [selected -> [old : AllColours, nw : Colours]]
    BY <1>2, <2>1 DEF ColourTypes
  <2>3. \A o \in DOMAIN change : IsLine(o) => change[o].old # Gold
    BY <1>2, <2>1
  <2> QED BY <1>2, <2>2, <2>3 DEF Changes
<1>4. /\ DOMAIN change = selected
      /\ \A o \in selected : change[o].nw = curColor /\ change[o]["nw"] = curColor
                             /\ (~IsLine(o) => change[o].old = colour[o])
  OBVIOUS
<1> HIDE DEF change
<1>5. /\ colour' \in [Objects -> AllColours] /\ origColor' \in [Objects -> Colours \cup {White, NoColour}]
      /\ HighlightFollows'
  BY <1>1, <1>2, <1>3, PaintKeeps
<1>6. \A o \in Objects : colour'[o] = IF o \in selected /\ ~IsLine(o) THEN curColor ELSE colour[o]
  BY <1>1, <1>4 DEF Paint
<1>7. ColourTypes'
  <2>1. fills' \in Seq(Changes) /\ unfills' \in Seq(Changes)
    BY <1>1, <1>2, <1>3, AppendProperties, EmptySeq DEF ColourTypes
  <2> QED BY <1>1, <1>2, <1>5, <2>1 DEF ColourTypes
<1>8. Counted'
  <2> DEFINE cmd == [op |-> "fill", obj |-> NoObj]
  <2>1. /\ cmd \in Commands /\ cmd.op = "fill" /\ undoStack \in Seq(Commands)
        /\ undoStack' = Append(undoStack, cmd) /\ redoStack' = <<>>
    BY <1>1, AppendIsConcat DEF Record, RecordAll, Commands, TypeOK
  <2> HIDE DEF cmd
  <2>2. /\ IsFiniteSet(FillsOf(undoStack'))
        /\ Cardinality(FillsOf(undoStack')) = Cardinality(FillsOf(undoStack)) + 1
    BY <1>2, <2>1, FillsPushed DEF Counted
  <2>3. Len(fills') = Len(fills) + 1 /\ Len(unfills') = 0
    BY <1>1, <1>2, <1>3, TimelineRecord
  <2> QED BY <1>2, <2>1, <2>2, <2>3, FillsEmpty DEF Counted
<1>9. Linked'
  <2>1. \A o \in Meshes : IF o \in DOMAIN change THEN change[o].old = colour[o] /\ colour'[o] = change[o].nw
                                                 ELSE colour'[o] = colour[o]
    BY <1>4, <1>6 DEF Meshes, IsLine
  <2> QED BY <1>1, <1>2, <1>3, <2>1, LinkedRecord
<1>10. Reached'
  <2>1. /\ Len(fills) \in Nat /\ DOMAIN Timeline' = 1 .. Len(fills) + 1
        /\ Timeline'[Len(fills) + 1] = change
        /\ \A i \in 1..Len(fills) : i \in DOMAIN Timeline /\ Timeline'[i] = Timeline[i]
    BY <1>1, <1>2, <1>3, TimelineRecord, TimelineIs
  <2>2. \A i \in 1 .. Len(fills) + 1 : i \in 1..Len(fills) \/ i = Len(fills) + 1
    BY <2>1
  <2>3. \A i \in DOMAIN Timeline' : DOMAIN Timeline'[i] \subseteq touched'
    BY <1>1, <1>2, <1>4, <2>1, <2>2 DEF Reached
  <2>4. \A o \in Objects \ touched' : KindOf[o] # "div" => colour'[o] = born'[o]
    BY <1>1, <1>2, <1>6 DEF Reached
  <2> QED BY <1>1, <1>2, <2>3, <2>4 DEF Reached
<1> QED BY <1>5, <1>7, <1>8, <1>9, <1>10 DEF ColoursInv

\* A command is undone.
LEMMA UndoStep ==
  ASSUME TypeOK, ColoursInv, CUndo
  PROVE  ColoursInv'
<1>1. /\ Undo /\ UNCHANGED <<selected, born, touched, curColor>>
      /\ IF Last(undoStack).op = "fill"
         THEN Paint(Last(fills), "old") /\ fills' = Front(fills) /\ unfills' = Append(unfills, Last(fills))
         ELSE UNCHANGED <<colour, origColor, fills, unfills>>
  BY DEF CUndo, Undo
<1>2. ColourTypes /\ HighlightFollows /\ Linked /\ Reached /\ Counted /\ selected \subseteq Objects
  BY DEF ColoursInv, TypeOK
<1>3. Counted' /\ (Last(undoStack).op = "fill" => fills # <<>>)
  BY <1>1, <1>2, CountedUndo
<1>4. CASE Last(undoStack).op = "fill"
  <2>1. /\ fills # <<>> /\ Paint(Last(fills), "old")
        /\ fills' = Front(fills) /\ unfills' = Append(unfills, Last(fills))
    BY <1>1, <1>3, <1>4
  <2>2. /\ Timeline' = Timeline /\ Len(fills) \in DOMAIN Timeline /\ Timeline[Len(fills)] = Last(fills)
        /\ fills' \in Seq(Changes) /\ unfills' \in Seq(Changes)
    <3>1. /\ Timeline' = Timeline /\ Len(fills) >= 1 /\ Timeline[Len(fills)] = Last(fills)
          /\ fills' \in Seq(Changes) /\ unfills' \in Seq(Changes)
      BY <1>2, <2>1, TimelineUndo
    <3>2. Len(fills) \in Nat /\ \A i \in 1..Len(fills) : i \in DOMAIN Timeline
      BY <1>2, TimelineIs
    <3> QED BY <3>1, <3>2
  <2>3. Last(fills) \in Changes
    BY <1>2, <2>2, TimelineIs
  <2>4. /\ colour' \in [Objects -> AllColours] /\ origColor' \in [Objects -> Colours \cup {White, NoColour}]
        /\ HighlightFollows'
    BY <1>1, <1>2, <2>1, <2>3, PaintKeeps
  <2>5. /\ DOMAIN Last(fills) \subseteq touched
        /\ \A o \in DOMAIN Last(fills) : Last(fills)[o]["old"] = Last(fills)[o].old
        /\ \A o \in Objects : colour'[o] = IF o \in DOMAIN Last(fills) /\ ~(IsLine(o) /\ o \in selected)
                                           THEN Last(fills)[o]["old"] ELSE colour[o]
    BY <1>2, <2>1, <2>2, <2>3, ChangeIs DEF Reached, Paint
  <2>6. ColourTypes'
    BY <1>1, <1>2, <2>2, <2>4 DEF ColourTypes
  <2>7. Linked'
    <3>1. \A o \in Meshes : colour'[o] = IF o \in DOMAIN Last(fills) THEN Last(fills)[o].old ELSE colour[o]
      BY <2>5 DEF Meshes, IsLine
    <3> QED BY <1>1, <1>2, <2>1, <3>1, LinkedUndo
  <2>8. Reached'
    BY <1>1, <1>2, <2>2, <2>5 DEF Reached
  <2> QED BY <1>3, <2>4, <2>6, <2>7, <2>8 DEF ColoursInv
<1>5. CASE Last(undoStack).op # "fill"
  <2>1. UNCHANGED <<colour, origColor, fills, unfills, Timeline>>
    BY <1>1, <1>5 DEF Timeline
  <2>2. ColourTypes' /\ Linked' /\ Reached' /\ HighlightFollows'
    BY <1>1, <1>2, <2>1 DEF ColourTypes, Linked, Reached, HighlightFollows
  <2> QED BY <1>3, <2>2 DEF ColoursInv
<1> QED BY <1>4, <1>5

\* A command is redone.
LEMMA RedoStep ==
  ASSUME TypeOK, ColoursInv, CRedo
  PROVE  ColoursInv'
<1>1. /\ Redo /\ UNCHANGED <<selected, born, touched, curColor>>
      /\ IF Last(redoStack).op = "fill"
         THEN Paint(Last(unfills), "nw") /\ unfills' = Front(unfills) /\ fills' = Append(fills, Last(unfills))
         ELSE UNCHANGED <<colour, origColor, fills, unfills>>
  BY DEF CRedo, Redo
<1>2. ColourTypes /\ HighlightFollows /\ Linked /\ Reached /\ Counted /\ selected \subseteq Objects
  BY DEF ColoursInv, TypeOK
<1>3. Counted' /\ (Last(redoStack).op = "fill" => unfills # <<>>)
  BY <1>1, <1>2, CountedRedo
<1>4. CASE Last(redoStack).op = "fill"
  <2>1. /\ unfills # <<>> /\ Paint(Last(unfills), "nw")
        /\ unfills' = Front(unfills) /\ fills' = Append(fills, Last(unfills))
    BY <1>1, <1>3, <1>4
  <2>2. /\ Timeline' = Timeline /\ Len(fills) + 1 \in DOMAIN Timeline /\ Timeline[Len(fills) + 1] = Last(unfills)
        /\ fills' \in Seq(Changes) /\ unfills' \in Seq(Changes)
    <3>1. /\ Timeline' = Timeline /\ Len(unfills) >= 1 /\ Timeline[Len(fills) + 1] = Last(unfills)
          /\ fills' \in Seq(Changes) /\ unfills' \in Seq(Changes)
      BY <1>2, <2>1, TimelineRedo
    <3>2. Len(fills) \in Nat /\ Len(unfills) \in Nat /\ DOMAIN Timeline = 1 .. Len(fills) + Len(unfills)
      BY <1>2, TimelineIs
    <3> QED BY <3>1, <3>2
  <2>3. Last(unfills) \in Changes
    BY <1>2, <2>2, TimelineIs
  <2>4. /\ colour' \in [Objects -> AllColours] /\ origColor' \in [Objects -> Colours \cup {White, NoColour}]
        /\ HighlightFollows'
    BY <1>1, <1>2, <2>1, <2>3, PaintKeeps
  <2>5. /\ DOMAIN Last(unfills) \subseteq touched
        /\ \A o \in DOMAIN Last(unfills) : Last(unfills)[o]["nw"] = Last(unfills)[o].nw
        /\ \A o \in Objects : colour'[o] = IF o \in DOMAIN Last(unfills) /\ ~(IsLine(o) /\ o \in selected)
                                           THEN Last(unfills)[o]["nw"] ELSE colour[o]
    BY <1>2, <2>1, <2>2, <2>3, ChangeIs DEF Reached, Paint
  <2>6. ColourTypes'
    BY <1>1, <1>2, <2>2, <2>4 DEF ColourTypes
  <2>7. Linked'
    <3>1. \A o \in Meshes : colour'[o] = IF o \in DOMAIN Last(unfills) THEN Last(unfills)[o].nw ELSE colour[o]
      BY <2>5 DEF Meshes, IsLine
    <3> QED BY <1>1, <1>2, <2>1, <3>1, LinkedRedo
  <2>8. Reached'
    BY <1>1, <1>2, <2>2, <2>5 DEF Reached
  <2> QED BY <1>3, <2>4, <2>6, <2>7, <2>8 DEF ColoursInv
<1>5. CASE Last(redoStack).op # "fill"
  <2>1. UNCHANGED <<colour, origColor, fills, unfills, Timeline>>
    BY <1>1, <1>5 DEF Timeline
  <2>2. ColourTypes' /\ Linked' /\ Reached' /\ HighlightFollows'
    BY <1>1, <1>2, <2>1 DEF ColourTypes, Linked, Reached, HighlightFollows
  <2> QED BY <1>3, <2>2 DEF ColoursInv
<1> QED BY <1>4, <1>5

\* An object is drawn, by a command or as a stroke.
LEMMA DrawSteps ==
  ASSUME TypeOK, ColoursInv, NEW o \in Objects, CDraw(o) \/ CStroke(o)
  PROVE  ColoursInv'
<1> DEFINE c == [x \in {o} |-> curColor]
<1>1. /\ Unfilled(o) /\ Make({o}, c) /\ UNCHANGED <<fills, curColor, selected>>
      /\ unfills' \in {unfills, <<>>} /\ o \notin selected
  BY DEF CDraw, CStroke, Forget, PlaceBlock, SecondClick, CommitText, PencilDown, Fresh
<1>2. ColourTypes /\ HighlightFollows /\ Linked /\ Reached /\ Counted /\ selected \subseteq Objects
  BY DEF ColoursInv, TypeOK
<1>3. \A p \in {o} : c[p] \in AllColours
  BY <1>2 DEF ColourTypes, AllColours
<1> HIDE DEF c
<1>4. /\ colour' \in [Objects -> AllColours] /\ born' \in [Objects -> AllColours]
      /\ origColor' \in [Objects -> Colours \cup {White, NoColour}]
      /\ HighlightFollows'
      /\ KindOf[o] # "div" => colour'[o] = born'[o]
      /\ \A p \in Objects \ {o} : colour'[p] = colour[p] /\ born'[p] = born[p]
  <2>1. \A p \in Objects \ {o} : p \in selected' <=> p \in selected
    BY <1>1
  <2>2. selected' \cap {o} = {} /\ {o} \in SUBSET Objects
    BY <1>1
  <2> QED BY <1>1, <1>2, <1>3, <2>1, <2>2, MakeKeeps
<1>5. touched' = touched \ {o}
  BY <1>1 DEF Make
<1>6. ColourTypes'
  <2>1. unfills' \in Seq(Changes)
    BY <1>1, <1>2, EmptySeq DEF ColourTypes
  <2> QED BY <1>1, <1>2, <1>4, <1>5, <2>1 DEF ColourTypes
<1>7. Linked'
  BY <1>1, <1>2, <1>4, LinkedMade DEF Meshes
<1>8. Reached'
  BY <1>1, <1>2, <1>4, <1>5, ReachedMade
<1>9. Counted'
  <2>1. CASE CDraw(o)
    <3> DEFINE cmds == <<[op |-> "place", obj |-> o]>>
    <3>1. cmds \in Seq(Commands) /\ Len(cmds) = 1 /\ cmds[1].op = "place"
      BY DEF Commands
    <3>2. RecordAll(cmds) /\ unfills' = <<>>
      BY <2>1 DEF CDraw, Forget, PlaceBlock, SecondClick, CommitText, Record
    <3>3. \A i \in 1..Len(cmds) : cmds[i].op # "fill"
      BY <3>1
    <3> HIDE DEF cmds
    <3> QED BY <1>1, <1>2, <3>1, <3>2, <3>3, CountedRecord
  <2>2. CASE CStroke(o)
    BY <1>2, <2>2 DEF CStroke, PencilDown, history, Counted
  <2> QED BY <2>1, <2>2
<1> QED BY <1>4, <1>6, <1>7, <1>8, <1>9 DEF ColoursInv

\* Commands that paint nothing are recorded.
LEMMA RecordStep ==
  ASSUME TypeOK, ColoursInv, CRecord
  PROVE  ColoursInv'
<1>1. /\ unfills' = <<>> /\ UNCHANGED <<colour, origColor, fills, born, touched, curColor, selected>>
  BY DEF CRecord, Forget, PencilUp, EraseAt, PencilUpErasing
<1>2. ColourTypes /\ HighlightFollows /\ Linked /\ Reached /\ Counted
  BY DEF ColoursInv
<1>3. PICK cmds \in Seq(Commands) : RecordAll(cmds) /\ \A i \in 1..Len(cmds) : cmds[i].op # "fill"
  <2>1. \A o \in Objects : \A op \in {"place", "erase"} :
          [op |-> op, obj |-> o] \in Commands /\ [op |-> op, obj |-> o].op # "fill"
    BY DEF Commands
  <2>2. ASSUME NEW cmd \in Commands, cmd.op # "fill"
        PROVE  <<cmd>> \in Seq(Commands) /\ \A i \in 1..Len(<<cmd>>) : <<cmd>>[i].op # "fill"
    BY <2>2
  <2>3. ASSUME NEW cmd \in Commands, cmd.op # "fill", NEW next \in Commands, next.op # "fill"
        PROVE  <<cmd, next>> \in Seq(Commands) /\ \A i \in 1..Len(<<cmd, next>>) : <<cmd, next>>[i].op # "fill"
    BY <2>3
  <2>4. CASE PencilUp
    <3>1. penLine \in Objects /\ RecordAll(<<[op |-> "place", obj |-> penLine]>>)
      BY <2>4 DEF PencilUp, Record, TypeOK
    <3> QED BY <2>1, <2>2, <3>1
  <2>5. ASSUME NEW o \in Objects, EraseAt(o)
        PROVE  \E cmds \in Seq(Commands) : RecordAll(cmds) /\ \A i \in 1..Len(cmds) : cmds[i].op # "fill"
    <3>1. RecordAll(<<[op |-> "erase", obj |-> o]>>)
      BY <2>5 DEF EraseAt, Record
    <3> QED BY <2>1, <2>2, <3>1
  <2>6. ASSUME NEW o \in Objects, PencilUpErasing(o)
        PROVE  \E cmds \in Seq(Commands) : RecordAll(cmds) /\ \A i \in 1..Len(cmds) : cmds[i].op # "fill"
    <3>1. /\ penLine \in Objects
          /\ RecordAll(<<[op |-> "place", obj |-> penLine], [op |-> "erase", obj |-> o]>>)
      BY <2>6 DEF PencilUpErasing, TypeOK
    <3> QED BY <2>1, <2>3, <3>1
  <2> QED BY <2>4, <2>5, <2>6 DEF CRecord
<1>4. Counted'
  BY <1>1, <1>2, <1>3, CountedRecord
<1>5. ColourTypes' /\ HighlightFollows'
  BY <1>1, <1>2, EmptySeq DEF ColourTypes, HighlightFollows
<1>6. Linked'
  BY <1>1, <1>2, LinkedStays
<1>7. Reached'
  <2>1. touched \subseteq touched' /\ selected' \subseteq touched'
    BY <1>1, <1>2 DEF Reached
  <2> QED BY <1>1, <1>2, <2>1, ReachedStays
<1> QED BY <1>4, <1>5, <1>6, <1>7 DEF ColoursInv

\* The drawing is cleared, or a sheet is loaded.
LEMMA ResetSteps ==
  ASSUME ColoursInv, CClear \/ \E sheet \in Sheets : CLoad(sheet)
  PROVE  ColoursInv'
<1>1. ColourTypes /\ HighlightFollows
  BY DEF ColoursInv
<1>2. CASE CClear
  <2> DEFINE white == [o \in Objects |-> White]
  <2>1. /\ Make(Objects, white) /\ fills' = <<>> /\ unfills' = <<>> /\ UNCHANGED curColor
        /\ selected' = {} /\ undoStack' = <<>> /\ redoStack' = <<>>
    BY <1>2 DEF CClear, DoClear, Reset
  <2>2. \A o \in Objects : white[o] \in AllColours
    BY DEF AllColours
  <2> HIDE DEF white
  <2> QED BY <1>1, <2>1, <2>2, AllMade
<1>3. ASSUME NEW sheet \in Sheets, CLoad(sheet)
      PROVE  ColoursInv'
  <2>1. PICK c \in [Objects -> AllColours] : Make(Objects, c)
    BY <1>3 DEF CLoad
  <2>2. /\ fills' = <<>> /\ unfills' = <<>> /\ UNCHANGED curColor
        /\ selected' = {} /\ undoStack' = <<>> /\ redoStack' = <<>>
    BY <1>3 DEF CLoad, LoadScene, Reset
  <2>3. \A o \in Objects : c[o] \in AllColours
    BY <2>1
  <2> QED BY <1>1, <2>1, <2>2, <2>3, AllMade
<1> QED BY <1>2, <1>3

\* Neither the colour to draw with nor the tools colour anything.
LEMMA IdleSteps ==
  ASSUME ColoursInv, (\E c \in Colours : DoColor(c)) \/ CIdle \/ UNCHANGED cvars
  PROVE  ColoursInv'
<1>1. UNCHANGED <<history, selected, colours>> /\ (curColor' \in Colours \/ curColor' = curColor)
  BY DEF DoColor, CIdle, cvars, vars, Escape, FirstClick, SecondClickTooSmall, TextClick, PencilLeave, CancelText,
    CommitDiv, CancelDiv, LoadFails
<1>2. UNCHANGED Timeline
  BY <1>1 DEF Timeline, colours
<1>3. ColourTypes' /\ Counted'
  BY <1>1 DEF ColoursInv, ColourTypes, Counted, colours, history
<1>4. Linked' /\ Reached' /\ HighlightFollows'
  BY <1>1, <1>2 DEF ColoursInv, Linked, Reached, HighlightFollows, colours
<1> QED BY <1>3, <1>4 DEF ColoursInv

\* Every step of the coloured drawing keeps the invariant.
LEMMA ColoursKept == CSpec => []ColoursInv
<1>1. TypeOK /\ TypeOK' /\ ColoursInv /\ [CNext]_cvars => ColoursInv'
  <2> SUFFICES ASSUME TypeOK, TypeOK', ColoursInv, [CNext]_cvars PROVE ColoursInv'
    OBVIOUS
  <2>1. CASE (\E c \in Colours : DoColor(c)) \/ CIdle \/ UNCHANGED cvars
    BY <2>1, IdleSteps
  <2>2. CASE (\E t \in Tools : CTool(t)) \/ \E hit \in Objects \cup {NoObj}, shift \in BOOLEAN : CSelect(hit, shift)
    BY <2>2, SelectionSteps
  <2>3. CASE CFill
    BY <2>3, FillStep
  <2>4. CASE CUndo
    BY <2>4, UndoStep
  <2>5. CASE CRedo
    BY <2>5, RedoStep
  <2>6. CASE CClear \/ \E sheet \in Sheets : CLoad(sheet)
    BY <2>6, ResetSteps
  <2>7. CASE CRecord
    BY <2>7, RecordStep
  <2>8. CASE \E o \in Objects : CDraw(o) \/ CStroke(o)
    BY <2>8, DrawSteps
  <2> QED BY <2>1, <2>2, <2>3, <2>4, <2>5, <2>6, <2>7, <2>8 DEF CNext
<1> QED BY <1>1, ColoursInit, ColouredDraws, PTL DEF CSpec

-----------------------------------------------------------------------------
\* The theorems

\* What the changes done say is what the user chose last.
LEMMA ChosenIs ==
  ASSUME ColourTypes, NEW o, NEW c, Says(Timeline, Len(fills), o, born[o], c)
  PROVE  Chosen(o) = c
<1> DEFINE n == Len(fills)
           about == {i \in DOMAIN fills : o \in DOMAIN fills[i]}
           last == CHOOSE i \in about : \A j \in about : j <= i
<1>1. n \in Nat /\ DOMAIN fills = 1..n /\ \A i \in 1..n : Timeline[i] = fills[i]
  BY TimelineIs, LenProperties DEF ColourTypes
<1>2. Chosen(o) = IF about = {} THEN born[o] ELSE fills[last][o].nw
  BY DEF Chosen
<1> HIDE DEF n, last
<1>3. CASE (\A i \in 1..n : o \notin DOMAIN Timeline[i]) /\ c = born[o]
  <2>1. about = {}
    BY <1>1, <1>3
  <2> QED BY <1>2, <1>3, <2>1
<1>4. ASSUME NEW i \in 1..n, o \in DOMAIN Timeline[i], c = Timeline[i][o].nw,
             \A j \in i + 1 .. n : o \notin DOMAIN Timeline[j]
      PROVE  Chosen(o) = c
  <2>1. i \in about /\ about \subseteq 1..n
    BY <1>1, <1>4
  <2>2. \A j \in about : j <= i
    <3> SUFFICES ASSUME NEW j \in about, ~(j <= i) PROVE FALSE
      OBVIOUS
    <3>1. j \in i + 1 .. n /\ j \in 1..n
      BY <1>1, <2>1
    <3>2. o \in DOMAIN fills[j]
      OBVIOUS
    <3> QED BY <1>1, <1>4, <3>1, <3>2
  <2> HIDE DEF about
  <2>3. last \in about /\ \A j \in about : j <= last
    BY <2>1, <2>2 DEF last
  <2>4. last <= i /\ i <= last /\ last \in Nat
    BY <1>1, <2>1, <2>2, <2>3
  <2>5. last = i
    BY <2>4
  <2> QED BY <1>1, <1>2, <1>4, <2>1, <2>5
<1> QED BY <1>3, <1>4 DEF Says, n

\* A save stores blocks and walls in the colour the user chose last, however
\* many fills of whatever selections are undone and redone between erasures,
\* and what was never selected in its own colour.
THEOREM ColoursAreSaved == CSpec => []ColoursSaved
<1>1. ASSUME TypeOK PROVE Listed \subseteq Objects
  <2>1. \A k \in Kinds : ToSet(array[k]) \subseteq Objects
    <3> SUFFICES ASSUME NEW k \in Kinds PROVE ToSet(array[k]) \subseteq Objects
      OBVIOUS
    <3>1. array[k] \in Seq(Objects)
      BY <1>1 DEF TypeOK
    <3>2. DOMAIN array[k] = 1..Len(array[k]) /\ \A i \in 1..Len(array[k]) : array[k][i] \in Objects
      BY <3>1, LenProperties, ElementOfSeq
    <3> QED BY <3>2 DEF ToSet
  <2> QED BY <2>1 DEF Listed
<1>2. ASSUME TypeOK, ColoursInv PROVE MeshesKeepColour
  <2> SUFFICES ASSUME NEW o \in Listed, KindOf[o] \in {"block", "wall"}
               PROVE  SavedColour(o) = Chosen(o)
    BY DEF MeshesKeepColour
  <2>1. o \in Meshes
    BY <1>1, <1>2 DEF Meshes
  <2>2. Says(Timeline, Len(fills), o, born[o], colour[o])
    BY <1>2, <2>1 DEF ColoursInv, Linked
  <2>3. Chosen(o) = colour[o]
    BY <1>2, <2>2, ChosenIs DEF ColoursInv
  <2> QED BY <2>3 DEF SavedColour
<1>3. ASSUME TypeOK, ColoursInv PROVE UntouchedKeepColour
  BY <1>1, <1>3 DEF ColoursInv, Reached, UntouchedKeepColour, SavedColour
<1>4. TypeOK /\ ColoursInv => ColoursSaved
  BY <1>2, <1>3 DEF ColoursSaved
<1> QED BY <1>4, ColouredDraws, ColoursKept, PTL

\* A line is golden just while it is selected, whatever fills of it are undone
\* or redone meanwhile, unless it came golden from the store.
THEOREM HighlightIsSelection == CSpec => []HighlightFollows
<1>1. ColoursInv => HighlightFollows
  BY DEF ColoursInv
<1> QED BY <1>1, ColoursKept, PTL
=============================================================================
