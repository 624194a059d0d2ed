--------------------------- MODULE PlotSceneProofs ---------------------------
(***************************************************************************)
(* Proofs about PlotScene, for any objects, tools, sheets and bounds: its  *)
(* types, that what is shown is what is saved and what is saved is shown,  *)
(* that the history can always be replayed, and that its closures          *)
(* implement snapshots.                                                    *)
(*                                                                         *)
(* ShownIsSaved alone is not inductive: undo removes the object of a       *)
(* command from the arrays and must find it there, which is what the       *)
(* stacks say (HistoryReplayable); the stroke in progress is drawn before  *)
(* its command exists (StrokeApart); and removing a listed object must     *)
(* take out its only entry (Tidy).  Their conjunction is IInv.             *)
(*                                                                         *)
(* SavedIsShown is about every object, also those whose commands lose      *)
(* their pairing: LInv adds that no closure to be played next adds what is *)
(* there (Playable).  The refinement of EditHistory rests on both: a       *)
(* snapshot is what the arrays are after the closures down to it, and a    *)
(* closure played and pushed on the other stack leaves them all alone.     *)
(***************************************************************************)
EXTENDS PlotSceneHistory, SequenceTheorems, WellFoundedInduction, TLAPS

-----------------------------------------------------------------------------
\* Sequences

\* A non-empty set of natural numbers has a least element.
LEMMA MinOfNats ==
  ASSUME NEW I \in SUBSET Nat, I # {}
  PROVE  Min(I) \in I /\ \A i \in I : Min(I) <= i
<1> DEFINE R == OpToRel(<, Nat)
<1>1. \E x \in I : \A y \in I : <<y, x>> \notin R
  BY NatLessThanWellFounded, WFMin
<1>2. \A x, y \in Nat : y < x => <<y, x>> \in R
  <2> SUFFICES ASSUME NEW x \in Nat, NEW y \in Nat, y < x
               PROVE  <<y, x>> \in {ss \in Nat \X Nat : ss[1] < ss[2]}
    BY Zenon DEF OpToRel
  <2> QED OBVIOUS
<1> HIDE DEF R
<1>3. PICK x \in I : \A y \in I : <<y, x>> \notin R
  BY <1>1
<1>4. \A y \in I : ~ (y < x)
  BY <1>2, <1>3
<1>5. \A y \in I : x <= y
  BY <1>4
<1> QED BY <1>5 DEF Min

\* The last element of a sequence and what comes before it.
LEMMA FrontLast ==
  ASSUME NEW S, NEW s \in Seq(S), s # <<>>
  PROVE  /\ Len(s) \in Nat /\ Len(s) >= 1 /\ DOMAIN s = 1..Len(s)
         /\ Last(s) \in S /\ Last(s) = s[Len(s)]
         /\ Front(s) \in Seq(S) /\ Len(Front(s)) = Len(s) - 1
         /\ DOMAIN Front(s) = 1 .. Len(s) - 1
         /\ \A i \in 1 .. Len(s) - 1 : Front(s)[i] = s[i]
<1>1. Len(s) \in Nat \ {0} /\ DOMAIN s = 1..Len(s)
  BY EmptySeq, LenProperties
<1>2. \A i \in 1..Len(s) - 1 : s[i] \in S
  BY <1>1, ElementOfSeq
<1>3. /\ SubSeq(s, 1, Len(s) - 1) \in Seq(S)
      /\ Len(SubSeq(s, 1, Len(s) - 1)) = Len(s) - 1
      /\ \A i \in 1 .. Len(s) - 1 : SubSeq(s, 1, Len(s) - 1)[i] = s[i]
  <2>1. /\ SubSeq(s, 1, Len(s) - 1) \in Seq(S)
        /\ Len(SubSeq(s, 1, Len(s) - 1)) = IF 1 <= Len(s) - 1 THEN (Len(s) - 1) - 1 + 1 ELSE 0
        /\ \A i \in 1 .. (Len(s) - 1) - 1 + 1 : SubSeq(s, 1, Len(s) - 1)[i] = s[1 + i - 1]
    BY <1>1, <1>2, SubSeqProperties
  <2> QED BY <2>1, <1>1
<1>4. Last(s) \in S
  BY <1>1, ElementOfSeq DEF Last
<1>5. DOMAIN SubSeq(s, 1, Len(s) - 1) = 1 .. Len(s) - 1
  BY <1>3, LenProperties
<1> QED BY <1>1, <1>3, <1>4, <1>5 DEF Front, Last

\* RemoveFirst removes at a position that holds the element.
LEMMA RemoveFirstIsRemoveAt ==
  ASSUME NEW S, NEW s \in Seq(S), NEW o, Contains(s, o)
  PROVE  \E n \in 1..Len(s) : s[n] = o /\ RemoveFirst(s, o) = RemoveAt(s, n)
<1> DEFINE I == {i \in 1..Len(s) : s[i] = o}
<1>1. I \in SUBSET Nat /\ I # {}
  BY DEF Contains
<1>2. Min(I) \in I
  BY <1>1, MinOfNats
<1>3. RemoveFirst(s, o) = RemoveAt(s, Min(I))
  BY <1>1 DEF Contains, RemoveFirst, SelectInSeq
<1> QED BY <1>2, <1>3
\* RemoveAt closes the gap it leaves.
LEMMA RemoveAtProperties ==
  ASSUME NEW S, NEW s \in Seq(S), NEW n \in 1..Len(s)
  PROVE  /\ RemoveAt(s, n) \in Seq(S) /\ Len(RemoveAt(s, n)) = Len(s) - 1
         /\ \A i \in 1 .. Len(s) - 1 : RemoveAt(s, n)[i] = IF i < n THEN s[i] ELSE s[i + 1]
<1> DEFINE l == SubSeq(s, 1, n - 1)
           r == SubSeq(s, n + 1, Len(s))
<1>1. Len(s) \in Nat /\ \A i \in 1..Len(s) : s[i] \in S
  BY LenProperties, ElementOfSeq
<1>2. l \in Seq(S) /\ Len(l) = n - 1 /\ \A i \in 1 .. n - 1 : l[i] = s[i]
  <2>1. /\ l \in Seq(S)
        /\ Len(l) = IF 1 <= n - 1 THEN (n - 1) - 1 + 1 ELSE 0
        /\ \A i \in 1 .. (n - 1) - 1 + 1 : l[i] = s[1 + i - 1]
    BY <1>1, SubSeqProperties
  <2> HIDE DEF l
  <2> QED BY <2>1, <1>1
<1>3. r \in Seq(S) /\ Len(r) = Len(s) - n /\ \A i \in 1 .. Len(s) - n : r[i] = s[n + i]
  <2>1. /\ r \in Seq(S)
        /\ Len(r) = IF n + 1 <= Len(s) THEN Len(s) - (n + 1) + 1 ELSE 0
        /\ \A i \in 1 .. Len(s) - (n + 1) + 1 : r[i] = s[(n + 1) + i - 1]
    BY <1>1, SubSeqProperties
  <2> HIDE DEF r
  <2> QED BY <2>1, <1>1
<1>4. RemoveAt(s, n) = l \o r
  BY DEF RemoveAt
<1> HIDE DEF l, r
<1>5. /\ l \o r \in Seq(S) /\ Len(l \o r) = Len(l) + Len(r)
      /\ \A i \in 1 .. Len(l) + Len(r) : (l \o r)[i] = IF i <= Len(l) THEN l[i] ELSE r[i - Len(l)]
  BY <1>2, <1>3, ConcatProperties
<1> QED BY <1>1, <1>2, <1>3, <1>4, <1>5

\* Removing an object that s lists takes that object out and nothing else.
LEMMA RemoveFirstProperties ==
  ASSUME NEW s \in Seq(Objects), NEW o, Contains(s, o)
  PROVE  /\ RemoveFirst(s, o) \in Seq(Objects)
         /\ \A p \in Objects : p # o => (Contains(RemoveFirst(s, o), p) <=> Contains(s, p))
         /\ Distinct(s) => Distinct(RemoveFirst(s, o)) /\ ~Contains(RemoveFirst(s, o), o)
<1>1. PICK n \in 1..Len(s) : s[n] = o /\ RemoveFirst(s, o) = RemoveAt(s, n)
  BY RemoveFirstIsRemoveAt
<1> DEFINE r == RemoveFirst(s, o)
<1>2. /\ r \in Seq(Objects) /\ Len(r) = Len(s) - 1
      /\ \A i \in 1 .. Len(s) - 1 : r[i] = IF i < n THEN s[i] ELSE s[i + 1]
  BY <1>1, RemoveAtProperties
<1>3. Len(s) \in Nat /\ DOMAIN s = 1..Len(s) /\ DOMAIN r = 1 .. Len(s) - 1
  BY <1>2, LenProperties
<1> HIDE DEF r
<1>4. ASSUME NEW p \in Objects, p # o
      PROVE  Contains(r, p) <=> Contains(s, p)
  <2>1. Contains(r, p) => Contains(s, p)
    BY <1>2, <1>3 DEF Contains
  <2>2. ASSUME NEW i \in 1..Len(s), s[i] = p
        PROVE  Contains(r, p)
    <3>1. i # n
      BY <1>1, <1>4, <2>2
    <3>2. CASE i < n
      BY <1>2, <1>3, <2>2, <3>2 DEF Contains
    <3>3. CASE i > n
      <4>1. i - 1 \in 1 .. Len(s) - 1 /\ r[i - 1] = p
        BY <1>2, <1>3, <2>2, <3>3
      <4> QED BY <4>1, <1>2 DEF Contains
    <3> QED BY <3>1, <3>2, <3>3, <1>3
  <2> QED BY <2>1, <2>2 DEF Contains
<1>5. ASSUME Distinct(s)
      PROVE  Distinct(r) /\ ~Contains(r, o)
  <2>1. \A i, j \in 1..Len(s) : s[i] = s[j] => i = j
    BY <1>3, <1>5 DEF Distinct
  <2>2. \A i \in 1 .. Len(s) - 1 : r[i] # s[n]
    BY <1>2, <1>3, <2>1
  <2>3. \A i, j \in 1 .. Len(s) - 1 : r[i] = r[j] => i = j
    <3> SUFFICES ASSUME NEW i \in 1 .. Len(s) - 1, NEW j \in 1 .. Len(s) - 1, r[i] = r[j]
                 PROVE  i = j
      OBVIOUS
    <3>1. (IF i < n THEN i ELSE i + 1) = (IF j < n THEN j ELSE j + 1)
      BY <1>2, <1>3, <2>1
    <3> QED BY <3>1, <1>3
  <2> QED BY <1>1, <1>2, <1>3, <2>2, <2>3 DEF Distinct, Contains
<1> QED BY <1>2, <1>4, <1>5 DEF r

\* Removing what is not listed changes nothing.
LEMMA RemoveFirstMissing ==
  ASSUME NEW s, NEW o, ~Contains(s, o)
  PROVE  RemoveFirst(s, o) = s
BY DEF RemoveFirst, Contains

\* splice leaves a sequence of objects, whatever indexOf answers.
LEMMA SpliceType ==
  ASSUME NEW s \in Seq(Objects), NEW o
  PROVE  Splice(s, o) \in Seq(Objects)
BY RemoveFirstProperties, FrontLast, EmptySeq DEF Splice
-----------------------------------------------------------------------------
\* The stacks

\* The stacks after a clear or a load.
LEMMA FitsEmpty ==
  ASSUME NEW here, NEW op
  PROVE  Fits(<<>>, here, op)
BY DEF Fits

\* Only the paired objects matter.
LEMMA FitsSame ==
  ASSUME NEW stack, NEW here, NEW now, NEW op,
         Fits(stack, here, op), \A p \in Paired : p \in here <=> p \in now
  PROVE  Fits(stack, now, op)
BY DEF Fits

\* Nor do those the stack does not mention.
LEMMA FitsUnmentioned ==
  ASSUME NEW stack, NEW here, NEW now, NEW op, NEW o, o \notin Mentioned(stack),
         Fits(stack, here, op), \A p \in Paired \ {o} : p \in here <=> p \in now
  PROVE  Fits(stack, now, op)
BY DEF Fits, Mentioned

\* A command is pushed that says where its object has just gone.
LEMMA FitsPush ==
  ASSUME NEW stack \in Seq(Commands), NEW here, NEW now, NEW op \in {"place", "erase"},
         NEW cmd \in Commands, Fits(stack, here, op),
         \A p \in Paired : p # cmd.obj => (p \in here <=> p \in now),
         cmd.obj \in Paired =>
           /\ cmd.op = op <=> cmd.obj \in now
           /\ cmd.obj \in Mentioned(stack) => ~(cmd.obj \in here <=> cmd.obj \in now)
  PROVE  Fits(Append(stack, cmd), now, op)
<1> DEFINE longer == Append(stack, cmd)
           n == Len(stack)
<1>1. /\ n \in Nat /\ DOMAIN stack = 1..n /\ DOMAIN longer = 1 .. n + 1
      /\ longer[n + 1] = cmd /\ \A i \in 1..n : longer[i] = stack[i] /\ stack[i] \in Commands
  BY AppendProperties, LenProperties, ElementOfSeq
<1>2. \A c \in Commands : c.obj \in Paired => c.op \in {"place", "erase"}
  BY ObjectsAssumption DEF Commands, Paired
<1> HIDE DEF longer, n
<1>3. ASSUME NEW i \in 1 .. n + 1, NEW j \in 1 .. n + 1,
             longer[i].obj \in Paired, Consecutive(longer, i, j)
      PROVE  longer[i].op # longer[j].op
  <2>1. i \in 1..n /\ i < j
    BY <1>1, <1>3 DEF Consecutive
  <2>2. CASE j \in 1..n
    <3>1. Consecutive(stack, i, j)
      BY <1>1, <1>3, <2>1, <2>2 DEF Consecutive
    <3> QED BY <1>1, <1>3, <2>1, <2>2, <3>1 DEF Fits
  <2>3. CASE j = n + 1
    <3>1. stack[i].obj = cmd.obj /\ LastAbout(stack, i)
      BY <1>1, <1>3, <2>1, <2>3 DEF Consecutive, LastAbout
    <3>2. cmd.obj \in Paired /\ cmd.obj \in Mentioned(stack)
      BY <1>1, <1>3, <2>1, <3>1 DEF Mentioned
    <3>3. stack[i].op = op <=> cmd.obj \in here
      BY <1>1, <2>1, <3>1, <3>2 DEF Fits
    <3>4. cmd.op = op <=> cmd.obj \in now
      BY <3>2
    <3>5. ~(cmd.obj \in here <=> cmd.obj \in now)
      BY <3>2
    <3> QED BY <1>1, <2>1, <2>3, <3>3, <3>4, <3>5
  <2> QED BY <1>1, <2>1, <2>2, <2>3
<1>4. ASSUME NEW i \in 1 .. n + 1, longer[i].obj \in Paired, LastAbout(longer, i)
      PROVE  longer[i].op = op <=> longer[i].obj \in now
  <2>1. CASE i = n + 1
    BY <1>1, <1>4, <2>1
  <2>2. CASE i \in 1..n
    <3>1. stack[i].obj # cmd.obj /\ LastAbout(stack, i)
      BY <1>1, <1>4, <2>2 DEF LastAbout
    <3> QED BY <1>1, <1>4, <2>2, <3>1 DEF Fits
  <2> QED BY <1>1, <2>1, <2>2
<1> QED BY <1>1, <1>3, <1>4 DEF Fits, longer

\* The last command is popped and its effect taken back.
LEMMA FitsPop ==
  ASSUME NEW stack \in Seq(Commands), stack # <<>>, NEW here, NEW now,
         NEW op \in {"place", "erase"}, Fits(stack, here, op),
         \A p \in Paired : p # Last(stack).obj => (p \in here <=> p \in now),
         Last(stack).obj \in Paired => ~(Last(stack).obj \in here <=> Last(stack).obj \in now)
  PROVE  Fits(Front(stack), now, op)
<1> DEFINE shorter == Front(stack)
           n == Len(stack)
           cmd == Last(stack)
<1>1. /\ n \in Nat /\ n >= 1 /\ DOMAIN stack = 1..n /\ DOMAIN shorter = 1 .. n - 1
      /\ cmd = stack[n] /\ \A i \in 1 .. n - 1 : shorter[i] = stack[i]
      /\ \A i \in 1..n : stack[i] \in Commands
  BY FrontLast, ElementOfSeq
<1>2. \A c \in Commands : c.obj \in Paired => c.op \in {"place", "erase"}
  BY ObjectsAssumption DEF Commands, Paired
<1> HIDE DEF shorter, n, cmd
<1>3. ASSUME NEW i \in 1 .. n - 1, NEW j \in 1 .. n - 1,
             shorter[i].obj \in Paired, Consecutive(shorter, i, j)
      PROVE  shorter[i].op # shorter[j].op
  <2>1. Consecutive(stack, i, j)
    BY <1>1, <1>3 DEF Consecutive
  <2> QED BY <1>1, <1>3, <2>1 DEF Fits
<1>4. ASSUME NEW i \in 1 .. n - 1, shorter[i].obj \in Paired, LastAbout(shorter, i)
      PROVE  shorter[i].op = op <=> shorter[i].obj \in now
  <2>1. CASE stack[i].obj = cmd.obj
    <3>1. Consecutive(stack, i, n)
      BY <1>1, <1>4, <2>1 DEF Consecutive, LastAbout
    <3>2. stack[i].op # cmd.op /\ cmd.obj \in Paired
      BY <1>1, <1>4, <2>1, <3>1 DEF Fits
    <3>3. LastAbout(stack, n)
      BY <1>1 DEF LastAbout
    <3>4. cmd.op = op <=> cmd.obj \in here
      BY <1>1, <3>2, <3>3 DEF Fits
    <3>5. ~(cmd.obj \in here <=> cmd.obj \in now)
      BY <3>2 DEF cmd
    <3>6. stack[i].op \in {"place", "erase"} /\ cmd.op \in {"place", "erase"}
      BY <1>1, <1>2, <2>1, <3>2
    <3> QED BY <1>1, <2>1, <3>2, <3>4, <3>5, <3>6
  <2>2. CASE stack[i].obj # cmd.obj
    <3>1. LastAbout(stack, i)
      BY <1>1, <1>4, <2>2 DEF LastAbout
    <3>2. stack[i].op = op <=> stack[i].obj \in here
      BY <1>1, <1>4, <3>1 DEF Fits
    <3> QED BY <1>1, <1>4, <2>2, <3>2 DEF cmd
  <2> QED BY <2>1, <2>2
<1> QED BY <1>1, <1>3, <1>4 DEF Fits, shorter

\* The command that undo or redo is about to play finds its object where it
\* expects it.
LEMMA FitsTop ==
  ASSUME NEW stack \in Seq(Commands), stack # <<>>, NEW here, NEW op,
         Fits(stack, here, op), Last(stack).obj \in Paired
  PROVE  Last(stack).op = op <=> Last(stack).obj \in here
<1>1. /\ Len(stack) \in Nat /\ Len(stack) >= 1 /\ DOMAIN stack = 1..Len(stack)
      /\ Last(stack) = stack[Len(stack)]
  BY FrontLast
<1>2. LastAbout(stack, Len(stack))
  BY <1>1 DEF LastAbout
<1> QED BY <1>1, <1>2 DEF Fits
-----------------------------------------------------------------------------
\* Type correctness

Content == /\ array \in [Kinds -> Seq(Objects)]
           /\ info \subseteq Objects /\ scene \subseteq Objects

Stacks == undoStack \in Seq(Commands) /\ redoStack \in Seq(Commands)

\* addBlock and its kin keep the types of arrays, maps and scene.
LEMMA AddType ==
  ASSUME TypeOK, NEW o \in Objects, Add(o)
  PROVE  Content'
<1>1. KindOf[o] \in Kinds
  BY ObjectsAssumption
<1>2. Append(array[KindOf[o]], o) \in Seq(Objects)
  BY <1>1, AppendProperties DEF TypeOK
<1> QED BY <1>1, <1>2 DEF Add, TypeOK, Content

\* So do the removals, whether or not they find their object.
LEMMA RemoveType ==
  ASSUME TypeOK, NEW o \in Objects, RemoveObject(o) \/ RemoveLineIfPresent(o)
  PROVE  Content'
<1>1. KindOf[o] \in Kinds
  BY ObjectsAssumption
<1>2. /\ Splice(array[KindOf[o]], o) \in Seq(Objects)
      /\ RemoveFirst(array[KindOf[o]], o) \in Seq(Objects)
  BY <1>1, SpliceType, RemoveFirstProperties, RemoveFirstMissing DEF TypeOK
<1> QED BY <1>1, <1>2 DEF RemoveObject, RemoveLineIfPresent, TypeOK, Content

\* So do clear and load.
LEMMA ResetType ==
  ASSUME TypeOK, NEW sheet \in [Kinds -> Seq(Objects)], Reset(sheet)
  PROVE  Content' /\ Stacks' /\ selected' = {}
<1>1. \A k \in Kinds : ToSet(sheet[k]) \subseteq Objects
  BY LenProperties, ElementOfSeq DEF ToSet
<1>2. UNION {ToSet(sheet[k]) : k \in Kinds} \subseteq Objects
  BY <1>1
<1>3. UNION {ToSet(sheet[k]) : k \in Kinds \ {"line"}} \subseteq Objects
  BY <1>1
<1> QED BY <1>2, <1>3, EmptySeq DEF Reset, TypeOK, Content, Stacks

\* record() pushes commands.
LEMMA RecordType ==
  ASSUME TypeOK, NEW cmds \in Seq(Commands), RecordAll(cmds)
  PROVE  Stacks'
BY ConcatProperties, EmptySeq DEF RecordAll, TypeOK, Stacks

\* Every step keeps the types.
LEMMA TypeStep ==
  ASSUME TypeOK, [Next]_vars
  PROVE  TypeOK'
<1> USE DEF ui, history, content
<1>c. \A o \in Objects : /\ <<[op |-> "place", obj |-> o]>> \in Seq(Commands)
                         /\ <<[op |-> "erase", obj |-> o]>> \in Seq(Commands)
  BY DEF Commands
<1>1. ASSUME NEW t \in Tools, DoTool(t)
      PROVE  TypeOK'
  BY <1>1, ToolsAssumption DEF DoTool, TypeOK
<1>2. ASSUME Undo
      PROVE  TypeOK'
  <2>1. /\ Last(undoStack) \in Commands /\ Front(undoStack) \in Seq(Commands)
        /\ Append(redoStack, Last(undoStack)) \in Seq(Commands)
    BY <1>2, FrontLast, AppendProperties DEF Undo, TypeOK
  <2>2. Content'
    <3>1. CASE Last(undoStack).op = "fill"
      BY <1>2, <3>1 DEF Undo, UndoCmd, TypeOK, Content
    <3>2. CASE Last(undoStack).op # "fill"
      <4>1. Last(undoStack).obj \in Objects
        BY <2>1, <3>2 DEF Commands
      <4>2. RemoveObject(Last(undoStack).obj) \/ Add(Last(undoStack).obj)
        BY <1>2, <3>2 DEF Undo, UndoCmd
      <4> QED BY <4>1, <4>2, AddType, RemoveType
    <3> QED BY <3>1, <3>2
  <2> QED BY <1>2, <2>1, <2>2 DEF Undo, TypeOK, Content
<1>3. ASSUME Redo
      PROVE  TypeOK'
  <2>1. /\ Last(redoStack) \in Commands /\ Front(redoStack) \in Seq(Commands)
        /\ Append(undoStack, Last(redoStack)) \in Seq(Commands)
    BY <1>3, FrontLast, AppendProperties DEF Redo, TypeOK
  <2>2. Content'
    <3>1. CASE Last(redoStack).op = "fill"
      BY <1>3, <3>1 DEF Redo, RedoCmd, TypeOK, Content
    <3>2. CASE Last(redoStack).op # "fill"
      <4>1. Last(redoStack).obj \in Objects
        BY <2>1, <3>2 DEF Commands
      <4>2. \/ RemoveObject(Last(redoStack).obj) \/ RemoveLineIfPresent(Last(redoStack).obj)
            \/ Add(Last(redoStack).obj)
        BY <1>3, <3>2 DEF Redo, RedoCmd
      <4> QED BY <4>1, <4>2, AddType, RemoveType
    <3> QED BY <3>1, <3>2
  <2> QED BY <1>3, <2>1, <2>2 DEF Redo, TypeOK, Content
<1>4. ASSUME DoFill
      PROVE  TypeOK'
  <2>1. <<[op |-> "fill", obj |-> NoObj]>> \in Seq(Commands)
    BY DEF Commands
  <2>2. Stacks'
    BY <1>4, <2>1, RecordType DEF DoFill, Record
  <2> QED BY <1>4, <2>2 DEF DoFill, TypeOK, Stacks
<1>5. ASSUME DoClear
      PROVE  TypeOK'
  <2>1. EmptySheet \in [Kinds -> Seq(Objects)]
    BY EmptySeq DEF EmptySheet
  <2> QED BY <1>5, <2>1, ResetType DEF DoClear, TypeOK, Content, Stacks
<1>6. ASSUME NEW o \in Objects, PlaceBlock(o) \/ SecondClick(o) \/ CommitText(o)
      PROVE  TypeOK'
  <2>1. Add(o) /\ Record("place", o)
    BY <1>6 DEF PlaceBlock, SecondClick, CommitText
  <2>2. Content' /\ Stacks'
    BY <1>c, <2>1, AddType, RecordType DEF Record
  <2> QED BY <1>6, <2>2 DEF PlaceBlock, SecondClick, CommitText, TypeOK, Content, Stacks
<1>7. ASSUME NEW o \in Objects, EraseAt(o)
      PROVE  TypeOK'
  <2>1. Content' /\ Stacks'
    BY <1>7, <1>c, RemoveType, RecordType DEF EraseAt, Record
  <2> QED BY <1>7, <2>1 DEF EraseAt, TypeOK, Content, Stacks
<1>8. ASSUME NEW o \in Objects, PencilDown(o)
      PROVE  TypeOK'
  BY <1>8, AddType DEF PencilDown, TypeOK, Content
<1>9. ASSUME NEW o \in Objects, PencilUpErasing(o)
      PROVE  TypeOK'
  <2>1. <<[op |-> "place", obj |-> penLine], [op |-> "erase", obj |-> o]>> \in Seq(Commands)
    <3>1. penLine \in Objects
      BY <1>9 DEF PencilUpErasing, TypeOK
    <3> QED BY <3>1 DEF Commands
  <2>2. Content' /\ Stacks'
    BY <1>9, <2>1, RemoveType, RecordType DEF PencilUpErasing
  <2> QED BY <1>9, <2>2 DEF PencilUpErasing, TypeOK, Content, Stacks
<1>10. ASSUME PencilUp
       PROVE  TypeOK'
  <2>1. Stacks'
    BY <1>10, <1>c, RecordType DEF PencilUp, Record, TypeOK
  <2> QED BY <1>10, <2>1 DEF PencilUp, TypeOK, Stacks
<1>11. ASSUME NEW hit \in Objects \cup {NoObj}, NEW shift \in BOOLEAN, SelectClick(hit, shift)
       PROVE  TypeOK'
  BY <1>11 DEF SelectClick, TypeOK
<1>12. ASSUME CancelDiv
       PROVE  TypeOK'
  <2>1. Content'
    BY <1>12, RemoveType DEF CancelDiv, TypeOK
  <2> QED BY <1>12, <2>1 DEF CancelDiv, TypeOK, Content
<1>13. ASSUME NEW sheet \in Sheets, LoadScene(sheet)
       PROVE  TypeOK'
  BY <1>13, SheetsAssumption, ResetType DEF LoadScene, TypeOK, Content, Stacks
<1>14. CASE Escape \/ FirstClick \/ SecondClickTooSmall \/ TextClick \/ PencilLeave
            \/ CancelText \/ CommitDiv \/ LoadFails
  BY <1>14 DEF Escape, FirstClick, SecondClickTooSmall, TextClick, PencilLeave, CancelText,
               CommitDiv, LoadFails, TypeOK
<1>15. CASE UNCHANGED vars
  BY <1>15 DEF vars, TypeOK
<1> QED BY <1>1, <1>2, <1>3, <1>4, <1>5, <1>6, <1>7, <1>8, <1>9, <1>10, <1>11, <1>12, <1>13,
           <1>14, <1>15 DEF Next

\* The arrays, stacks and overlays keep their types: in particular a command
\* that places or erases always names an object.
THEOREM TypeCorrect == Spec => []TypeOK
<1>1. Init => TypeOK
  BY EmptySeq DEF Init, TypeOK, EmptySheet, AllTools
<1>2. TypeOK /\ [Next]_vars => TypeOK'
  BY TypeStep
<1> QED BY <1>1, <1>2, PTL DEF Spec
-----------------------------------------------------------------------------
\* What is shown is what is saved, and the history can be replayed

\* No array lists a paired object twice.
Tidy == \A o \in Paired : Distinct(array[KindOf[o]])

\* The stroke in progress is drawn and no command knows it yet.
StrokeApart ==
  penLine # NoObj =>
    /\ KindOf[penLine] = "line"
    /\ penLine \in Paired =>
         Present(penLine) /\ penLine \notin Mentioned(undoStack) \cup Mentioned(redoStack)

PanelIsDiv == activeDiv # NoObj => KindOf[activeDiv] = "div"

Safe == ShownIsSaved /\ HistoryReplayable /\ Tidy /\ StrokeApart /\ PanelIsDiv

\* The inductive invariant.
IInv == TypeOK /\ Safe

\* Adding a missing object lists it once and shows it.
LEMMA AddKeeps ==
  ASSUME TypeOK, Tidy, ShownIsSaved, NEW o \in Objects, Add(o), o \in Paired => ~Present(o)
  PROVE  /\ Tidy' /\ ShownIsSaved'
         /\ \A p \in Objects : p \in Here' <=> p \in Here \/ p = o
<1> DEFINE k == KindOf[o]
           s == array[k]
<1>1. k \in Kinds /\ s \in Seq(Objects) /\ \A p \in Objects : KindOf[p] \in Kinds
  BY ObjectsAssumption DEF TypeOK
<1>2. array' = [array EXCEPT ![k] = Append(s, o)] /\ scene' = scene \cup {o}
  BY DEF Add
<1>3. /\ Len(s) \in Nat /\ DOMAIN s = 1..Len(s) /\ DOMAIN Append(s, o) = 1 .. Len(s) + 1
      /\ Len(Append(s, o)) = Len(s) + 1
      /\ Append(s, o)[Len(s) + 1] = o /\ \A i \in 1..Len(s) : Append(s, o)[i] = s[i]
  BY <1>1, AppendProperties, LenProperties
<1> HIDE DEF s, k
<1>4. \A p \in Objects : Contains(Append(s, o), p) <=> Contains(s, p) \/ p = o
  BY <1>3 DEF Contains
<1>5. \A q \in Kinds : array'[q] = IF q = k THEN Append(s, o) ELSE array[q]
  BY <1>1, <1>2 DEF TypeOK
<1>6. \A p \in Objects : p \in Here' <=> p \in Here \/ p = o
  BY <1>1, <1>4, <1>5 DEF Here, Present, k, s
<1>7. ShownIsSaved'
  BY <1>2, <1>6 DEF ShownIsSaved, Here, Paired
<1>8. ASSUME NEW p \in Paired
      PROVE  Distinct(array'[KindOf[p]])
  <2>1. KindOf[p] \in Kinds /\ Distinct(array[KindOf[p]])
    BY <1>1 DEF Tidy, Paired
  <2>2. CASE KindOf[p] = k
    <3>1. o \in Paired
      BY <2>2 DEF Paired, k
    <3>2. ~Contains(s, o) /\ Distinct(s)
      BY <2>1, <2>2, <3>1 DEF Present, s, k
    <3>3. Distinct(Append(s, o))
      BY <1>3, <3>2 DEF Distinct, Contains
    <3> QED BY <1>5, <2>1, <2>2, <3>3
  <2>3. CASE KindOf[p] # k
    BY <1>5, <2>1, <2>3
  <2> QED BY <2>2, <2>3
<1> QED BY <1>6, <1>7, <1>8 DEF Tidy, Paired

\* Removing an object, present if it is paired, takes it and no other paired
\* object out of the arrays.
LEMMA RemoveKeeps ==
  ASSUME TypeOK, Tidy, ShownIsSaved, NEW o \in Objects,
         RemoveObject(o) \/ RemoveLineIfPresent(o), o \in Paired => Present(o)
  PROVE  /\ Tidy' /\ ShownIsSaved'
         /\ \A p \in Paired : p \in Here' <=> p \in Here /\ p # o
<1> DEFINE k == KindOf[o]
           s == array[k]
<1>1. k \in Kinds /\ s \in Seq(Objects) /\ \A p \in Paired : p \in Objects /\ KindOf[p] \in Kinds
  BY ObjectsAssumption DEF TypeOK, Paired
<1>2. PICK t \in {Splice(s, o), RemoveFirst(s, o)} :
        array' = [array EXCEPT ![k] = t] /\ scene' = scene \ {o}
  BY DEF RemoveObject, RemoveLineIfPresent
<1>3. \A q \in Kinds : array'[q] = IF q = k THEN t ELSE array[q]
  BY <1>1, <1>2 DEF TypeOK
<1> HIDE DEF s, k
<1>4. ASSUME o \in Paired
      PROVE  /\ \A p \in Objects : p # o => (Contains(t, p) <=> Contains(s, p))
             /\ Distinct(t) /\ ~Contains(t, o)
  <2>1. Contains(s, o) /\ Distinct(s)
    BY <1>4 DEF Present, Tidy, s, k
  <2>2. t = RemoveFirst(s, o)
    BY <1>2, <2>1 DEF Splice
  <2> QED BY <1>1, <2>1, <2>2, RemoveFirstProperties
<1>5. \A p \in Paired : o \notin Paired => KindOf[p] # k
  BY DEF Paired, k
<1>6. \A p \in Paired : p \in Here' <=> p \in Here /\ p # o
  <2>1. CASE o \in Paired
    BY <1>1, <1>3, <1>4, <2>1 DEF Here, Present, k, s
  <2>2. CASE o \notin Paired
    BY <1>1, <1>3, <1>5, <2>2 DEF Here, Present
  <2> QED BY <2>1, <2>2
<1>7. ShownIsSaved'
  BY <1>1, <1>2, <1>6 DEF ShownIsSaved, Here, Paired
<1>8. Tidy'
  <2>1. CASE o \in Paired
    BY <1>1, <1>3, <1>4, <2>1 DEF Tidy, Paired
  <2>2. CASE o \notin Paired
    BY <1>1, <1>3, <1>5, <2>2 DEF Tidy, Paired
  <2> QED BY <2>1, <2>2
<1> QED BY <1>6, <1>7, <1>8

\* After a clear or a load the scene shows the sheet.
LEMMA ResetKeeps ==
  ASSUME TypeOK, ShownIsSaved, NEW sheet \in [Kinds -> Seq(Objects)], Reset(sheet),
         \A k \in Kinds : Distinct(sheet[k]) /\ \A i \in DOMAIN sheet[k] : KindOf[sheet[k][i]] = k
  PROVE  Tidy' /\ ShownIsSaved' /\ HistoryReplayable'
<1>1. \A o \in Objects : KindOf[o] \in Kinds
  BY ObjectsAssumption
<1>2. Tidy'
  BY <1>1 DEF Tidy, Paired, Reset
<1>3. HistoryReplayable'
  BY FitsEmpty DEF Reset, HistoryReplayable
<1>4. ASSUME NEW o \in scene', o \in Paired
      PROVE  Present(o)'
  <2>1. \A k \in Kinds, p \in Objects : p \in ToSet(array[k]) <=> Contains(array[k], p)
    BY LenProperties DEF ToSet, Contains, TypeOK
  <2>2. o \in Objects /\ (o \in scene => o \in Listed)
    BY <1>1, <1>4, <2>1 DEF ShownIsSaved, Present, Listed, Paired
  <2>3. PICK k \in Kinds : o \in ToSet(sheet[k])
    BY <1>4, <2>2 DEF Reset
  <2>4. KindOf[o] = k /\ Contains(sheet[k], o)
    BY <2>3, LenProperties DEF ToSet, Contains
  <2> QED BY <2>4 DEF Present, Reset
<1> QED BY <1>2, <1>3, <1>4 DEF ShownIsSaved, Paired
\* What a longer stack mentions.
LEMMA MentionedAppend ==
  ASSUME NEW stack \in Seq(Commands), NEW cmd \in Commands
  PROVE  Mentioned(Append(stack, cmd)) = Mentioned(stack) \cup {cmd.obj}
<1>1. /\ Len(stack) \in Nat /\ DOMAIN stack = 1..Len(stack)
      /\ DOMAIN Append(stack, cmd) = 1 .. Len(stack) + 1
      /\ Append(stack, cmd)[Len(stack) + 1] = cmd
      /\ \A i \in 1..Len(stack) : Append(stack, cmd)[i] = stack[i]
  BY AppendProperties, LenProperties
<1> QED BY <1>1 DEF Mentioned

\* What a shorter stack mentions.
LEMMA MentionedFront ==
  ASSUME NEW stack \in Seq(Commands), stack # <<>>
  PROVE  Mentioned(Front(stack)) \subseteq Mentioned(stack) /\ Last(stack).obj \in Mentioned(stack)
<1>1. /\ Len(stack) \in Nat /\ Len(stack) >= 1 /\ DOMAIN stack = 1..Len(stack)
      /\ Last(stack) = stack[Len(stack)]
      /\ DOMAIN Front(stack) = 1 .. Len(stack) - 1
      /\ \A i \in 1 .. Len(stack) - 1 : Front(stack)[i] = stack[i]
  BY FrontLast
<1> QED BY <1>1 DEF Mentioned

\* Panels are never paired, lines only when strokes are not interrupted.
LEMMA PairedFacts ==
  /\ \A p \in Paired : p \in Objects /\ KindOf[p] # "div"
  /\ Interrupts => \A p \in Paired : KindOf[p] # "line"
  /\ NoObj \notin Paired
  /\ \A o \in Objects : o \in Here <=> Present(o)
BY ObjectsAssumption DEF Paired, Here

\* record(): the command is pushed, and nothing is left to redo.
LEMMA RecordKeeps ==
  ASSUME TypeOK, HistoryReplayable, NEW op, NEW o, [op |-> op, obj |-> o] \in Commands,
         Record(op, o),
         \A p \in Paired : p # o => (p \in Here <=> p \in Here'),
         o \in Paired =>
           /\ op = "place" <=> o \in Here'
           /\ o \in Mentioned(undoStack) => ~(o \in Here <=> o \in Here')
  PROVE  /\ HistoryReplayable'
         /\ Mentioned(undoStack') \cup Mentioned(redoStack') \subseteq Mentioned(undoStack) \cup {o}
<1> DEFINE cmd == [op |-> op, obj |-> o]
<1>1. undoStack' = Append(undoStack, cmd) /\ redoStack' = <<>>
  BY AppendIsConcat DEF Record, RecordAll, TypeOK
<1>2. Fits(undoStack, Here, "place") /\ undoStack \in Seq(Commands)
  BY DEF HistoryReplayable, TypeOK
<1>3. cmd \in Commands /\ cmd.op = op /\ cmd.obj = o
  OBVIOUS
<1> HIDE DEF cmd
<1>4. Fits(Append(undoStack, cmd), Here', "place")
  BY <1>2, <1>3, FitsPush
<1>5. Mentioned(undoStack') \cup Mentioned(redoStack') \subseteq Mentioned(undoStack) \cup {o}
  BY <1>1, <1>2, <1>3, MentionedAppend DEF Mentioned
<1> QED BY <1>1, <1>4, <1>5, FitsEmpty DEF HistoryReplayable

\* What undo and redo do to the stacks.
LEMMA MoveKeeps ==
  ASSUME NEW from \in Seq(Commands), from # <<>>, NEW to \in Seq(Commands),
         NEW here, NEW now,
         NEW fromOp \in {"place", "erase"}, NEW toOp \in {"place", "erase"}, fromOp # toOp,
         Fits(from, here, fromOp), Fits(to, here, toOp),
         \A p \in Paired : p # Last(from).obj => (p \in here <=> p \in now),
         Last(from).obj \in Paired => ~(Last(from).obj \in here <=> Last(from).obj \in now)
  PROVE  /\ Fits(Front(from), now, fromOp) /\ Fits(Append(to, Last(from)), now, toOp)
         /\ Mentioned(Front(from)) \cup Mentioned(Append(to, Last(from)))
              \subseteq Mentioned(from) \cup Mentioned(to)
<1> DEFINE cmd == Last(from)
<1>1. cmd \in Commands
  BY FrontLast
<1>2. Fits(Front(from), now, fromOp)
  BY <1>1, FitsPop
<1>3. cmd.obj \in Paired => (cmd.op = fromOp <=> cmd.obj \in here)
  BY FitsTop
<1>4. cmd.obj \in Paired => cmd.op \in {"place", "erase"}
  BY <1>1, PairedFacts DEF Commands
<1>5. cmd.obj \in Paired => (cmd.op = toOp <=> cmd.obj \in now)
  BY <1>1, <1>3, <1>4
<1>6. Fits(Append(to, cmd), now, toOp)
  BY <1>1, <1>5, FitsPush
<1>7. /\ Mentioned(Front(from)) \subseteq Mentioned(from) /\ cmd.obj \in Mentioned(from)
      /\ Mentioned(Append(to, cmd)) = Mentioned(to) \cup {cmd.obj}
  BY <1>1, MentionedFront, MentionedAppend
<1> QED BY <1>2, <1>6, <1>7

\* The stroke in progress is left alone.
LEMMA StrokeStays ==
  ASSUME TypeOK, StrokeApart, penLine' = penLine,
         penLine \in Paired /\ penLine \in Here => penLine \in Here',
         penLine \in Paired => penLine \notin Mentioned(undoStack') \cup Mentioned(redoStack')
  PROVE  StrokeApart'
<1>1. penLine \in Paired => penLine # NoObj /\ penLine \in Objects
  BY PairedFacts
<1>2. penLine \in Paired => penLine \in Here'
  BY <1>1, PairedFacts DEF StrokeApart
<1>3. penLine \in Here' => Present(penLine)'
  BY DEF Here
<1> QED BY <1>2, <1>3 DEF StrokeApart, Paired

\* An action that touches neither the arrays nor the stacks.
LEMMA QuietKeeps ==
  ASSUME IInv, UNCHANGED <<array, scene, undoStack, redoStack>>,
         penLine' \in {penLine, NoObj}, activeDiv' \in {activeDiv, NoObj}
  PROVE  Safe'
<1>1. Here' = Here
  BY DEF Here, Present
<1>2. HistoryReplayable' /\ ShownIsSaved' /\ Tidy'
  BY <1>1 DEF IInv, Safe, HistoryReplayable, ShownIsSaved, Tidy, Present
<1>3. StrokeApart' /\ PanelIsDiv'
  BY DEF IInv, Safe, StrokeApart, PanelIsDiv, Present
<1> QED BY <1>2, <1>3 DEF Safe

\* A new object is drawn and recorded.
LEMMA PlaceKeeps ==
  ASSUME IInv, NEW o \in Objects, Fresh(o), Add(o), Record("place", o),
         penLine' = penLine, activeDiv' = activeDiv \/ (activeDiv' = o /\ KindOf[o] = "div")
  PROVE  Safe'
<1>1. /\ Tidy' /\ ShownIsSaved'
      /\ \A p \in Objects : p \in Here' <=> p \in Here \/ p = o
  BY AddKeeps DEF IInv, Safe, Fresh
<1>2. [op |-> "place", obj |-> o] \in Commands
  BY DEF Commands
<1>3. \A p \in Paired : p # o => (p \in Here <=> p \in Here')
  BY <1>1, PairedFacts
<1>4. /\ HistoryReplayable'
      /\ Mentioned(undoStack') \cup Mentioned(redoStack') \subseteq Mentioned(undoStack) \cup {o}
  BY <1>1, <1>2, <1>3, RecordKeeps DEF IInv, Safe, Fresh
<1>5. StrokeApart'
  BY <1>1, <1>4, StrokeStays, PairedFacts DEF IInv, Safe, Fresh, StrokeApart
<1>6. PanelIsDiv'
  BY DEF IInv, Safe, PanelIsDiv
<1> QED BY <1>1, <1>4, <1>5, <1>6 DEF Safe
\* Every action keeps the invariant.
LEMMA SafeStep ==
  ASSUME IInv, Next
  PROVE  Safe'
<1> USE DEF IInv
<1>0. TypeOK /\ Safe
  OBVIOUS
<1>1. ASSUME Undo
      PROVE  Safe'
  <2> DEFINE cmd == Last(undoStack)
  <2>1. /\ undoStack # <<>> /\ UndoCmd(cmd) /\ cmd \in Commands
        /\ undoStack' = Front(undoStack) /\ redoStack' = Append(redoStack, cmd)
        /\ penLine' = penLine /\ activeDiv' = activeDiv
    BY <1>1, FrontLast DEF Undo, ui, TypeOK
  <2>2. cmd.obj \in Paired => (cmd.op = "place" <=> cmd.obj \in Here)
    BY <2>1, FitsTop DEF Safe, HistoryReplayable, TypeOK
  <2> HIDE DEF cmd
  <2>3. /\ Tidy' /\ ShownIsSaved'
        /\ \A p \in Paired : p # cmd.obj => (p \in Here <=> p \in Here')
        /\ cmd.obj \in Paired => ~(cmd.obj \in Here <=> cmd.obj \in Here')
    <3>1. CASE cmd.op = "place"
      <4>1. RemoveObject(cmd.obj) /\ cmd.obj \in Objects
        BY <2>1, <3>1 DEF UndoCmd, Commands
      <4>2. /\ Tidy' /\ ShownIsSaved'
            /\ \A p \in Paired : p \in Here' <=> p \in Here /\ p # cmd.obj
        BY <2>2, <3>1, <4>1, RemoveKeeps, PairedFacts DEF Safe
      <4> QED BY <2>2, <3>1, <4>2
    <3>2. CASE cmd.op = "erase"
      <4>1. Add(cmd.obj) /\ cmd.obj \in Objects
        BY <2>1, <3>2 DEF UndoCmd, Commands
      <4>2. /\ Tidy' /\ ShownIsSaved'
            /\ \A p \in Objects : p \in Here' <=> p \in Here \/ p = cmd.obj
        BY <2>2, <3>2, <4>1, AddKeeps, PairedFacts DEF Safe
      <4> QED BY <2>2, <3>2, <4>2, PairedFacts
    <3>3. CASE cmd.op = "fill"
      <4>1. UNCHANGED <<array, scene>> /\ cmd.obj \notin Paired
        BY <2>1, <3>3, PairedFacts DEF UndoCmd, Commands, content
      <4> QED BY <4>1 DEF Safe, Tidy, ShownIsSaved, Here, Present
    <3> QED BY <2>1, <3>1, <3>2, <3>3 DEF Commands
  <2>4. /\ HistoryReplayable'
        /\ Mentioned(undoStack') \cup Mentioned(redoStack')
             \subseteq Mentioned(undoStack) \cup Mentioned(redoStack)
    <3>1. /\ Fits(Front(undoStack), Here', "place") /\ Fits(Append(redoStack, cmd), Here', "erase")
          /\ Mentioned(Front(undoStack)) \cup Mentioned(Append(redoStack, cmd))
               \subseteq Mentioned(undoStack) \cup Mentioned(redoStack)
      BY <2>1, <2>3, MoveKeeps DEF cmd, Safe, HistoryReplayable, TypeOK
    <3> QED BY <2>1, <3>1 DEF HistoryReplayable
  <2>5. cmd.obj \in Mentioned(undoStack)
    BY <2>1, MentionedFront DEF cmd, TypeOK
  <2>6. StrokeApart'
    BY <2>1, <2>3, <2>4, <2>5, StrokeStays, PairedFacts DEF Safe, StrokeApart
  <2> QED BY <2>1, <2>3, <2>4, <2>6 DEF Safe, PanelIsDiv
<1>2. ASSUME Redo
      PROVE  Safe'
  <2> DEFINE cmd == Last(redoStack)
  <2>1. /\ redoStack # <<>> /\ RedoCmd(cmd) /\ cmd \in Commands
        /\ redoStack' = Front(redoStack) /\ undoStack' = Append(undoStack, cmd)
        /\ penLine' = penLine /\ activeDiv' = activeDiv
    BY <1>2, FrontLast DEF Redo, ui, TypeOK
  <2>2. cmd.obj \in Paired => (cmd.op = "erase" <=> cmd.obj \in Here)
    BY <2>1, FitsTop DEF Safe, HistoryReplayable, TypeOK
  <2> HIDE DEF cmd
  <2>3. /\ Tidy' /\ ShownIsSaved'
        /\ \A p \in Paired : p # cmd.obj => (p \in Here <=> p \in Here')
        /\ cmd.obj \in Paired => ~(cmd.obj \in Here <=> cmd.obj \in Here')
    <3>1. CASE cmd.op = "erase"
      <4>1. (RemoveObject(cmd.obj) \/ RemoveLineIfPresent(cmd.obj)) /\ cmd.obj \in Objects
        BY <2>1, <3>1 DEF RedoCmd, Commands
      <4>2. /\ Tidy' /\ ShownIsSaved'
            /\ \A p \in Paired : p \in Here' <=> p \in Here /\ p # cmd.obj
        BY <2>2, <3>1, <4>1, RemoveKeeps, PairedFacts DEF Safe
      <4> QED BY <2>2, <3>1, <4>2
    <3>2. CASE cmd.op = "place"
      <4>1. Add(cmd.obj) /\ cmd.obj \in Objects
        BY <2>1, <3>2 DEF RedoCmd, Commands
      <4>2. /\ Tidy' /\ ShownIsSaved'
            /\ \A p \in Objects : p \in Here' <=> p \in Here \/ p = cmd.obj
        BY <2>2, <3>2, <4>1, AddKeeps, PairedFacts DEF Safe
      <4> QED BY <2>2, <3>2, <4>2, PairedFacts
    <3>3. CASE cmd.op = "fill"
      <4>1. UNCHANGED <<array, scene>> /\ cmd.obj \notin Paired
        BY <2>1, <3>3, PairedFacts DEF RedoCmd, Commands, content
      <4> QED BY <4>1 DEF Safe, Tidy, ShownIsSaved, Here, Present
    <3> QED BY <2>1, <3>1, <3>2, <3>3 DEF Commands
  <2>4. /\ HistoryReplayable'
        /\ Mentioned(undoStack') \cup Mentioned(redoStack')
             \subseteq Mentioned(undoStack) \cup Mentioned(redoStack)
    <3>1. /\ Fits(Front(redoStack), Here', "erase") /\ Fits(Append(undoStack, cmd), Here', "place")
          /\ Mentioned(Front(redoStack)) \cup Mentioned(Append(undoStack, cmd))
               \subseteq Mentioned(redoStack) \cup Mentioned(undoStack)
      BY <2>1, <2>3, MoveKeeps DEF cmd, Safe, HistoryReplayable, TypeOK
    <3> QED BY <2>1, <3>1 DEF HistoryReplayable
  <2>5. cmd.obj \in Mentioned(redoStack)
    BY <2>1, MentionedFront DEF cmd, TypeOK
  <2>6. StrokeApart'
    BY <2>1, <2>3, <2>4, <2>5, StrokeStays, PairedFacts DEF Safe, StrokeApart
  <2> QED BY <2>1, <2>3, <2>4, <2>6 DEF Safe, PanelIsDiv
<1>3. ASSUME DoFill
      PROVE  Safe'
  <2>1. /\ Record("fill", NoObj) /\ [op |-> "fill", obj |-> NoObj] \in Commands
        /\ UNCHANGED <<array, scene, penLine, activeDiv>>
    BY <1>3 DEF DoFill, content, ui, Commands
  <2>2. Here' = Here
    BY <2>1 DEF Here, Present
  <2>3. /\ HistoryReplayable'
        /\ Mentioned(undoStack') \cup Mentioned(redoStack') \subseteq Mentioned(undoStack) \cup {NoObj}
    BY <2>1, <2>2, PairedFacts, RecordKeeps DEF Safe
  <2>4. StrokeApart'
    BY <2>1, <2>2, <2>3, StrokeStays, PairedFacts DEF Safe, StrokeApart
  <2> QED BY <2>1, <2>3, <2>4 DEF Safe, Tidy, ShownIsSaved, PanelIsDiv, Present
<1>4. ASSUME NEW sheet \in [Kinds -> Seq(Objects)], Reset(sheet),
             \A k \in Kinds : Distinct(sheet[k]) /\ \A i \in DOMAIN sheet[k] : KindOf[sheet[k][i]] = k,
             penLine = NoObj \/ Interrupts, UNCHANGED ui
      PROVE  Safe'
  <2>1. Tidy' /\ ShownIsSaved' /\ HistoryReplayable'
    BY <1>4, ResetKeeps DEF Safe
  <2>2. StrokeApart' /\ PanelIsDiv'
    BY <1>4, PairedFacts DEF Safe, StrokeApart, PanelIsDiv, ui
  <2> QED BY <2>1, <2>2 DEF Safe
<1>5. ASSUME DoClear
      PROVE  Safe'
  <2>1. /\ EmptySheet \in [Kinds -> Seq(Objects)]
        /\ \A k \in Kinds : Distinct(EmptySheet[k])
                            /\ \A i \in DOMAIN EmptySheet[k] : KindOf[EmptySheet[k][i]] = k
    BY EmptySeq DEF EmptySheet, Distinct
  <2> QED BY <1>4, <1>5, <2>1 DEF DoClear, PanelFree
<1>6. ASSUME NEW sheet \in Sheets, LoadScene(sheet)
      PROVE  Safe'
  BY <1>4, <1>6, SheetsAssumption DEF LoadScene, LoadFree, CanvasFree
<1>7. ASSUME NEW o \in Objects, PlaceBlock(o) \/ SecondClick(o) \/ CommitText(o)
      PROVE  Safe'
  <2>1. Fresh(o) /\ Add(o) /\ Record("place", o) /\ penLine' = penLine
    BY <1>7 DEF PlaceBlock, SecondClick, CommitText, ui
  <2>2. activeDiv' = activeDiv \/ (activeDiv' = o /\ KindOf[o] = "div")
    BY <1>7 DEF PlaceBlock, SecondClick, CommitText, ui, TwoClick
  <2> QED BY <2>1, <2>2, PlaceKeeps
<1>8. ASSUME NEW o \in Objects, EraseAt(o)
      PROVE  Safe'
  <2>1. /\ penLine = NoObj /\ activeDiv = NoObj /\ Present(o)
        /\ RemoveObject(o) /\ Record("erase", o) /\ UNCHANGED <<penLine, activeDiv>>
    BY <1>8 DEF EraseAt, CanvasFree, ui
  <2>2. /\ Tidy' /\ ShownIsSaved'
        /\ \A p \in Paired : p \in Here' <=> p \in Here /\ p # o
    BY <2>1, RemoveKeeps DEF Safe
  <2>3. [op |-> "erase", obj |-> o] \in Commands
    BY DEF Commands
  <2>4. HistoryReplayable'
    BY <2>1, <2>2, <2>3, RecordKeeps, PairedFacts DEF Safe
  <2> QED BY <2>1, <2>2, <2>4 DEF Safe, StrokeApart, PanelIsDiv
<1>9. ASSUME NEW o \in Objects, PencilDown(o)
      PROVE  Safe'
  <2>1. /\ KindOf[o] = "line" /\ Fresh(o) /\ Add(o) /\ penLine' = o
        /\ UNCHANGED <<undoStack, redoStack, activeDiv>>
    BY <1>9 DEF PencilDown, history
  <2>2. /\ Tidy' /\ ShownIsSaved'
        /\ \A p \in Objects : p \in Here' <=> p \in Here \/ p = o
    BY <2>1, AddKeeps DEF Safe, Fresh
  <2>3. HistoryReplayable'
    BY <2>1, <2>2, FitsUnmentioned, PairedFacts DEF Safe, HistoryReplayable, Fresh
  <2>4. o \in Here' => Present(o)'
    BY DEF Here
  <2> QED BY <2>1, <2>2, <2>3, <2>4 DEF Safe, StrokeApart, PanelIsDiv, Fresh
<1>10. ASSUME PencilUp
       PROVE  Safe'
  <2>1. /\ penLine # NoObj /\ Record("place", penLine) /\ penLine' = NoObj
        /\ UNCHANGED <<array, scene, activeDiv>>
    BY <1>10 DEF PencilUp, content
  <2>2. Here' = Here /\ [op |-> "place", obj |-> penLine] \in Commands
    BY <2>1 DEF Here, Present, Commands, TypeOK
  <2>3. HistoryReplayable'
    BY <2>1, <2>2, RecordKeeps, PairedFacts DEF Safe, StrokeApart
  <2> QED BY <2>1, <2>3 DEF Safe, Tidy, ShownIsSaved, StrokeApart, PanelIsDiv, Present
<1>11. ASSUME NEW o \in Objects, PencilUpErasing(o)
       PROVE  Safe'
  <2> DEFINE first == [op |-> "place", obj |-> penLine]
             second == [op |-> "erase", obj |-> o]
  <2>1. /\ penLine # NoObj /\ Present(o) /\ RemoveObject(o) /\ penLine' = NoObj
        /\ undoStack' = undoStack \o <<first, second>> /\ redoStack' = <<>>
        /\ UNCHANGED activeDiv
    BY <1>11 DEF PencilUpErasing, RecordAll
  <2>2. first \in Commands /\ second \in Commands /\ undoStack \in Seq(Commands)
    BY <2>1 DEF Commands, TypeOK
  <2>3. undoStack' = Append(Append(undoStack, first), second)
    BY <2>1, <2>2
  <2>4. /\ Tidy' /\ ShownIsSaved'
        /\ \A p \in Paired : p \in Here' <=> p \in Here /\ p # o
    BY <2>1, RemoveKeeps DEF Safe
  <2>5. Fits(Append(undoStack, first), Here, "place")
    <3>1. /\ Fits(undoStack, Here, "place") /\ first.op = "place" /\ first.obj = penLine
          /\ penLine \in Paired => penLine \in Here /\ penLine \notin Mentioned(undoStack)
      BY <2>1, PairedFacts DEF Safe, HistoryReplayable, StrokeApart
    <3> HIDE DEF first
    <3> QED BY <2>2, <3>1, FitsPush
  <2>6. Fits(Append(Append(undoStack, first), second), Here', "place")
    <3>1. second.op = "erase" /\ second.obj = o /\ Append(undoStack, first) \in Seq(Commands)
      BY <2>2, AppendProperties
    <3>2. o \in Here
      BY <2>1, PairedFacts
    <3> HIDE DEF first, second
    <3> QED BY <2>2, <2>4, <2>5, <3>1, <3>2, FitsPush
  <2>7. HistoryReplayable'
    BY <2>1, <2>3, <2>6, FitsEmpty DEF HistoryReplayable
  <2> QED BY <2>1, <2>4, <2>7 DEF Safe, StrokeApart, PanelIsDiv
<1>12. ASSUME CancelDiv
       PROVE  Safe'
  <2>1. /\ activeDiv \in Objects \ Paired /\ RemoveObject(activeDiv) /\ activeDiv' = NoObj
        /\ UNCHANGED <<undoStack, redoStack, penLine>>
    BY <1>12, PairedFacts DEF CancelDiv, history, Safe, PanelIsDiv, TypeOK
  <2>2. /\ Tidy' /\ ShownIsSaved'
        /\ \A p \in Paired : p \in Here' <=> p \in Here
    BY <2>1, RemoveKeeps DEF Safe
  <2>3. HistoryReplayable'
    BY <2>1, <2>2, FitsSame DEF Safe, HistoryReplayable
  <2>4. StrokeApart'
    BY <2>1, <2>2, StrokeStays, PairedFacts DEF Safe, StrokeApart
  <2> QED BY <2>1, <2>2, <2>3, <2>4 DEF Safe, PanelIsDiv
<1>13. CASE \/ \E t \in Tools : DoTool(t)
            \/ \E hit \in Objects \cup {NoObj}, shift \in BOOLEAN : SelectClick(hit, shift)
            \/ Escape \/ FirstClick \/ SecondClickTooSmall \/ TextClick \/ PencilLeave
            \/ CancelText \/ CommitDiv \/ LoadFails
  <2>1. /\ UNCHANGED <<array, scene, undoStack, redoStack>>
        /\ penLine' \in {penLine, NoObj} /\ activeDiv' \in {activeDiv, NoObj}
    BY <1>13 DEF DoTool, SelectClick, Escape, FirstClick, SecondClickTooSmall, TextClick,
                 PencilLeave, CancelText, CommitDiv, LoadFails, content, history, ui
  <2> QED BY <2>1, QuietKeeps
<1> QED BY <1>1, <1>2, <1>3, <1>5, <1>6, <1>7, <1>8, <1>9, <1>10, <1>11, <1>12, <1>13 DEF Next

\* The strengthening is inductive.
LEMMA Invariance == Spec => []IInv
<1>1. Init => IInv
  <2>1. Init => TypeOK
    BY EmptySeq DEF Init, TypeOK, EmptySheet, AllTools
  <2>2. Init => Safe
    <3> SUFFICES ASSUME Init PROVE Safe
      OBVIOUS
    <3>1. HistoryReplayable
      BY FitsEmpty DEF Init, HistoryReplayable
    <3>2. Tidy
      BY ObjectsAssumption DEF Init, Tidy, EmptySheet, Distinct, Paired
    <3> QED BY <3>1, <3>2 DEF Init, Safe, ShownIsSaved, StrokeApart, PanelIsDiv
  <2> QED BY <2>1, <2>2 DEF IInv
<1>2. IInv /\ [Next]_vars => IInv'
  <2> SUFFICES ASSUME IInv, [Next]_vars PROVE IInv'
    OBVIOUS
  <2>1. TypeOK'
    BY TypeStep DEF IInv
  <2>2. CASE Next
    BY <2>1, <2>2, SafeStep DEF IInv
  <2>3. CASE UNCHANGED vars
    BY <2>1, <2>3, QuietKeeps DEF IInv, vars, content, history, ui
  <2> QED BY <2>2, <2>3
<1> QED BY <1>1, <1>2, PTL DEF Spec

\* After any gestures, undos, loads and interruptions, every block, wall and
\* label on display (and every line, when strokes are not interrupted) is in the
\* arrays that serializeScene writes.
THEOREM ShownObjectsAreSaved == Spec => []ShownIsSaved
BY Invariance, PTL DEF IInv, Safe

\* doUndo and doRedo never meet a paired object where its closure does not
\* expect it, so that splice(indexOf(o), 1) never gets -1 for one.
THEOREM HistoryStaysReplayable == Spec => []HistoryReplayable
BY Invariance, PTL DEF IInv, Safe
-----------------------------------------------------------------------------
\* Whatever a save lists is on display
\*
\* Here every object counts, the panels and interrupted lines included.  Their
\* commands may find them gone already, and the splice that follows may take
\* another object out; what must never happen is that a closure adds an object
\* the arrays still list.

\* The last command of stack about o has the operation op.
Ends(stack, o, op) ==
  \E i \in DOMAIN stack : stack[i].obj = o /\ stack[i].op = op /\ LastAbout(stack, i)

\* Placing and erasing an object take turns.
Alternating(stack) ==
  \A i, j \in DOMAIN stack :
    stack[i].obj \in Objects /\ Consecutive(stack, i, j) => stack[i].op # stack[j].op

\* With the objects of here in the arrays, the closure of o that undo or redo
\* plays next adds o only if it is absent, and the two stacks never agree on
\* what was last done to o.
Plays(undo, redo, here) ==
  /\ Alternating(undo) /\ Alternating(redo)
  /\ \A o \in Objects :
       /\ Ends(undo, o, "erase") => o \notin here
       /\ Ends(redo, o, "place") => o \notin here
       /\ \A op \in {"place", "erase"} : ~(Ends(undo, o, op) /\ Ends(redo, o, op))

Playable == Plays(undoStack, redoStack, Here)

\* No command knows the stroke in progress, even one that a load left behind.
StrokeUnknown ==
  penLine # NoObj => penLine \notin Mentioned(undoStack) \cup Mentioned(redoStack)

\* The inductive invariant.
LInv == IInv /\ SavedIsShown /\ Playable /\ StrokeUnknown

\* What the end of a longer stack says.
LEMMA EndsAppend ==
  ASSUME NEW stack \in Seq(Commands), NEW cmd \in Commands, NEW o, NEW op
  PROVE  Ends(Append(stack, cmd), o, op) <=> IF cmd.obj = o THEN cmd.op = op ELSE Ends(stack, o, op)
<1> DEFINE longer == Append(stack, cmd)
           n == Len(stack)
<1>1. /\ n \in Nat /\ DOMAIN stack = 1..n /\ DOMAIN longer = 1 .. n + 1
      /\ longer[n + 1] = cmd /\ \A i \in 1..n : longer[i] = stack[i]
  BY AppendProperties, LenProperties
<1> HIDE DEF longer, n
<1>2. LastAbout(longer, n + 1)
  BY <1>1 DEF LastAbout
<1>3. \A i \in 1..n : LastAbout(longer, i) <=> LastAbout(stack, i) /\ stack[i].obj # cmd.obj
  <2> SUFFICES ASSUME NEW i \in 1..n
               PROVE  LastAbout(longer, i) <=> LastAbout(stack, i) /\ stack[i].obj # cmd.obj
    OBVIOUS
  <2>1. LastAbout(longer, i) => LastAbout(stack, i) /\ stack[i].obj # cmd.obj
    BY <1>1 DEF LastAbout
  <2>2. LastAbout(stack, i) /\ stack[i].obj # cmd.obj => LastAbout(longer, i)
    BY <1>1 DEF LastAbout
  <2> QED BY <2>1, <2>2
<1>4. \A i \in 1 .. n + 1 : i \in 1..n \/ i = n + 1
  BY <1>1
<1>5. CASE cmd.obj = o
  <2>1. Ends(longer, o, op) => cmd.op = op
    BY <1>1, <1>3, <1>4, <1>5 DEF Ends
  <2>2. cmd.op = op => Ends(longer, o, op)
    BY <1>1, <1>2, <1>5 DEF Ends
  <2> QED BY <2>1, <2>2, <1>5 DEF longer
<1>6. CASE cmd.obj # o
  <2>1. Ends(longer, o, op) => Ends(stack, o, op)
    BY <1>1, <1>3, <1>4, <1>6 DEF Ends
  <2>2. Ends(stack, o, op) => Ends(longer, o, op)
    BY <1>1, <1>3, <1>6 DEF Ends
  <2> QED BY <2>1, <2>2, <1>6 DEF longer
<1> QED BY <1>5, <1>6

\* A push keeps the turns if the stack does not end with the same operation.
LEMMA AlternatingAppend ==
  ASSUME NEW stack \in Seq(Commands), NEW cmd \in Commands, Alternating(stack),
         cmd.obj \in Objects => ~Ends(stack, cmd.obj, cmd.op)
  PROVE  Alternating(Append(stack, cmd))
<1> DEFINE longer == Append(stack, cmd)
           n == Len(stack)
<1>1. /\ n \in Nat /\ DOMAIN stack = 1..n /\ DOMAIN longer = 1 .. n + 1
      /\ longer[n + 1] = cmd /\ \A i \in 1..n : longer[i] = stack[i]
  BY AppendProperties, LenProperties
<1> HIDE DEF longer, n
<1> SUFFICES ASSUME NEW i \in 1 .. n + 1, NEW j \in 1 .. n + 1,
                    longer[i].obj \in Objects, Consecutive(longer, i, j)
             PROVE  longer[i].op # longer[j].op
  BY <1>1 DEF Alternating, longer
<1>2. i \in 1..n /\ i < j
  BY <1>1 DEF Consecutive
<1>3. CASE j \in 1..n
  <2>1. Consecutive(stack, i, j)
    BY <1>1, <1>2, <1>3 DEF Consecutive
  <2> QED BY <1>1, <1>2, <1>3, <2>1 DEF Alternating
<1>4. CASE j = n + 1
  <2>1. stack[i].obj = cmd.obj /\ LastAbout(stack, i)
    BY <1>1, <1>2, <1>4 DEF Consecutive, LastAbout
  <2> QED BY <1>1, <1>2, <1>4, <2>1 DEF Ends
<1> QED BY <1>1, <1>2, <1>3, <1>4

\* A pop keeps them, and uncovers the other operation.
LEMMA AlternatingFront ==
  ASSUME NEW stack \in Seq(Commands), stack # <<>>, Alternating(stack)
  PROVE  /\ Alternating(Front(stack))
         /\ Ends(stack, Last(stack).obj, Last(stack).op)
         /\ Last(stack).obj \in Objects => ~Ends(Front(stack), Last(stack).obj, Last(stack).op)
<1> DEFINE shorter == Front(stack)
           n == Len(stack)
           cmd == Last(stack)
<1>1. /\ n \in Nat /\ n >= 1 /\ DOMAIN stack = 1..n /\ DOMAIN shorter = 1 .. n - 1
      /\ cmd = stack[n] /\ \A i \in 1 .. n - 1 : shorter[i] = stack[i]
  BY FrontLast
<1> HIDE DEF shorter, n, cmd
<1>2. Alternating(shorter)
  <2> SUFFICES ASSUME NEW i \in 1 .. n - 1, NEW j \in 1 .. n - 1,
                      shorter[i].obj \in Objects, Consecutive(shorter, i, j)
               PROVE  shorter[i].op # shorter[j].op
    BY <1>1 DEF Alternating
  <2>1. Consecutive(stack, i, j)
    BY <1>1 DEF Consecutive
  <2> QED BY <1>1, <2>1 DEF Alternating
<1>3. Ends(stack, cmd.obj, cmd.op)
  BY <1>1 DEF Ends, LastAbout
<1>4. ASSUME cmd.obj \in Objects, NEW i \in 1 .. n - 1, shorter[i].obj = cmd.obj,
             shorter[i].op = cmd.op, LastAbout(shorter, i)
      PROVE  FALSE
  <2>1. Consecutive(stack, i, n)
    BY <1>1, <1>4 DEF Consecutive, LastAbout
  <2> QED BY <1>1, <1>4, <2>1 DEF Alternating
<1> QED BY <1>1, <1>2, <1>3, <1>4 DEF Ends, shorter, cmd

\* A stack is its front and its last command.
LEMMA FrontAppendLast ==
  ASSUME NEW stack \in Seq(Commands), stack # <<>>
  PROVE  /\ Front(stack) \in Seq(Commands) /\ Last(stack) \in Commands
         /\ stack = Append(Front(stack), Last(stack))
<1> DEFINE whole == Append(Front(stack), Last(stack))
           n == Len(stack)
<1>1. /\ n \in Nat /\ n >= 1
      /\ Last(stack) \in Commands /\ Last(stack) = stack[n]
      /\ Front(stack) \in Seq(Commands) /\ Len(Front(stack)) = n - 1
      /\ \A i \in 1 .. n - 1 : Front(stack)[i] = stack[i]
  BY FrontLast
<1>2. /\ whole \in Seq(Commands) /\ Len(whole) = Len(Front(stack)) + 1
      /\ \A i \in 1..Len(Front(stack)) : whole[i] = Front(stack)[i]
      /\ whole[Len(Front(stack)) + 1] = Last(stack)
  BY <1>1, AppendProperties
<1> HIDE DEF whole, n
<1>3. Len(whole) = n /\ whole[n] = stack[n] /\ \A i \in 1 .. n - 1 : whole[i] = stack[i]
  BY <1>1, <1>2
<1>4. \A i \in 1..n : i = n \/ i \in 1 .. n - 1
  BY <1>1
<1>5. \A i \in 1..n : whole[i] = stack[i]
  BY <1>3, <1>4, Zenon
<1>6. stack = whole
  BY <1>2, <1>3, <1>5, SeqEqual DEF n
<1> QED BY <1>1, <1>6 DEF whole

\* What splice leaves of an array, whether indexOf finds o or answers -1.
LEMMA SpliceShrinks ==
  ASSUME NEW s \in Seq(Objects), NEW o \in Objects, Distinct(s)
  PROVE  /\ Splice(s, o) \in Seq(Objects) /\ Distinct(Splice(s, o))
         /\ ~Contains(Splice(s, o), o)
         /\ \A p \in Objects : Contains(Splice(s, o), p) => Contains(s, p)
<1>1. CASE Contains(s, o)
  BY <1>1, RemoveFirstProperties DEF Splice
<1>2. CASE ~Contains(s, o) /\ s = <<>>
  BY <1>2 DEF Splice
<1>3. CASE ~Contains(s, o) /\ s # <<>>
  <2> DEFINE r == Front(s)
  <2>1. /\ Len(s) \in Nat /\ Len(s) >= 1 /\ DOMAIN s = 1..Len(s)
        /\ r \in Seq(Objects) /\ Len(r) = Len(s) - 1 /\ DOMAIN r = 1 .. Len(s) - 1
        /\ \A i \in 1 .. Len(s) - 1 : r[i] = s[i]
    BY <1>3, FrontLast
  <2>2. Splice(s, o) = r
    BY <1>3 DEF Splice
  <2> HIDE DEF r
  <2>3. Distinct(r)
    BY <2>1 DEF Distinct
  <2>4. \A p : Contains(r, p) => Contains(s, p)
    BY <2>1 DEF Contains
  <2> QED BY <1>3, <2>1, <2>2, <2>3, <2>4
<1> QED BY <1>1, <1>2, <1>3

\* An object is in an array just when the array lists it.
LEMMA ListedIsContained ==
  ASSUME TypeOK, NEW k \in Kinds
  PROVE  \A p : p \in ToSet(array[k]) <=> Contains(array[k], p)
BY LenProperties DEF ToSet, Contains, TypeOK

\* SavedIsShown in terms of Contains.
Shows(k) ==
  /\ Distinct(array[k])
  /\ \A p \in Objects :
       Contains(array[k], p) => p \in scene /\ KindOf[p] = k /\ (k # "line" => p \in info)

\* SavedIsShown speaks of the kinds one by one.
LEMMA SavedIsShownByKind ==
  ASSUME TypeOK
  PROVE  SavedIsShown <=> \A k \in Kinds : Shows(k)
<1>1. \A k \in Kinds : \A p \in ToSet(array[k]) : p \in Objects
  BY LenProperties, ElementOfSeq DEF ToSet, TypeOK
<1>2. \A k \in Kinds : \A p : p \in ToSet(array[k]) <=> Contains(array[k], p)
  BY ListedIsContained
<1> QED BY <1>1, <1>2, Zenon DEF SavedIsShown, Shows

\* The same of the next state.
LEMMA SavedIsShownByKindNext ==
  ASSUME TypeOK'
  PROVE  SavedIsShown' <=> \A k \in Kinds : Shows(k)'
<1>1. \A k \in Kinds : \A p \in ToSet(array'[k]) : p \in Objects
  BY LenProperties, ElementOfSeq DEF ToSet, TypeOK
<1>2. \A k \in Kinds : \A p : p \in ToSet(array'[k]) <=> Contains(array'[k], p)
  BY LenProperties DEF ToSet, Contains, TypeOK
<1> QED BY <1>1, <1>2, Zenon DEF SavedIsShown, Shows

\* Adding an absent object lists it once, with its info, and shows it.
LEMMA AddShows ==
  ASSUME TypeOK, TypeOK', SavedIsShown, NEW o \in Objects, Add(o), ~Present(o)
  PROVE  SavedIsShown' /\ \A p \in Objects : p \in Here' <=> p \in Here \/ p = o
<1> DEFINE k == KindOf[o]
           s == array[k]
           t == Append(s, o)
<1>1. k \in Kinds /\ s \in Seq(Objects) /\ \A p \in Objects : KindOf[p] \in Kinds
  BY ObjectsAssumption DEF TypeOK
<1>2. /\ array' = [array EXCEPT ![k] = t] /\ scene' = scene \cup {o}
      /\ info' = IF k = "line" THEN info ELSE info \cup {o}
  BY DEF Add
<1>3. /\ Len(s) \in Nat /\ DOMAIN s = 1..Len(s) /\ DOMAIN t = 1 .. Len(s) + 1
      /\ Len(t) = Len(s) + 1
      /\ t[Len(s) + 1] = o /\ \A i \in 1..Len(s) : t[i] = s[i]
  BY <1>1, AppendProperties, LenProperties
<1>4. ~Contains(s, o)
  BY DEF Present
<1>5. \A q \in Kinds : Shows(q)
  BY SavedIsShownByKind
<1>6. k = KindOf[o] /\ s = array[k]
  OBVIOUS
<1> HIDE DEF s, t, k
<1>7. \A p \in Objects : Contains(t, p) <=> Contains(s, p) \/ p = o
  BY <1>3 DEF Contains
<1>8. \A q \in Kinds : array'[q] = IF q = k THEN t ELSE array[q]
  BY <1>1, <1>2 DEF TypeOK
<1>9. \A p \in Objects : p \in Here' <=> p \in Here \/ p = o
  BY <1>1, <1>6, <1>7, <1>8 DEF Here, Present
<1>10. Distinct(t)
  BY <1>1, <1>3, <1>4, <1>5, <1>6 DEF Distinct, Contains, Shows
<1>11. ASSUME NEW q \in Kinds
       PROVE  Shows(q)'
  <2>1. Shows(q)
    BY <1>5
  <2>2. CASE q = k
    BY <1>2, <1>6, <1>7, <1>8, <1>10, <2>1, <2>2 DEF Shows
  <2>3. CASE q # k
    BY <1>2, <1>8, <2>1, <2>3 DEF Shows
  <2> QED BY <2>2, <2>3
<1> QED BY <1>9, <1>11, SavedIsShownByKindNext

\* Whatever a removal takes out, the rest is still on display, and o is gone.
LEMMA RemoveShows ==
  ASSUME TypeOK, TypeOK', SavedIsShown, NEW o \in Objects,
         RemoveObject(o) \/ RemoveLineIfPresent(o)
  PROVE  SavedIsShown' /\ \A p \in Objects : p \in Here' => p \in Here /\ p # o
<1> DEFINE k == KindOf[o]
           s == array[k]
<1>1. k \in Kinds /\ s \in Seq(Objects) /\ \A p \in Objects : KindOf[p] \in Kinds
  BY ObjectsAssumption DEF TypeOK
<1>2. \A q \in Kinds : Shows(q)
  BY SavedIsShownByKind
<1>3. PICK t \in {Splice(s, o), RemoveFirst(s, o)} :
        /\ array' = [array EXCEPT ![k] = t] /\ scene' = scene \ {o}
        /\ info' = info \/ info' = info \ {o}
  BY DEF RemoveObject, RemoveLineIfPresent
<1>4. k = KindOf[o] /\ s = array[k]
  OBVIOUS
<1> HIDE DEF s, k
<1>5. \A q \in Kinds : array'[q] = IF q = k THEN t ELSE array[q]
  BY <1>1, <1>3 DEF TypeOK
<1>6. /\ Distinct(t) /\ ~Contains(t, o)
      /\ \A p \in Objects : Contains(t, p) => Contains(s, p)
  <2>1. Distinct(s)
    BY <1>1, <1>2, <1>4 DEF Shows
  <2>2. CASE t = Splice(s, o)
    BY <1>1, <2>1, <2>2, SpliceShrinks
  <2>3. CASE t = RemoveFirst(s, o) /\ Contains(s, o)
    BY <1>1, <2>1, <2>3, RemoveFirstProperties
  <2>4. CASE t = RemoveFirst(s, o) /\ ~Contains(s, o)
    BY <2>1, <2>4, RemoveFirstMissing
  <2> QED BY <1>3, <2>2, <2>3, <2>4
<1>7. \A p \in Objects : p \in Here' => p \in Here /\ p # o
  BY <1>1, <1>4, <1>5, <1>6 DEF Here, Present
<1>8. ASSUME NEW q \in Kinds
      PROVE  Shows(q)'
  <2>1. Shows(q)
    BY <1>2
  <2>2. CASE q = k
    BY <1>3, <1>4, <1>5, <1>6, <2>1, <2>2 DEF Shows
  <2>3. CASE q # k
    BY <1>3, <1>4, <1>5, <2>1, <2>3 DEF Shows
  <2> QED BY <2>2, <2>3
<1> QED BY <1>7, <1>8, SavedIsShownByKindNext

\* Whatever a clear or a load lists is on display.
LEMMA ResetShows ==
  ASSUME NEW sheet \in [Kinds -> Seq(Objects)], Reset(sheet),
         \A k \in Kinds : Distinct(sheet[k]) /\ \A i \in DOMAIN sheet[k] : KindOf[sheet[k][i]] = k
  PROVE  SavedIsShown' /\ Playable'
<1>1. SavedIsShown'
  BY DEF Reset, SavedIsShown, ToSet
<1>2. undoStack' = <<>> /\ redoStack' = <<>>
  BY DEF Reset
<1>3. Alternating(<<>>) /\ \A o, op : ~Ends(<<>>, o, op)
  BY DEF Alternating, Ends
<1> QED BY <1>1, <1>2, <1>3 DEF Playable, Plays

\* A command is recorded and nothing is left to redo.
LEMMA PlaysRecord ==
  ASSUME NEW u \in Seq(Commands), NEW r, NEW here, NEW now, Plays(u, r, here),
         NEW cmd \in Commands,
         \A p \in Objects : p # cmd.obj /\ p \in now => p \in here,
         cmd.obj \in Objects =>
           ~Ends(u, cmd.obj, cmd.op) /\ (cmd.op = "erase" => cmd.obj \notin now)
  PROVE  Plays(Append(u, cmd), <<>>, now)
<1>1. Alternating(Append(u, cmd))
  BY AlternatingAppend DEF Plays
<1>2. Alternating(<<>>) /\ \A o, op : ~Ends(<<>>, o, op)
  BY DEF Alternating, Ends
<1>3. ASSUME NEW o \in Objects, Ends(Append(u, cmd), o, "erase")
      PROVE  o \notin now
  <2>1. IF cmd.obj = o THEN cmd.op = "erase" ELSE Ends(u, o, "erase")
    BY <1>3, EndsAppend
  <2> QED BY <2>1 DEF Plays
<1> QED BY <1>1, <1>2, <1>3 DEF Plays

\* doUndo moves the last command to the redo stack.
LEMMA PlaysUndo ==
  ASSUME NEW u \in Seq(Commands), NEW r \in Seq(Commands), NEW here, NEW now,
         Plays(u, r, here), u # <<>>,
         \A p \in Objects : p # Last(u).obj /\ p \in now => p \in here,
         Last(u).op = "place" => Last(u).obj \notin now
  PROVE  Plays(Front(u), Append(r, Last(u)), now)
<1> DEFINE cmd == Last(u)
           v == Front(u)
<1>1. v \in Seq(Commands) /\ cmd \in Commands /\ u = Append(v, cmd)
  BY FrontAppendLast
<1>2. /\ Alternating(v) /\ Ends(u, cmd.obj, cmd.op)
      /\ cmd.obj \in Objects => ~Ends(v, cmd.obj, cmd.op)
  BY AlternatingFront DEF Plays
<1>3. cmd.op = "place" => cmd.obj \notin now
  OBVIOUS
<1> HIDE DEF cmd, v
<1>4. \A o, op : o # cmd.obj => (Ends(u, o, op) <=> Ends(v, o, op))
  BY <1>1, EndsAppend
<1>5. \A o, op : Ends(Append(r, cmd), o, op) <=> IF cmd.obj = o THEN cmd.op = op ELSE Ends(r, o, op)
  BY <1>1, EndsAppend
<1>6. cmd.obj \in Objects => ~Ends(r, cmd.obj, cmd.op) /\ cmd.op \in {"place", "erase"}
  <2>1. cmd.obj \in Objects => cmd.op \in {"place", "erase"}
    BY <1>1, ObjectsAssumption DEF Commands
  <2> QED BY <1>2, <2>1 DEF Plays
<1>7. Alternating(Append(r, cmd))
  BY <1>1, <1>6, AlternatingAppend DEF Plays
<1>8. ASSUME NEW o \in Objects
      PROVE  /\ Ends(v, o, "erase") => o \notin now
             /\ Ends(Append(r, cmd), o, "place") => o \notin now
             /\ \A op \in {"place", "erase"} : ~(Ends(v, o, op) /\ Ends(Append(r, cmd), o, op))
  <2>1. CASE o = cmd.obj
    BY <1>2, <1>3, <1>5, <1>6, <2>1
  <2>2. CASE o # cmd.obj
    BY <1>4, <1>5, <2>2 DEF Plays, cmd
  <2> QED BY <2>1, <2>2
<1> QED BY <1>2, <1>7, <1>8 DEF Plays, cmd, v

\* doRedo moves it back.
LEMMA PlaysRedo ==
  ASSUME NEW u \in Seq(Commands), NEW r \in Seq(Commands), NEW here, NEW now,
         Plays(u, r, here), r # <<>>,
         \A p \in Objects : p # Last(r).obj /\ p \in now => p \in here,
         Last(r).op = "erase" => Last(r).obj \notin now
  PROVE  Plays(Append(u, Last(r)), Front(r), now)
<1> DEFINE cmd == Last(r)
           v == Front(r)
<1>1. v \in Seq(Commands) /\ cmd \in Commands /\ r = Append(v, cmd)
  BY FrontAppendLast
<1>2. /\ Alternating(v) /\ Ends(r, cmd.obj, cmd.op)
      /\ cmd.obj \in Objects => ~Ends(v, cmd.obj, cmd.op)
  BY AlternatingFront DEF Plays
<1>3. cmd.op = "erase" => cmd.obj \notin now
  OBVIOUS
<1> HIDE DEF cmd, v
<1>4. \A o, op : o # cmd.obj => (Ends(r, o, op) <=> Ends(v, o, op))
  BY <1>1, EndsAppend
<1>5. \A o, op : Ends(Append(u, cmd), o, op) <=> IF cmd.obj = o THEN cmd.op = op ELSE Ends(u, o, op)
  BY <1>1, EndsAppend
<1>6. cmd.obj \in Objects => ~Ends(u, cmd.obj, cmd.op) /\ cmd.op \in {"place", "erase"}
  <2>1. cmd.obj \in Objects => cmd.op \in {"place", "erase"}
    BY <1>1, ObjectsAssumption DEF Commands
  <2> QED BY <1>2, <2>1 DEF Plays
<1>7. Alternating(Append(u, cmd))
  BY <1>1, <1>6, AlternatingAppend DEF Plays
<1>8. ASSUME NEW o \in Objects
      PROVE  /\ Ends(v, o, "place") => o \notin now
             /\ Ends(Append(u, cmd), o, "erase") => o \notin now
             /\ \A op \in {"place", "erase"} : ~(Ends(v, o, op) /\ Ends(Append(u, cmd), o, op))
  <2>1. CASE o = cmd.obj
    BY <1>2, <1>3, <1>5, <1>6, <2>1
  <2>2. CASE o # cmd.obj
    BY <1>4, <1>5, <2>2 DEF Plays, cmd
  <2> QED BY <2>1, <2>2
<1> QED BY <1>2, <1>7, <1>8 DEF Plays, cmd, v

\* What nobody mentions has no last command.
LEMMA EndsMentioned ==
  ASSUME NEW stack, NEW o, NEW op, Ends(stack, o, op)
  PROVE  o \in Mentioned(stack)
BY DEF Ends, Mentioned

\* What the handlers leave when they touch neither arrays nor stacks.
LEMMA QuietShows ==
  ASSUME LInv, UNCHANGED <<content, history>>, penLine' \in {penLine, NoObj}
  PROVE  SavedIsShown' /\ Playable' /\ StrokeUnknown'
<1>1. Here' = Here
  BY DEF Here, Present, content
<1> QED BY <1>1 DEF LInv, SavedIsShown, Playable, StrokeUnknown, content, history

\* record() of an operation just done to o.
LEMMA RecordShows ==
  ASSUME TypeOK, Playable, NEW op, NEW o, [op |-> op, obj |-> o] \in Commands, Record(op, o),
         \A p \in Objects : p # o /\ p \in Here' => p \in Here,
         o \in Objects => ~Ends(undoStack, o, op) /\ (op = "erase" => o \notin Here')
  PROVE  /\ Playable'
         /\ Mentioned(undoStack') \cup Mentioned(redoStack') \subseteq Mentioned(undoStack) \cup {o}
<1> DEFINE cmd == [op |-> op, obj |-> o]
<1>1. undoStack' = Append(undoStack, cmd) /\ redoStack' = <<>>
  BY AppendIsConcat DEF Record, RecordAll, TypeOK
<1>2. cmd \in Commands /\ cmd.op = op /\ cmd.obj = o /\ undoStack \in Seq(Commands)
  BY DEF TypeOK
<1> HIDE DEF cmd
<1>3. Plays(Append(undoStack, cmd), <<>>, Here')
  BY <1>2, PlaysRecord DEF Playable
<1>4. Mentioned(Append(undoStack, cmd)) = Mentioned(undoStack) \cup {o} /\ Mentioned(<<>>) = {}
  BY <1>2, MentionedAppend DEF Mentioned
<1> QED BY <1>1, <1>3, <1>4 DEF Playable

\* Every action keeps the invariant.
LEMMA ShowsStep ==
  ASSUME LInv, Next, TypeOK'
  PROVE  SavedIsShown' /\ Playable' /\ StrokeUnknown'
<1> DEFINE Goal == SavedIsShown' /\ Playable' /\ StrokeUnknown'
<1>0. /\ TypeOK /\ Safe /\ SavedIsShown /\ Playable /\ StrokeUnknown
      /\ undoStack \in Seq(Commands) /\ redoStack \in Seq(Commands)
      /\ \A p \in Objects : p \in Here <=> Present(p)
  BY PairedFacts DEF LInv, IInv, TypeOK
<1>1. ASSUME Undo
      PROVE  Goal
  <2> DEFINE cmd == Last(undoStack)
  <2>1. /\ undoStack # <<>> /\ UndoCmd(cmd) /\ cmd \in Commands
        /\ undoStack' = Front(undoStack) /\ redoStack' = Append(redoStack, cmd)
        /\ penLine' = penLine
    BY <1>0, <1>1, FrontLast DEF Undo, ui
  <2>2. Ends(undoStack, cmd.obj, cmd.op)
    BY <1>0, <2>1, AlternatingFront DEF Playable, Plays
  <2>3. /\ SavedIsShown' /\ \A p \in Objects : p # cmd.obj /\ p \in Here' => p \in Here
        /\ cmd.op = "place" => cmd.obj \notin Here'
    <3> HIDE DEF cmd
    <3>1. CASE cmd.op = "place"
      <4>1. RemoveObject(cmd.obj) /\ cmd.obj \in Objects
        BY <2>1, <3>1 DEF UndoCmd, Commands
      <4> QED BY <1>0, <3>1, <4>1, RemoveShows
    <3>2. CASE cmd.op = "erase"
      <4>1. Add(cmd.obj) /\ cmd.obj \in Objects
        BY <2>1, <3>2 DEF UndoCmd, Commands
      <4>2. ~Present(cmd.obj)
        BY <1>0, <2>2, <3>2, <4>1 DEF Playable, Plays
      <4> QED BY <1>0, <3>2, <4>1, <4>2, AddShows
    <3>3. CASE cmd.op = "fill"
      <4>1. UNCHANGED content
        BY <2>1, <3>3 DEF UndoCmd
      <4> QED BY <1>0, <3>3, <4>1 DEF SavedIsShown, Here, Present, content
    <3> QED BY <2>1, <3>1, <3>2, <3>3 DEF Commands
  <2>4. Playable'
    <3>1. Plays(Front(undoStack), Append(redoStack, Last(undoStack)), Here')
      BY <1>0, <2>1, <2>3, PlaysUndo DEF Playable
    <3> QED BY <2>1, <3>1 DEF Playable
  <2>5. StrokeUnknown'
    <3>1. /\ Mentioned(Front(undoStack)) \subseteq Mentioned(undoStack)
          /\ cmd.obj \in Mentioned(undoStack)
          /\ Mentioned(Append(redoStack, cmd)) = Mentioned(redoStack) \cup {cmd.obj}
      BY <1>0, <2>1, MentionedFront, MentionedAppend
    <3> QED BY <1>0, <2>1, <3>1 DEF StrokeUnknown
  <2> QED BY <2>3, <2>4, <2>5
<1>2. ASSUME Redo
      PROVE  Goal
  <2> DEFINE cmd == Last(redoStack)
  <2>1. /\ redoStack # <<>> /\ RedoCmd(cmd) /\ cmd \in Commands
        /\ redoStack' = Front(redoStack) /\ undoStack' = Append(undoStack, cmd)
        /\ penLine' = penLine
    BY <1>0, <1>2, FrontLast DEF Redo, ui
  <2>2. Ends(redoStack, cmd.obj, cmd.op)
    BY <1>0, <2>1, AlternatingFront DEF Playable, Plays
  <2>3. /\ SavedIsShown' /\ \A p \in Objects : p # cmd.obj /\ p \in Here' => p \in Here
        /\ cmd.op = "erase" => cmd.obj \notin Here'
    <3> HIDE DEF cmd
    <3>1. CASE cmd.op = "erase"
      <4>1. (RemoveObject(cmd.obj) \/ RemoveLineIfPresent(cmd.obj)) /\ cmd.obj \in Objects
        BY <2>1, <3>1 DEF RedoCmd, Commands
      <4> QED BY <1>0, <3>1, <4>1, RemoveShows
    <3>2. CASE cmd.op = "place"
      <4>1. Add(cmd.obj) /\ cmd.obj \in Objects
        BY <2>1, <3>2 DEF RedoCmd, Commands
      <4>2. ~Present(cmd.obj)
        BY <1>0, <2>2, <3>2, <4>1 DEF Playable, Plays
      <4> QED BY <1>0, <3>2, <4>1, <4>2, AddShows
    <3>3. CASE cmd.op = "fill"
      <4>1. UNCHANGED content
        BY <2>1, <3>3 DEF RedoCmd
      <4> QED BY <1>0, <3>3, <4>1 DEF SavedIsShown, Here, Present, content
    <3> QED BY <2>1, <3>1, <3>2, <3>3 DEF Commands
  <2>4. Playable'
    <3>1. Plays(Append(undoStack, Last(redoStack)), Front(redoStack), Here')
      BY <1>0, <2>1, <2>3, PlaysRedo DEF Playable
    <3> QED BY <2>1, <3>1 DEF Playable
  <2>5. StrokeUnknown'
    <3>1. /\ Mentioned(Front(redoStack)) \subseteq Mentioned(redoStack)
          /\ cmd.obj \in Mentioned(redoStack)
          /\ Mentioned(Append(undoStack, cmd)) = Mentioned(undoStack) \cup {cmd.obj}
      BY <1>0, <2>1, MentionedFront, MentionedAppend
    <3> QED BY <1>0, <2>1, <3>1 DEF StrokeUnknown
  <2> QED BY <2>3, <2>4, <2>5
<1>3. ASSUME DoFill
      PROVE  Goal
  <2>1. /\ Record("fill", NoObj) /\ [op |-> "fill", obj |-> NoObj] \in Commands
        /\ UNCHANGED <<content, penLine>>
    BY <1>3 DEF DoFill, ui, Commands
  <2>2. Here' = Here /\ SavedIsShown'
    BY <1>0, <2>1 DEF Here, Present, content, SavedIsShown
  <2>3. /\ Playable'
        /\ Mentioned(undoStack') \cup Mentioned(redoStack') \subseteq Mentioned(undoStack) \cup {NoObj}
    BY <1>0, <2>1, <2>2, RecordShows, ObjectsAssumption
  <2> QED BY <1>0, <2>1, <2>2, <2>3 DEF StrokeUnknown
<1>4. ASSUME NEW sheet \in [Kinds -> Seq(Objects)], Reset(sheet),
             \A k \in Kinds : Distinct(sheet[k]) /\ \A i \in DOMAIN sheet[k] : KindOf[sheet[k][i]] = k
      PROVE  Goal
  BY <1>4, ResetShows DEF StrokeUnknown, Mentioned, Reset
<1>5. ASSUME DoClear
      PROVE  Goal
  <2>1. /\ EmptySheet \in [Kinds -> Seq(Objects)]
        /\ \A k \in Kinds : Distinct(EmptySheet[k])
                            /\ \A i \in DOMAIN EmptySheet[k] : KindOf[EmptySheet[k][i]] = k
    BY EmptySeq DEF EmptySheet, Distinct
  <2> QED BY <1>4, <1>5, <2>1 DEF DoClear
<1>6. ASSUME NEW sheet \in Sheets, LoadScene(sheet)
      PROVE  Goal
  BY <1>4, <1>6, SheetsAssumption DEF LoadScene
<1>7. ASSUME NEW o \in Objects, PlaceBlock(o) \/ SecondClick(o) \/ CommitText(o)
      PROVE  Goal
  <2>1. Fresh(o) /\ Add(o) /\ Record("place", o) /\ penLine' = penLine
    BY <1>7 DEF PlaceBlock, SecondClick, CommitText, ui
  <2>2. /\ ~Present(o) /\ o # penLine /\ ~Ends(undoStack, o, "place")
        /\ [op |-> "place", obj |-> o] \in Commands
    BY <2>1, EndsMentioned DEF Fresh, Commands
  <2>3. SavedIsShown' /\ \A p \in Objects : p \in Here' <=> p \in Here \/ p = o
    BY <1>0, <2>1, <2>2, AddShows
  <2>4. /\ Playable'
        /\ Mentioned(undoStack') \cup Mentioned(redoStack') \subseteq Mentioned(undoStack) \cup {o}
    BY <1>0, <2>1, <2>2, <2>3, RecordShows
  <2> QED BY <1>0, <2>1, <2>2, <2>3, <2>4 DEF StrokeUnknown
<1>8. ASSUME NEW o \in Objects, EraseAt(o)
      PROVE  Goal
  <2>1. /\ penLine = NoObj /\ Present(o)
        /\ RemoveObject(o) /\ Record("erase", o) /\ UNCHANGED penLine
    BY <1>8 DEF EraseAt, CanvasFree, ui
  <2>2. SavedIsShown' /\ \A p \in Objects : p \in Here' => p \in Here /\ p # o
    BY <1>0, <2>1, RemoveShows
  <2>3. [op |-> "erase", obj |-> o] \in Commands /\ ~Ends(undoStack, o, "erase")
    BY <1>0, <2>1 DEF Commands, Playable, Plays
  <2>4. Playable'
    BY <1>0, <2>1, <2>2, <2>3, RecordShows
  <2> QED BY <2>1, <2>2, <2>4 DEF StrokeUnknown
<1>9. ASSUME NEW o \in Objects, PencilDown(o)
      PROVE  Goal
  <2>1. /\ Fresh(o) /\ Add(o) /\ penLine' = o /\ UNCHANGED <<undoStack, redoStack>>
    BY <1>9 DEF PencilDown, history
  <2>2. /\ ~Present(o) /\ \A op : ~Ends(undoStack, o, op) /\ ~Ends(redoStack, o, op)
        /\ o \notin Mentioned(undoStack) \cup Mentioned(redoStack)
    BY <2>1, EndsMentioned DEF Fresh
  <2>3. SavedIsShown' /\ \A p \in Objects : p \in Here' <=> p \in Here \/ p = o
    BY <1>0, <2>1, <2>2, AddShows
  <2>4. Plays(undoStack, redoStack, Here')
    BY <1>0, <2>2, <2>3 DEF Playable, Plays
  <2> QED BY <2>1, <2>2, <2>3, <2>4 DEF Playable, StrokeUnknown
<1>10. ASSUME PencilUp
       PROVE  Goal
  <2>1. /\ penLine # NoObj /\ penLine \in Objects /\ Record("place", penLine) /\ penLine' = NoObj
        /\ UNCHANGED content
    BY <1>0, <1>10 DEF PencilUp, TypeOK
  <2>2. /\ Here' = Here /\ SavedIsShown' /\ [op |-> "place", obj |-> penLine] \in Commands
        /\ ~Ends(undoStack, penLine, "place")
    BY <1>0, <2>1, EndsMentioned DEF Here, Present, content, SavedIsShown, Commands, StrokeUnknown
  <2>3. Playable'
    BY <1>0, <2>1, <2>2, RecordShows
  <2> QED BY <2>1, <2>2, <2>3 DEF StrokeUnknown
<1>11. ASSUME NEW o \in Objects, PencilUpErasing(o)
       PROVE  Goal
  <2> DEFINE first == [op |-> "place", obj |-> penLine]
             second == [op |-> "erase", obj |-> o]
  <2>1. /\ penLine # NoObj /\ penLine \in Objects /\ Present(o) /\ RemoveObject(o)
        /\ penLine' = NoObj
        /\ undoStack' = undoStack \o <<first, second>> /\ redoStack' = <<>>
    BY <1>0, <1>11 DEF PencilUpErasing, RecordAll, TypeOK
  <2>2. first \in Commands /\ second \in Commands /\ Append(undoStack, first) \in Seq(Commands)
    BY <1>0, <2>1, AppendProperties DEF Commands
  <2>3. undoStack' = Append(Append(undoStack, first), second)
    BY <1>0, <2>1, <2>2
  <2>4. SavedIsShown' /\ \A p \in Objects : p \in Here' => p \in Here /\ p # o
    BY <1>0, <2>1, RemoveShows
  <2>5. ~Ends(undoStack, penLine, "place") /\ ~Ends(undoStack, o, "erase") /\ o \in Here
    BY <1>0, <2>1, EndsMentioned DEF StrokeUnknown, Playable, Plays
  <2>6. first.op = "place" /\ first.obj = penLine /\ second.op = "erase" /\ second.obj = o
    OBVIOUS
  <2> HIDE DEF first, second
  <2>7. Plays(Append(undoStack, first), <<>>, Here)
    BY <1>0, <2>2, <2>5, <2>6, PlaysRecord DEF Playable
  <2>8. ~Ends(Append(undoStack, first), o, "erase")
    BY <1>0, <2>2, <2>5, <2>6, EndsAppend
  <2>9. Plays(Append(Append(undoStack, first), second), <<>>, Here')
    BY <2>2, <2>4, <2>6, <2>7, <2>8, PlaysRecord
  <2> QED BY <2>1, <2>3, <2>4, <2>9 DEF Playable, StrokeUnknown
<1>12. ASSUME CancelDiv
       PROVE  Goal
  <2>1. /\ activeDiv \in Objects /\ RemoveObject(activeDiv)
        /\ UNCHANGED <<undoStack, redoStack, penLine>>
    BY <1>0, <1>12 DEF CancelDiv, history, TypeOK
  <2>2. SavedIsShown' /\ \A p \in Objects : p \in Here' => p \in Here
    BY <1>0, <2>1, RemoveShows
  <2>3. Plays(undoStack, redoStack, Here')
    BY <1>0, <2>2 DEF Playable, Plays
  <2> QED BY <1>0, <2>1, <2>2, <2>3 DEF Playable, StrokeUnknown
<1>13. CASE \/ \E t \in Tools : DoTool(t)
            \/ \E hit \in Objects \cup {NoObj}, shift \in BOOLEAN : SelectClick(hit, shift)
            \/ Escape \/ FirstClick \/ SecondClickTooSmall \/ TextClick \/ PencilLeave
            \/ CancelText \/ CommitDiv \/ LoadFails
  <2>1. UNCHANGED <<content, history>> /\ penLine' \in {penLine, NoObj}
    BY <1>13 DEF DoTool, SelectClick, Escape, FirstClick, SecondClickTooSmall, TextClick,
                 PencilLeave, CancelText, CommitDiv, LoadFails, content, history, ui
  <2> QED BY <2>1, QuietShows
<1> QED BY <1>1, <1>2, <1>3, <1>5, <1>6, <1>7, <1>8, <1>9, <1>10, <1>11, <1>12, <1>13 DEF Next

\* The second strengthening is inductive.
LEMMA ShowsInvariance == Spec => []LInv
<1>1. Init => SavedIsShown /\ Playable /\ StrokeUnknown
  <2> SUFFICES ASSUME Init PROVE SavedIsShown /\ Playable /\ StrokeUnknown
    OBVIOUS
  <2>1. SavedIsShown
    BY DEF Init, SavedIsShown, EmptySheet, Distinct, ToSet
  <2>2. Alternating(<<>>) /\ \A o, op : ~Ends(<<>>, o, op)
    BY DEF Alternating, Ends
  <2> QED BY <2>1, <2>2 DEF Init, Playable, Plays, StrokeUnknown
<1>2. LInv /\ IInv' /\ [Next]_vars => LInv'
  <2> SUFFICES ASSUME LInv, IInv', [Next]_vars PROVE LInv'
    OBVIOUS
  <2>1. CASE Next
    BY <2>1, ShowsStep DEF LInv, IInv
  <2>2. CASE UNCHANGED vars
    <3>1. UNCHANGED <<content, history>> /\ penLine' = penLine
      BY <2>2 DEF vars, ui
    <3> QED BY <3>1, QuietShows DEF LInv
  <2> QED BY <2>1, <2>2
<1>3. IInv /\ SavedIsShown /\ Playable /\ StrokeUnknown => LInv
  BY DEF LInv
<1> QED BY <1>1, <1>2, <1>3, Invariance, PTL DEF Spec

\* Whatever was cancelled, undone, loaded late or left half drawn: every object
\* that serializeScene writes is listed once, has its info and is on display.
THEOREM SavedObjectsAreShown == Spec => []SavedIsShown
BY ShowsInvariance, PTL DEF LInv
-----------------------------------------------------------------------------
\* The stacks of closures implement snapshots

\* PresentAfter and Snapshots with the objects present as a parameter.
After(stack, here, i, removedBy) ==
  {o \in Tracked :
     LET about == {j \in i..Len(stack) : stack[j].obj = o} IN
     IF about = {} THEN o \in here
     ELSE \E j \in about : (\A k \in about : j <= k) /\ stack[j].op # removedBy}

Snaps(stack, here, removedBy) == [i \in DOMAIN stack |-> After(stack, here, i, removedBy)]

\* The document of EditHistory, by the arrays and by the display.
Doc(here) == {p \in Tracked : p \in here}

Shown == {o \in Tracked : o \in scene}

\* They are those of the specification, before a step and after it.
LEMMA SnapshotsAreSnaps ==
  ASSUME NEW stack, NEW removedBy
  PROVE  Snapshots(stack, removedBy) = Snaps(stack, Here, removedBy)
<1>1. \A o \in Tracked : o \in Here <=> Present(o)
  BY DEF Tracked, Here
<1>2. ASSUME NEW i
      PROVE  PresentAfter(stack, i, removedBy) = After(stack, Here, i, removedBy)
  BY <1>1 DEF PresentAfter, After
<1> QED BY <1>2 DEF Snapshots, Snaps

\* The same of the next state.
LEMMA SnapshotsAreSnapsNext ==
  /\ Snapshots(undoStack, "place")' = Snaps(undoStack', Here', "place")
  /\ Snapshots(redoStack, "erase")' = Snaps(redoStack', Here', "erase")
<1>1. \A o \in Tracked : o \in Here' <=> Present(o)'
  BY DEF Tracked, Here
<1>2. ASSUME NEW i
      PROVE  /\ PresentAfter(undoStack, i, "place")' = After(undoStack', Here', i, "place")
             /\ PresentAfter(redoStack, i, "erase")' = After(redoStack', Here', i, "erase")
  BY <1>1 DEF PresentAfter, After
<1> QED BY <1>2 DEF Snapshots, Snaps

\* A longer stack keeps its snapshots and gains the one before the new command,
\* provided the command did to its object what its operation says.
LEMMA SnapsAppend ==
  ASSUME NEW stack \in Seq(Commands), NEW cmd \in Commands, NEW here, NEW now, NEW removedBy,
         \A p \in Tracked : p # cmd.obj => (p \in here <=> p \in now),
         cmd.obj \in Tracked => (cmd.obj \in here <=> cmd.op # removedBy)
  PROVE  Snaps(Append(stack, cmd), now, removedBy)
           = Append(Snaps(stack, here, removedBy), Doc(here))
<1> DEFINE longer == Append(stack, cmd)
           n == Len(stack)
<1>1. /\ n \in Nat /\ DOMAIN stack = 1..n /\ DOMAIN longer = 1 .. n + 1 /\ Len(longer) = n + 1
      /\ longer[n + 1] = cmd /\ \A i \in 1..n : longer[i] = stack[i]
  BY AppendProperties, LenProperties
<1> HIDE DEF longer
<1>2. ASSUME NEW i \in 1..n
      PROVE  After(longer, now, i, removedBy) = After(stack, here, i, removedBy)
  <2> SUFFICES ASSUME NEW o \in Tracked
               PROVE  o \in After(longer, now, i, removedBy) <=> o \in After(stack, here, i, removedBy)
    BY DEF After
  <2> DEFINE old == {j \in i..n : stack[j].obj = o}
             new == {j \in i .. n + 1 : longer[j].obj = o}
  <2>1. /\ o \in After(stack, here, i, removedBy)
             <=> IF old = {} THEN o \in here
                 ELSE \E j \in old : (\A k \in old : j <= k) /\ stack[j].op # removedBy
        /\ o \in After(longer, now, i, removedBy)
             <=> IF new = {} THEN o \in now
                 ELSE \E j \in new : (\A k \in new : j <= k) /\ longer[j].op # removedBy
    BY <1>1 DEF After
  <2>2. new = IF cmd.obj = o THEN old \cup {n + 1} ELSE old
    BY <1>1
  <2>3. old \subseteq 1..n
    BY <1>1
  <2> HIDE DEF old, new, n
  <2>4. \A j \in old : longer[j].op = stack[j].op
    BY <1>1, <2>3
  <2>5. CASE cmd.obj # o
    BY <2>1, <2>2, <2>4, <2>5
  <2>6. CASE cmd.obj = o /\ old = {}
    <3>1. new = {n + 1}
      BY <2>2, <2>6
    <3>2. o \in After(longer, now, i, removedBy) <=> longer[n + 1].op # removedBy
      BY <1>1, <2>1, <3>1
    <3> QED BY <1>1, <2>1, <2>6, <3>2
  <2>7. CASE cmd.obj = o /\ old # {}
    <3>1. \A k \in old : k \in Nat /\ k < n + 1
      BY <1>1, <2>3
    <3>2. new = old \cup {n + 1} /\ new # {}
      BY <2>2, <2>7
    <3>3. \A j \in old : (\A k \in new : j <= k) <=> (\A k \in old : j <= k)
      BY <1>1, <3>1, <3>2
    <3>4. ~ \A k \in new : n + 1 <= k
      BY <1>1, <2>7, <3>1, <3>2
    <3> QED BY <2>1, <2>4, <2>7, <3>2, <3>3, <3>4
  <2> QED BY <2>5, <2>6, <2>7
<1>3. After(longer, now, n + 1, removedBy) = Doc(here)
  <2> SUFFICES ASSUME NEW o \in Tracked
               PROVE  o \in After(longer, now, n + 1, removedBy) <=> o \in here
    BY DEF After, Doc
  <2> DEFINE new == {j \in n + 1 .. n + 1 : longer[j].obj = o}
  <2>1. o \in After(longer, now, n + 1, removedBy)
          <=> IF new = {} THEN o \in now
              ELSE \E j \in new : (\A k \in new : j <= k) /\ longer[j].op # removedBy
    BY <1>1 DEF After
  <2>2. new = IF cmd.obj = o THEN {n + 1} ELSE {}
    BY <1>1
  <2> HIDE DEF new, n
  <2> QED BY <1>1, <2>1, <2>2
<1> DEFINE s == Snaps(stack, here, removedBy)
           d == Doc(here)
<1>d. d \in SUBSET Tracked
  BY DEF Doc
<1>4. /\ s \in Seq(SUBSET Tracked) /\ Len(s) = n
      /\ Snaps(longer, now, removedBy) \in Seq(SUBSET Tracked)
      /\ Len(Snaps(longer, now, removedBy)) = n + 1
  <2>1. /\ \A i : After(stack, here, i, removedBy) \in SUBSET Tracked
        /\ \A i : After(longer, now, i, removedBy) \in SUBSET Tracked
    BY DEF After
  <2> HIDE DEF n
  <2>2. /\ s = [i \in 1..n |-> After(stack, here, i, removedBy)]
        /\ Snaps(longer, now, removedBy) = [i \in 1 .. n + 1 |-> After(longer, now, i, removedBy)]
    BY <1>1 DEF Snaps
  <2> QED BY <1>1, <2>1, <2>2, IsASeq
<1>5. /\ Append(s, d) \in Seq(SUBSET Tracked) /\ Len(Append(s, d)) = n + 1
      /\ \A i \in 1..n : Append(s, d)[i] = s[i]
      /\ Append(s, d)[n + 1] = d
  BY <1>4, <1>d, AppendProperties
<1>6. ASSUME NEW i \in 1 .. n + 1
      PROVE  Snaps(longer, now, removedBy)[i] = Append(s, d)[i]
  <2>1. Snaps(longer, now, removedBy)[i] = After(longer, now, i, removedBy)
    BY <1>1 DEF Snaps
  <2>2. CASE i \in 1..n
    <3>1. s[i] = After(stack, here, i, removedBy)
      BY <1>1, <2>2 DEF Snaps
    <3> QED BY <1>2, <1>5, <2>1, <2>2, <3>1
  <2>3. CASE i = n + 1
    BY <1>3, <1>5, <2>1, <2>3
  <2>4. i \in 1..n \/ i = n + 1
    BY <1>1
  <2> QED BY <2>2, <2>3, <2>4
<1> HIDE DEF s, d
<1> QED BY <1>4, <1>5, <1>6, SeqEqual DEF s, d, longer

\* What is on display of the tracked objects is what the arrays list.
LEMMA ShownIsHere ==
  ASSUME SavedIsShown, ShownIsSaved
  PROVE  Shown = Doc(Here)
<1>1. \A p \in Tracked : p \in Objects /\ p \in Paired /\ KindOf[p] \in Kinds
  BY DEF Tracked, Paired, Kinds
<1>2. \A p \in Tracked : p \in scene => p \in Here
  BY <1>1 DEF ShownIsSaved, Here
<1>3. ASSUME NEW p \in Tracked, p \in Here
      PROVE  p \in scene
  <2>1. Contains(array[KindOf[p]], p)
    BY <1>3 DEF Here, Present
  <2>2. p \in ToSet(array[KindOf[p]])
    BY <2>1 DEF Contains, ToSet
  <2> QED BY <1>1, <2>2 DEF SavedIsShown
<1> QED BY <1>2, <1>3 DEF Shown, Doc

\* A command about a tracked object says where the object is before it is
\* undone or redone.
LEMMA TrackedPaired ==
  \A p \in Tracked : p \in Objects /\ p \in Paired /\ KindOf[p] # "line" /\ KindOf[p] # "div" /\ p # NoObj
BY ObjectsAssumption DEF Tracked, Paired

\* What Append built, Front and Last take apart.
LEMMA FrontLastOfAppend ==
  ASSUME NEW S, NEW s \in Seq(S), NEW d \in S
  PROVE  Append(s, d) # <<>> /\ Last(Append(s, d)) = d /\ Front(Append(s, d)) = s
<1> DEFINE t == Append(s, d)
           n == Len(s)
<1>1. /\ n \in Nat /\ t \in Seq(S) /\ Len(t) = n + 1
      /\ t[n + 1] = d /\ \A i \in 1..n : t[i] = s[i]
  BY AppendProperties, LenProperties
<1>2. t # <<>>
  BY <1>1, EmptySeq
<1> HIDE DEF t
<1>3. /\ Last(t) = t[Len(t)] /\ Front(t) \in Seq(S) /\ Len(Front(t)) = Len(t) - 1
      /\ \A i \in 1 .. Len(t) - 1 : Front(t)[i] = t[i]
  BY <1>1, <1>2, FrontLast
<1>4. Len(Front(t)) = n /\ \A i \in 1..n : Front(t)[i] = s[i]
  BY <1>1, <1>3
<1>5. Front(t) = s
  BY <1>3, <1>4, SeqEqual
<1> QED BY <1>1, <1>2, <1>3, <1>5 DEF t

\* Snapshots are sequences of documents.
LEMMA SnapsType ==
  ASSUME NEW stack \in Seq(Commands), NEW here, NEW removedBy
  PROVE  /\ Snaps(stack, here, removedBy) \in Seq(SUBSET Tracked)
         /\ Len(Snaps(stack, here, removedBy)) = Len(stack)
<1>1. Len(stack) \in Nat /\ DOMAIN stack = 1..Len(stack)
  BY LenProperties
<1>2. \A i : After(stack, here, i, removedBy) \in SUBSET Tracked
  BY DEF After
<1> QED BY <1>1, <1>2 DEF Snaps

\* Empty stacks have none.
LEMMA SnapsEmpty ==
  ASSUME NEW here, NEW removedBy
  PROVE  Snaps(<<>>, here, removedBy) = <<>>
<1>1. /\ Snaps(<<>>, here, removedBy) \in Seq(SUBSET Tracked)
      /\ Len(Snaps(<<>>, here, removedBy)) = 0
  BY SnapsType, EmptySeq
<1> QED BY <1>1, EmptySeq

\* Playing cmd, undone by removing or redone by removing, takes the tracked
\* objects from here to now.
Toggles(cmd, here, now, removedBy) ==
  /\ \A p \in Tracked : p # cmd.obj => (p \in here <=> p \in now)
  /\ cmd.obj \in Tracked =>
       /\ cmd.op = removedBy <=> cmd.obj \in here
       /\ ~(cmd.obj \in here <=> cmd.obj \in now)

\* What an undo or a redo does to the snapshots of both stacks.
LEMMA SnapsMove ==
  ASSUME NEW from \in Seq(Commands), from # <<>>, NEW to \in Seq(Commands), NEW here, NEW now,
         NEW fromOp \in {"place", "erase"}, NEW toOp \in {"place", "erase"}, fromOp # toOp,
         Toggles(Last(from), here, now, fromOp)
  PROVE  /\ Snaps(from, here, fromOp) # <<>>
         /\ Last(Snaps(from, here, fromOp)) = Doc(now)
         /\ Front(Snaps(from, here, fromOp)) = Snaps(Front(from), now, fromOp)
         /\ Snaps(Append(to, Last(from)), now, toOp)
              = Append(Snaps(to, here, toOp), Doc(here))
<1> DEFINE cmd == Last(from)
           v == Front(from)
           d == Doc(now)
<1>1. v \in Seq(Commands) /\ cmd \in Commands /\ from = Append(v, cmd)
  BY FrontAppendLast
<1>2. /\ \A p \in Tracked : p # cmd.obj => (p \in here <=> p \in now)
      /\ cmd.obj \in Tracked => (cmd.op = fromOp <=> cmd.obj \in here)
      /\ cmd.obj \in Tracked => ~(cmd.obj \in here <=> cmd.obj \in now)
      /\ cmd.obj \in Tracked => cmd.op \in {"place", "erase"}
  BY <1>1, TrackedPaired DEF Commands, Toggles
<1> HIDE DEF cmd, v
<1>3. cmd.obj \in Tracked => (cmd.obj \in now <=> cmd.op # fromOp)
  BY <1>2
<1>4. cmd.obj \in Tracked => (cmd.obj \in here <=> cmd.op # toOp)
  BY <1>2
<1>5. Snaps(Append(v, cmd), here, fromOp) = Append(Snaps(v, now, fromOp), d)
  <2>1. \A p \in Tracked : p # cmd.obj => (p \in now <=> p \in here)
    BY <1>2
  <2> QED BY <1>1, <1>3, <2>1, SnapsAppend
<1>6. Snaps(Append(to, cmd), now, toOp) = Append(Snaps(to, here, toOp), Doc(here))
  BY <1>1, <1>2, <1>4, SnapsAppend
<1>7. Snaps(v, now, fromOp) \in Seq(SUBSET Tracked) /\ d \in SUBSET Tracked
  BY <1>1, SnapsType DEF Doc
<1> DEFINE s == Snaps(v, now, fromOp)
<1>8. Append(s, d) # <<>> /\ Last(Append(s, d)) = d /\ Front(Append(s, d)) = s
  BY <1>7, FrontLastOfAppend
<1>9. /\ Snaps(from, here, fromOp) # <<>> /\ Last(Snaps(from, here, fromOp)) = d
      /\ Front(Snaps(from, here, fromOp)) = s
  BY <1>1, <1>5, <1>8
<1> QED BY <1>6, <1>9 DEF cmd, v

\* The state of EditHistory under the refinement mapping.
LEMMA Mapped ==
  LInv => /\ Shown = Doc(Here)
          /\ Snapshots(undoStack, "place") = Snaps(undoStack, Here, "place")
          /\ Snapshots(redoStack, "erase") = Snaps(redoStack, Here, "erase")
          /\ TypeOK /\ Safe
BY ShownIsHere, SnapshotsAreSnaps DEF LInv, IInv, Safe

\* The same of the next state.
LEMMA MappedNext ==
  LInv' => /\ Shown' = Doc(Here')
           /\ Snapshots(undoStack, "place")' = Snaps(undoStack', Here', "place")
           /\ Snapshots(redoStack, "erase")' = Snaps(redoStack', Here', "erase")
<1>1. LInv' => (Shown = Doc(Here))'
  <2>1. LInv => Shown = Doc(Here)
    BY Mapped
  <2> QED BY <2>1, PTL
<1> QED BY <1>1, SnapshotsAreSnapsNext

\* record() is an edit.
LEMMA RecordIsEdit ==
  ASSUME LInv, LInv', NEW op, NEW o, [op |-> op, obj |-> o] \in Commands, Record(op, o),
         \A p \in Tracked : p # o => (p \in Here <=> p \in Here'),
         o \in Tracked => (o \in Here <=> op # "place")
  PROVE  History!Edit
<1> DEFINE cmd == [op |-> op, obj |-> o]
<1>1. undoStack' = Append(undoStack, cmd) /\ redoStack' = <<>> /\ undoStack \in Seq(Commands)
  BY AppendIsConcat DEF Record, RecordAll, TypeOK, LInv, IInv
<1>2. cmd \in Commands /\ cmd.op = op /\ cmd.obj = o
  OBVIOUS
<1> HIDE DEF cmd
<1>3. Snaps(Append(undoStack, cmd), Here', "place")
        = Append(Snaps(undoStack, Here, "place"), Doc(Here))
  BY <1>1, <1>2, SnapsAppend
<1>4. Snapshots(undoStack, "place")' = Append(Snapshots(undoStack, "place"), Shown)
  BY <1>1, <1>3, Mapped, MappedNext
<1>5. Snapshots(redoStack, "erase")' = <<>>
  BY <1>1, MappedNext, SnapsEmpty
<1> QED BY <1>4, <1>5, Zenon DEF History!Edit, Shown

\* An action that leaves the tracked objects and the stacks alone stutters.
LEMMA QuietStutters ==
  ASSUME LInv, LInv', UNCHANGED history, \A p \in Tracked : p \in Here' <=> p \in Here
  PROVE  UNCHANGED History!vars
<1>1. Shown' = Shown
  BY Mapped, MappedNext DEF Doc
<1>2. /\ \A i : After(undoStack, Here', i, "place") = After(undoStack, Here, i, "place")
      /\ \A i : After(redoStack, Here', i, "erase") = After(redoStack, Here, i, "erase")
  BY DEF After
<1>3. /\ Snaps(undoStack, Here', "place") = Snaps(undoStack, Here, "place")
      /\ Snaps(redoStack, Here', "erase") = Snaps(redoStack, Here, "erase")
  BY <1>2 DEF Snaps
<1>4. /\ Snapshots(undoStack, "place")' = Snapshots(undoStack, "place")
      /\ Snapshots(redoStack, "erase")' = Snapshots(redoStack, "erase")
  BY <1>3, Mapped, MappedNext DEF history
<1> QED BY <1>1, <1>4, Zenon DEF History!vars, Shown

\* A clear or a load starts a new line of snapshots.
LEMMA ResetIsReset ==
  ASSUME LInv', undoStack' = <<>>, redoStack' = <<>>
  PROVE  History!Reset
<1>1. Snapshots(undoStack, "place")' = <<>> /\ Snapshots(redoStack, "erase")' = <<>>
  BY MappedNext, SnapsEmpty
<1> QED BY <1>1 DEF History!Reset

\* doUndo goes back along the line.
LEMMA UndoIsUndo ==
  ASSUME LInv, LInv', Undo
  PROVE  History!Undo
<1> DEFINE cmd == Last(undoStack)
<1>0. /\ undoStack \in Seq(Commands) /\ redoStack \in Seq(Commands) /\ undoStack # <<>>
      /\ TypeOK /\ Safe /\ UndoCmd(cmd) /\ cmd \in Commands
      /\ undoStack' = Front(undoStack) /\ redoStack' = Append(redoStack, cmd)
  BY FrontLast DEF Undo, LInv, IInv, TypeOK
<1>1. cmd.obj \in Paired => (cmd.op = "place" <=> cmd.obj \in Here)
  BY <1>0, FitsTop DEF Safe, HistoryReplayable
<1> HIDE DEF cmd
<1>2. /\ \A p \in Tracked : p # cmd.obj => (p \in Here <=> p \in Here')
      /\ cmd.obj \in Tracked => ~(cmd.obj \in Here <=> cmd.obj \in Here')
  <2>1. CASE cmd.op = "place"
    <3>1. RemoveObject(cmd.obj) /\ cmd.obj \in Objects
      BY <1>0, <2>1 DEF UndoCmd, Commands
    <3>2. \A p \in Paired : p \in Here' <=> p \in Here /\ p # cmd.obj
      BY <1>0, <1>1, <2>1, <3>1, RemoveKeeps, PairedFacts DEF Safe
    <3> QED BY <1>1, <2>1, <3>2, TrackedPaired
  <2>2. CASE cmd.op = "erase"
    <3>1. Add(cmd.obj) /\ cmd.obj \in Objects
      BY <1>0, <2>2 DEF UndoCmd, Commands
    <3>2. \A p \in Objects : p \in Here' <=> p \in Here \/ p = cmd.obj
      BY <1>0, <1>1, <2>2, <3>1, AddKeeps, PairedFacts DEF Safe
    <3> QED BY <1>1, <2>2, <3>2, TrackedPaired
  <2>3. CASE cmd.op = "fill"
    <3>1. Here' = Here /\ cmd.obj = NoObj
      BY <1>0, <2>3 DEF UndoCmd, Commands, content, Here, Present
    <3> QED BY <3>1, TrackedPaired
  <2> QED BY <1>0, <2>1, <2>2, <2>3 DEF Commands
<1>3. Toggles(Last(undoStack), Here, Here', "place")
  BY <1>1, <1>2, TrackedPaired DEF Toggles, cmd
<1>4. /\ Snaps(undoStack, Here, "place") # <<>>
      /\ Last(Snaps(undoStack, Here, "place")) = Doc(Here')
      /\ Front(Snaps(undoStack, Here, "place")) = Snaps(Front(undoStack), Here', "place")
      /\ Snaps(Append(redoStack, Last(undoStack)), Here', "erase")
           = Append(Snaps(redoStack, Here, "erase"), Doc(Here))
  BY <1>0, <1>3, SnapsMove
<1>5. /\ Snapshots(undoStack, "place") # <<>>
      /\ Shown' = Last(Snapshots(undoStack, "place"))
      /\ Snapshots(undoStack, "place")' = Front(Snapshots(undoStack, "place"))
      /\ Snapshots(redoStack, "erase")' = Append(Snapshots(redoStack, "erase"), Shown)
  BY <1>0, <1>4, Mapped, MappedNext DEF cmd
<1>6. \A s : History!Last(s) = Last(s) /\ History!Front(s) = Front(s)
  BY DEF History!Last, History!Front, Last, Front
<1> QED BY <1>5, <1>6, Zenon DEF History!Undo, Shown

\* doRedo goes forth.
LEMMA RedoIsRedo ==
  ASSUME LInv, LInv', Redo
  PROVE  History!Redo
<1> DEFINE cmd == Last(redoStack)
<1>0. /\ undoStack \in Seq(Commands) /\ redoStack \in Seq(Commands) /\ redoStack # <<>>
      /\ TypeOK /\ Safe /\ RedoCmd(cmd) /\ cmd \in Commands
      /\ redoStack' = Front(redoStack) /\ undoStack' = Append(undoStack, cmd)
  BY FrontLast DEF Redo, LInv, IInv, TypeOK
<1>1. cmd.obj \in Paired => (cmd.op = "erase" <=> cmd.obj \in Here)
  BY <1>0, FitsTop DEF Safe, HistoryReplayable
<1> HIDE DEF cmd
<1>2. /\ \A p \in Tracked : p # cmd.obj => (p \in Here <=> p \in Here')
      /\ cmd.obj \in Tracked => ~(cmd.obj \in Here <=> cmd.obj \in Here')
  <2>1. CASE cmd.op = "erase"
    <3>1. (RemoveObject(cmd.obj) \/ RemoveLineIfPresent(cmd.obj)) /\ cmd.obj \in Objects
      BY <1>0, <2>1 DEF RedoCmd, Commands
    <3>2. \A p \in Paired : p \in Here' <=> p \in Here /\ p # cmd.obj
      BY <1>0, <1>1, <2>1, <3>1, RemoveKeeps, PairedFacts DEF Safe
    <3> QED BY <1>1, <2>1, <3>2, TrackedPaired
  <2>2. CASE cmd.op = "place"
    <3>1. Add(cmd.obj) /\ cmd.obj \in Objects
      BY <1>0, <2>2 DEF RedoCmd, Commands
    <3>2. \A p \in Objects : p \in Here' <=> p \in Here \/ p = cmd.obj
      BY <1>0, <1>1, <2>2, <3>1, AddKeeps, PairedFacts DEF Safe
    <3> QED BY <1>1, <2>2, <3>2, TrackedPaired
  <2>3. CASE cmd.op = "fill"
    <3>1. Here' = Here /\ cmd.obj = NoObj
      BY <1>0, <2>3 DEF RedoCmd, Commands, content, Here, Present
    <3> QED BY <3>1, TrackedPaired
  <2> QED BY <1>0, <2>1, <2>2, <2>3 DEF Commands
<1>3. Toggles(Last(redoStack), Here, Here', "erase")
  BY <1>1, <1>2, TrackedPaired DEF Toggles, cmd
<1>4. /\ Snaps(redoStack, Here, "erase") # <<>>
      /\ Last(Snaps(redoStack, Here, "erase")) = Doc(Here')
      /\ Front(Snaps(redoStack, Here, "erase")) = Snaps(Front(redoStack), Here', "erase")
      /\ Snaps(Append(undoStack, Last(redoStack)), Here', "place")
           = Append(Snaps(undoStack, Here, "place"), Doc(Here))
  BY <1>0, <1>3, SnapsMove
<1>5. /\ Snapshots(redoStack, "erase") # <<>>
      /\ Shown' = Last(Snapshots(redoStack, "erase"))
      /\ Snapshots(redoStack, "erase")' = Front(Snapshots(redoStack, "erase"))
      /\ Snapshots(undoStack, "place")' = Append(Snapshots(undoStack, "place"), Shown)
  BY <1>0, <1>4, Mapped, MappedNext DEF cmd
<1>6. \A s : History!Last(s) = Last(s) /\ History!Front(s) = Front(s)
  BY DEF History!Last, History!Front, Last, Front
<1> QED BY <1>5, <1>6, Zenon DEF History!Redo, Shown

\* An addition brings only its object.
LEMMA AddTracks ==
  ASSUME LInv, NEW o \in Objects, Add(o), o \in Paired => ~Present(o)
  PROVE  \A p \in Tracked : p \in Here' <=> p \in Here \/ p = o
BY AddKeeps, TrackedPaired DEF LInv, IInv, Safe

\* A removal takes only its object.
LEMMA RemoveTracks ==
  ASSUME LInv, NEW o \in Objects, RemoveObject(o), o \in Paired => Present(o)
  PROVE  \A p \in Tracked : p \in Here' <=> p \in Here /\ p # o
BY RemoveKeeps, TrackedPaired DEF LInv, IInv, Safe

\* Every step of the editor is a step of EditHistory or leaves it unchanged.
LEMMA HistoryStep ==
  ASSUME LInv, LInv', Next
  PROVE  History!Next \/ UNCHANGED History!vars
<1> USE DEF History!Next
<1>0. /\ undoStack \in Seq(Commands)
      /\ \A p \in Objects : p \in Here <=> Present(p)
      /\ \A p \in Tracked : p \in Objects
  BY PairedFacts, TrackedPaired DEF LInv, IInv, TypeOK
<1>1. CASE Undo
  BY <1>1, UndoIsUndo
<1>2. CASE Redo
  BY <1>2, RedoIsRedo
<1>3. CASE DoFill
  <2>1. /\ Record("fill", NoObj) /\ [op |-> "fill", obj |-> NoObj] \in Commands
        /\ UNCHANGED content
    BY <1>3 DEF DoFill, Commands
  <2>2. Here' = Here
    BY <2>1 DEF Here, Present, content
  <2> QED BY <2>1, <2>2, RecordIsEdit, TrackedPaired
<1>4. CASE DoClear \/ \E sheet \in Sheets : LoadScene(sheet)
  BY <1>4, ResetIsReset DEF DoClear, LoadScene, Reset
<1>5. ASSUME NEW o \in Objects, PlaceBlock(o) \/ SecondClick(o) \/ CommitText(o)
      PROVE  History!Edit
  <2>1. /\ Fresh(o) /\ Add(o) /\ Record("place", o) /\ ~Present(o)
        /\ [op |-> "place", obj |-> o] \in Commands
    BY <1>5 DEF PlaceBlock, SecondClick, CommitText, Fresh, Commands
  <2>2. \A p \in Tracked : p \in Here' <=> p \in Here \/ p = o
    BY <2>1, AddTracks
  <2> QED BY <1>0, <2>1, <2>2, RecordIsEdit
<1>6. ASSUME NEW o \in Objects, EraseAt(o)
      PROVE  History!Edit
  <2>1. /\ Present(o) /\ RemoveObject(o) /\ Record("erase", o)
        /\ [op |-> "erase", obj |-> o] \in Commands
    BY <1>6 DEF EraseAt, Commands
  <2>2. \A p \in Tracked : p \in Here' <=> p \in Here /\ p # o
    BY <2>1, RemoveTracks
  <2> QED BY <1>0, <2>1, <2>2, RecordIsEdit
<1>7. ASSUME NEW o \in Objects, PencilDown(o)
      PROVE  UNCHANGED History!vars
  <2>1. /\ Fresh(o) /\ Add(o) /\ KindOf[o] = "line" /\ UNCHANGED history
    BY <1>7 DEF PencilDown
  <2>2. \A p \in Tracked : p \in Here' <=> p \in Here
    BY <2>1, AddTracks, TrackedPaired DEF Fresh
  <2> QED BY <2>1, <2>2, QuietStutters
<1>8. CASE PencilUp
  <2>1. /\ penLine \in Objects /\ KindOf[penLine] = "line" /\ Record("place", penLine)
        /\ UNCHANGED content
    BY <1>8 DEF PencilUp, LInv, IInv, TypeOK, Safe, StrokeApart
  <2>2. Here' = Here /\ [op |-> "place", obj |-> penLine] \in Commands
    BY <2>1 DEF Here, Present, content, Commands
  <2> QED BY <2>1, <2>2, RecordIsEdit, TrackedPaired
<1>9. ASSUME NEW o \in Objects, PencilUpErasing(o)
      PROVE  History!Edit
  <2> DEFINE first == [op |-> "place", obj |-> penLine]
             second == [op |-> "erase", obj |-> o]
             docs == Snaps(undoStack, Here, "place")
  <2>1. /\ penLine \in Objects /\ KindOf[penLine] = "line" /\ Present(o) /\ RemoveObject(o)
        /\ undoStack' = undoStack \o <<first, second>> /\ redoStack' = <<>>
    BY <1>9 DEF PencilUpErasing, RecordAll, LInv, IInv, TypeOK, Safe, StrokeApart
  <2>2. first \in Commands /\ second \in Commands /\ Append(undoStack, first) \in Seq(Commands)
    BY <1>0, <2>1, AppendProperties DEF Commands
  <2>3. undoStack' = Append(Append(undoStack, first), second)
    BY <1>0, <2>1, <2>2
  <2>4. \A p \in Tracked : p \in Here' <=> p \in Here /\ p # o
    BY <2>1, RemoveTracks
  <2>5. first.obj \notin Tracked /\ second.op = "erase" /\ second.obj = o /\ o \in Here
    BY <1>0, <2>1, TrackedPaired
  <2> HIDE DEF first, second
  <2>6. Snaps(Append(undoStack, first), Here, "place") = Append(docs, Doc(Here))
    BY <1>0, <2>2, <2>5, SnapsAppend
  <2>7. Snaps(Append(Append(undoStack, first), second), Here', "place")
          = Append(Append(docs, Doc(Here)), Doc(Here))
    <3>1. second.obj \in Tracked => (second.obj \in Here <=> second.op # "place")
      BY <2>5
    <3>2. \A p \in Tracked : p # second.obj => (p \in Here <=> p \in Here')
      BY <2>4, <2>5
    <3> DEFINE longer == Append(undoStack, first)
    <3>3. longer \in Seq(Commands) /\ second \in Commands
      BY <2>2
    <3> HIDE DEF longer
    <3>4. Snaps(Append(longer, second), Here', "place") = Append(Snaps(longer, Here, "place"), Doc(Here))
      BY <3>1, <3>2, <3>3, SnapsAppend
    <3> QED BY <2>6, <3>4 DEF longer
  <2>8. docs \in Seq(SUBSET Tracked) /\ Doc(Here) \in SUBSET Tracked
    BY <1>0, SnapsType DEF Doc
  <2> HIDE DEF docs
  <2>9. Append(Append(docs, Doc(Here)), Doc(Here)) = docs \o <<Doc(Here), Doc(Here)>>
    BY <2>8
  <2>10. /\ Snapshots(undoStack, "place")' = Snapshots(undoStack, "place") \o <<Shown, Shown>>
         /\ Snapshots(redoStack, "erase")' = <<>>
    BY <2>1, <2>3, <2>7, <2>9, Mapped, MappedNext, SnapsEmpty DEF docs
  <2> QED BY <2>10, Zenon DEF History!Edit, Shown
<1>10. CASE CancelDiv
  <2>1. /\ activeDiv \in Objects /\ KindOf[activeDiv] = "div" /\ RemoveObject(activeDiv)
        /\ UNCHANGED history
    BY <1>10 DEF CancelDiv, LInv, IInv, TypeOK, Safe, PanelIsDiv
  <2>2. \A p \in Tracked : p \in Here' <=> p \in Here
    BY <2>1, RemoveTracks, TrackedPaired, PairedFacts
  <2> QED BY <2>1, <2>2, QuietStutters
<1>11. CASE \/ \E t \in Tools : DoTool(t)
            \/ \E hit \in Objects \cup {NoObj}, shift \in BOOLEAN : SelectClick(hit, shift)
            \/ Escape \/ FirstClick \/ SecondClickTooSmall \/ TextClick \/ PencilLeave
            \/ CancelText \/ CommitDiv \/ LoadFails
  <2>1. UNCHANGED <<content, history>>
    BY <1>11 DEF DoTool, SelectClick, Escape, FirstClick, SecondClickTooSmall, TextClick,
                 PencilLeave, CancelText, CommitDiv, LoadFails
  <2>2. Here' = Here
    BY <2>1 DEF Here, Present, content
  <2> QED BY <2>1, <2>2, QuietStutters
<1> QED BY <1>1, <1>2, <1>3, <1>4, <1>5, <1>6, <1>7, <1>8, <1>9, <1>10, <1>11 DEF Next

\* The undo and redo of closures over shared arrays keep the promise of
\* snapshots: undo shows exactly the blocks, walls and labels that were shown
\* before the last recorded gesture, redo those after it, and nothing else
\* moves along the line.
THEOREM HistoryRefined == Spec => ImplementsHistory
<1>1. Init /\ LInv => History!Init
  <2> SUFFICES ASSUME Init, LInv PROVE History!Init
    OBVIOUS
  <2>1. /\ Snapshots(undoStack, "place") = <<>> /\ Snapshots(redoStack, "erase") = <<>>
    BY Mapped, SnapsEmpty DEF Init
  <2>2. {o \in Tracked : o \in scene} = {}
    BY DEF Init
  <2> QED BY <2>1, <2>2 DEF History!Init
<1>2. LInv /\ LInv' /\ [Next]_vars => [History!Next]_(History!vars)
  <2> SUFFICES ASSUME LInv, LInv', [Next]_vars PROVE History!Next \/ UNCHANGED History!vars
    OBVIOUS
  <2>1. CASE UNCHANGED vars
    <3>1. UNCHANGED history /\ Here' = Here
      BY <2>1 DEF vars, content, Here, Present
    <3> QED BY <3>1, QuietStutters
  <2> QED BY <2>1, HistoryStep
<1> QED BY <1>1, <1>2, ShowsInvariance, PTL DEF Spec, ImplementsHistory, History!Spec
=============================================================================
