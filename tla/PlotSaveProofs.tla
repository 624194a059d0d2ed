---------------------------- MODULE PlotSaveProofs ----------------------------
(***************************************************************************)
(* Proofs about PlotSave, for any sheets, edits, slots and bounds, with    *)
(* requests in flight for as long as they like: its types, that no update  *)
(* takes an edit out of a sheet, that the editor is attached to the sheet  *)
(* it shows, and that a drawing becomes one sheet, each but for the cases  *)
(* the property names.                                                     *)
(*                                                                         *)
(* None of the last three is inductive.  What a request carries was taken  *)
(* from the editor earlier, so Current and Ahead relate every request to   *)
(* the editor and to the sheets as they are now, and Untold and Awaiting   *)
(* say that nobody else has moved those in between.  Owned says whose the  *)
(* edits on display are, Fetched and Unshared the same of those under way. *)
(***************************************************************************)
EXTENDS PlotSave, FiniteSetTheorems, TLAPS

-----------------------------------------------------------------------------
\* What the sheet id holds, or an update under way would put there.
Has(id, n) ==
  n \in stored[id] \/ \E s \in Slots : Sent(requests[s], id) /\ n \in requests[s].drawing

\* The sheets that OneSheetPerDrawing is about, the creations that make such, and
\* those of them that the page awaits.
Kept       == created \ spare
Fresh(r)   == r.kind = "create" /\ ~r.spare
Pending(r) == Fresh(r) /\ r.mine

\* The page's load.
Load(r)   == r.kind = "get" /\ r.mine
Loaded(r) == Load(r) /\ r.state = "handled"

\* The drawing is that of the sheet the page is attached to, or creates.
OwnDrawing == sheetId \notin spare \/ \E s \in Slots : Pending(requests[s])

\* Nobody has heard of an edit not made, or of a sheet not created.
Known ==
  /\ drawing \subseteq 0..edits /\ \A id \in Ids : stored[id] \subseteq 0..edits
  /\ sheetId \in created \cup {NoId} /\ url \in created \cup {NoId}
  /\ \A s \in InFlight : /\ requests[s].drawing \subseteq 0..edits /\ requests[s].at <= edits
                         /\ requests[s].id \in created \cup {NoId}
                         /\ requests[s].kind = "update" => requests[s].id # NoId

\* Only the page's creation knows the sheet that it has made.
Untold(s) ==
  LET r == requests[s] IN
  Made(r) => /\ r.id \in created /\ sheetId # r.id /\ stored[r.id] = r.drawing
             /\ \A t \in InFlight \ {s} : requests[t].id # r.id
             /\ r.spare => r.id \in spare

\* While the page awaits its sheet it has none, or only a spare one.
Awaiting(s) ==
  LET r == requests[s] IN
  /\ Load(r) => /\ sheetId \in spare \cup {NoId} /\ sheetId # r.id /\ r.id # NoId
                /\ \A t \in Slots : /\ ~Pending(requests[t])
                                    /\ Load(requests[t]) => t = s
  /\ Pending(r) => /\ sheetId \in spare \cup {NoId} /\ ~r.stale
                   /\ \A t \in Slots : Pending(requests[t]) => t = s

\* A request that is not stale carries what it should.
Current(s) ==
  LET r == requests[s] IN
  /\ r.kind = "create" /\ r.mine /\ ~r.stale => r.drawing \subseteq drawing
  /\ Loaded(r) /\ ~r.stale => /\ stored[r.id] = r.drawing
                              /\ \A t \in Slots : ~Sent(requests[t], r.id)

\* So does an update: at least what its sheet has, and what older ones bring.
Ahead(s) ==
  LET r == requests[s] IN
  r.kind = "update" /\ r.state = "sent" =>
    /\ r.id = sheetId /\ ~astray => r.drawing \subseteq drawing
    /\ ~r.stale => /\ stored[r.id] \subseteq r.drawing
                   /\ \A t \in Slots : Sent(requests[t], r.id) /\ requests[t].at < r.at
                        => requests[t].drawing \subseteq r.drawing

Attached == sheetId # NoId /\ ~astray => stored[sheetId] \subseteq drawing

\* Whose the edits are.
Separate == \A id1, id2 \in Kept : \A n \in 0..MaxEdits : Has(id1, n) /\ Has(id2, n) => id1 = id2

Owned ==
  OwnDrawing => \A id \in Kept : \A n \in drawing :
    Has(id, n) => id = sheetId \/ \E s \in Slots : Made(requests[s]) /\ requests[s].id = id

Fetched(s) ==
  LET r == requests[s] IN
  Loaded(r) /\ r.id \in Kept => \A id \in Kept : \A n \in r.drawing : Has(id, n) => id = r.id

Unshared(s) ==
  LET r == requests[s] IN
  Fresh(r) /\ r.state = "sent" =>
    /\ \A id \in Kept : \A n \in r.drawing : ~Has(id, n)
    /\ \A t \in Slots \ {s} : Fresh(requests[t]) /\ requests[t].state = "sent"
                                => r.drawing \cap requests[t].drawing = {}
    /\ \A t \in Slots : Loaded(requests[t]) /\ requests[t].id \in Kept
                                => r.drawing \cap requests[t].drawing = {}
    /\ ~r.mine /\ OwnDrawing => r.drawing \cap drawing = {}

Follows == Known /\ \A s \in Slots : Untold(s) /\ Awaiting(s) /\ Current(s) /\ Ahead(s)
Apart   == Separate /\ Owned /\ \A s \in Slots : Fetched(s) /\ Unshared(s)
IInv    == Follows /\ Attached /\ Apart

-----------------------------------------------------------------------------
\* Requests

LEMMA NewRequests ==
  ASSUME TypeOK, NEW kind \in {"get", "create", "update"}, NEW id \in Ids \cup {NoId},
         NEW d \in Drawings, NEW spr \in BOOLEAN, NEW stl \in BOOLEAN
  PROVE  NewRequest(kind, id, d, spr, stl) \in Request
BY DEF NewRequest, Request, TypeOK

LEMMA IdleIsNone == Idle \notin Request /\ Idle.kind = "idle"
BY DEF Idle, Request

LEMMA SetRequest ==
  ASSUME requests \in [Slots -> Request \cup {Idle}], NEW s \in Slots, NEW r \in Request \cup {Idle},
         requests' = [requests EXCEPT ![s] = r]
  PROVE  /\ requests' \in [Slots -> Request \cup {Idle}]
         /\ requests'[s] = r
         /\ \A t \in Slots \ {s} : requests'[t] = requests[t]
OBVIOUS

\* The next step of a request is a request.
LEMMA RequestMoves ==
  ASSUME NEW r \in Request
  PROVE  /\ \A state \in {"handled", "failed"} : [r EXCEPT !.state = state] \in Request
         /\ [r EXCEPT !.mine = FALSE] \in Request
         /\ [r EXCEPT !.mine = FALSE, !.spare = TRUE] \in Request
         /\ [r EXCEPT !.stale = TRUE] \in Request
         /\ \A id \in Ids : [r EXCEPT !.id = id, !.state = "handled"] \in Request
         /\ \A d \in Drawings, b \in BOOLEAN :
              [r EXCEPT !.drawing = d, !.state = "handled", !.stale = b] \in Request
BY DEF Request

LEMMA NewIdIsNew == created \subseteq Ids /\ created # Ids => NewId \in Ids \ created
BY DEF NewId

LEMMA Bounds == MaxEdits \in Nat /\ MaxUpsets \in Nat
BY BoundsAssumption

-----------------------------------------------------------------------------
\* What each step does to the requests

\* What is in a slot: a request, or nothing.
LEMMA InSlots ==
  ASSUME TypeOK, NEW s \in Slots
  PROVE  /\ requests[s] = Idle \/ requests[s] \in Request
         /\ s \in InFlight <=> requests[s] # Idle
         /\ requests[s] = Idle <=> requests[s].kind = "idle"
BY IdleIsNone DEF TypeOK, Request, InFlight

\* performSave sends a request.
LEMMA SaveSends ==
  ASSUME TypeOK, NEW s \in Slots, TimerFires(s) \/ ClickSave(s)
  PROVE  /\ requests[s] = Idle /\ requests'[s] \in Request
         /\ \A t \in Slots \ {s} : requests'[t] = requests[t]
         /\ requests' \in [Slots -> Request \cup {Idle}]
         /\ requests'[s].kind = (IF sheetId = NoId THEN "create" ELSE "update")
         /\ requests'[s].id = sheetId /\ requests'[s].drawing = drawing
         /\ requests'[s].state = "sent" /\ requests'[s].mine /\ requests'[s].at = edits
         /\ requests'[s].spare <=> sheetId = NoId /\ AwaitsSheet
         /\ requests'[s].stale <=> sheetId # NoId /\ astray
         /\ isSaving' = TRUE /\ timer' = FALSE
         /\ UNCHANGED <<drawing, edits, sheetId, url, stored, created, live, spare, astray, upsets>>
<1> DEFINE q == IF sheetId = NoId THEN NewRequest("create", NoId, drawing, AwaitsSheet, FALSE)
                ELSE NewRequest("update", sheetId, drawing, FALSE, astray)
<1>1. requests' = [requests EXCEPT ![s] = q] /\ requests[s] = Idle
  BY DEF TimerFires, ClickSave, PerformSave
<1>2. AwaitsSheet \in BOOLEAN
  BY DEF AwaitsSheet
<1>3. q \in Request
  BY <1>2, NewRequests DEF TypeOK
<1>4. /\ q.kind = (IF sheetId = NoId THEN "create" ELSE "update")
      /\ q.id = sheetId /\ q.drawing = drawing /\ q.state = "sent" /\ q.mine /\ q.at = edits
      /\ q.spare <=> sheetId = NoId /\ AwaitsSheet
      /\ q.stale <=> sheetId # NoId /\ astray
  <2>1. CASE sheetId = NoId
    BY <2>1 DEF NewRequest
  <2>2. CASE sheetId # NoId
    BY <2>2 DEF NewRequest, TypeOK
  <2> QED BY <2>1, <2>2
<1> HIDE DEF q
<1>5. /\ requests' \in [Slots -> Request \cup {Idle}] /\ requests'[s] = q
      /\ \A t \in Slots \ {s} : requests'[t] = requests[t]
  BY <1>1, <1>3, SetRequest DEF TypeOK
<1> QED BY <1>1, <1>3, <1>4, <1>5 DEF TimerFires, ClickSave, PerformSave, server

\* A reload abandons what is in flight and sends a load.
LEMMA ReloadSends ==
  ASSUME TypeOK, NEW s \in Slots, Reload(s)
  PROVE  /\ requests' \in [Slots -> Request \cup {Idle}]
         /\ requests[s] = Idle
         /\ url = NoId => requests'[s] = Idle
         /\ url # NoId => /\ requests'[s] \in Request
                          /\ requests'[s].kind = "get" /\ requests'[s].id = url
                          /\ requests'[s].drawing = {} /\ requests'[s].state = "sent"
                          /\ requests'[s].at = edits
         /\ \A t \in Slots \ {s} :
              /\ requests'[t] = Idle <=> requests[t] = Idle
              /\ requests'[t].kind = requests[t].kind
              /\ requests[t] # Idle =>
                   /\ ~requests'[t].mine
                   /\ requests'[t].id = requests[t].id /\ requests'[t].drawing = requests[t].drawing
                   /\ requests'[t].state = requests[t].state /\ requests'[t].at = requests[t].at
                   /\ requests'[t].spare = requests[t].spare /\ requests'[t].stale = requests[t].stale
         /\ drawing' = {} /\ sheetId' = NoId /\ astray' = FALSE /\ timer' = FALSE /\ isSaving' = FALSE
         /\ upsets' \in 0..MaxUpsets
         /\ UNCHANGED <<edits, url, stored, created, live, spare>>
<1>1. {} \in Drawings
  BY DEF Drawings
<1>2. url # NoId => NewRequest("get", url, {}, FALSE, FALSE) \in Request
  BY <1>1, NewRequests DEF TypeOK
<1>3. requests[s] = Idle
  BY DEF Reload
<1>4. /\ requests'[s] = IF url # NoId THEN NewRequest("get", url, {}, FALSE, FALSE) ELSE Idle
      /\ \A t \in Slots \ {s} : requests'[t] = IF requests[t] = Idle THEN Idle
                                            ELSE [requests[t] EXCEPT !.mine = FALSE]
  BY <1>3 DEF Reload, InFlight
<1>5. ASSUME NEW t \in Slots \ {s}
      PROVE  /\ requests'[t] \in Request \cup {Idle}
             /\ requests'[t] = Idle <=> requests[t] = Idle
             /\ requests'[t].kind = requests[t].kind
             /\ requests[t] # Idle =>
                   /\ ~requests'[t].mine
                   /\ requests'[t].id = requests[t].id /\ requests'[t].drawing = requests[t].drawing
                   /\ requests'[t].state = requests[t].state /\ requests'[t].at = requests[t].at
                   /\ requests'[t].spare = requests[t].spare /\ requests'[t].stale = requests[t].stale
  <2>1. CASE requests[t] = Idle
    BY <1>4, <2>1
  <2>2. CASE requests[t] # Idle
    <3>1. requests[t] \in Request
      BY <2>2, InSlots
    <3>2. requests'[t] = [requests[t] EXCEPT !.mine = FALSE] /\ requests'[t] \in Request
      BY <1>4, <2>2, <3>1, RequestMoves
    <3> QED BY <2>2, <3>1, <3>2, IdleIsNone DEF Request
  <2> QED BY <2>1, <2>2
<1>6. requests' = [t \in Slots |-> requests'[t]]
  BY DEF Reload
<1>7. requests' \in [Slots -> Request \cup {Idle}]
  <2>1. \A t \in Slots : requests'[t] \in Request \cup {Idle}
    BY <1>2, <1>4, <1>5
  <2> QED BY <1>6, <2>1
<1>8. url # NoId => /\ requests'[s].kind = "get" /\ requests'[s].id = url
                    /\ requests'[s].drawing = {} /\ requests'[s].state = "sent"
                    /\ requests'[s].at = edits
  BY <1>4 DEF NewRequest
<1>9. upsets' \in 0..MaxUpsets
  BY Bounds DEF Reload, TypeOK
<1> QED BY <1>2, <1>3, <1>4, <1>5, <1>7, <1>8, <1>9 DEF Reload, server

\* The server reads a sheet, or finds none.
LEMMA GetHandled ==
  ASSUME TypeOK, NEW s \in Slots, Handle(s), HandleGet(s)
  PROVE  LET r == requests[s]  q == requests'[s] IN
         /\ requests' \in [Slots -> Request \cup {Idle}]
         /\ \A t \in Slots \ {s} : requests'[t] = requests[t]
         /\ r \in Request /\ r.kind = "get" /\ r.state = "sent" /\ q \in Request
         /\ q.kind = "get" /\ q.id = r.id /\ q.mine = r.mine /\ q.at = r.at /\ q.state # "sent"
         /\ q.state = "handled" =>
              /\ r.id \in live /\ q.drawing = stored[r.id]
              /\ q.stale <=> \E t \in Slots : Sent(requests[t], r.id)
         /\ q.state # "handled" => q.drawing = r.drawing
         /\ UNCHANGED <<client, stored, created, live, spare, astray, upsets>>
<1> DEFINE r == requests[s]
           b == \E t \in Slots : Sent(requests[t], r.id)
           q == IF r.id \in live
                THEN [r EXCEPT !.drawing = stored[r.id], !.state = "handled", !.stale = b]
                ELSE [r EXCEPT !.state = "failed"]
<1>1. r \in Request /\ r.kind = "get" /\ r.state = "sent"
  BY InSlots DEF Handle, HandleGet
<1>2. b \in BOOLEAN
  OBVIOUS
<1>3. requests' = [requests EXCEPT ![s] = q] /\ UNCHANGED <<client, server, astray, upsets>>
  BY DEF Handle, HandleGet
<1> HIDE DEF b
<1>4. r.id \in live => stored[r.id] \in Drawings
  BY DEF TypeOK
<1>5. /\ q \in Request /\ q.kind = "get" /\ q.id = r.id /\ q.mine = r.mine /\ q.at = r.at
      /\ q.state # "sent"
      /\ q.state = "handled" => r.id \in live /\ q.drawing = stored[r.id] /\ (q.stale <=> b)
      /\ q.state # "handled" => q.drawing = r.drawing
  <2>1. CASE r.id \in live
    BY <1>1, <1>2, <1>4, <2>1, RequestMoves DEF Request
  <2>2. CASE r.id \notin live
    BY <1>1, <2>2, RequestMoves DEF Request
  <2> QED BY <2>1, <2>2
<1> HIDE DEF q
<1>6. /\ requests' \in [Slots -> Request \cup {Idle}] /\ requests'[s] = q
      /\ \A t \in Slots \ {s} : requests'[t] = requests[t]
  BY <1>3, <1>5, SetRequest DEF TypeOK
<1> QED BY <1>1, <1>3, <1>5, <1>6 DEF b, server

\* The server makes a sheet.
LEMMA CreateHandled ==
  ASSUME TypeOK, NEW s \in Slots, Handle(s), HandleCreate(s)
  PROVE  LET r == requests[s]  q == requests'[s] IN
         /\ requests' \in [Slots -> Request \cup {Idle}]
         /\ \A t \in Slots \ {s} : requests'[t] = requests[t]
         /\ r \in Request /\ r.kind = "create" /\ r.state = "sent" /\ q \in Request
         /\ q.kind = "create" /\ q.state = "handled" /\ q.drawing = r.drawing /\ q.mine = r.mine
         /\ q.at = r.at /\ q.spare = r.spare /\ q.stale = r.stale
         /\ q.id \in Ids \ created
         /\ stored' \in [Ids -> Drawings] /\ stored'[q.id] = r.drawing
         /\ \A id \in Ids \ {q.id} : stored'[id] = stored[id]
         /\ created' = created \cup {q.id} /\ live' = live \cup {q.id}
         /\ spare' = IF r.spare THEN spare \cup {q.id} ELSE spare
         /\ UNCHANGED <<client, astray, upsets>>
<1> DEFINE r == requests[s]
<1>1. r \in Request /\ r.kind = "create" /\ r.state = "sent" /\ r.drawing \in Drawings
  BY InSlots DEF Handle, HandleCreate, Request
<1>2. PICK n \in Ids \ created : n = NewId
  BY NewIdIsNew DEF HandleCreate, TypeOK
<1> DEFINE q == [r EXCEPT !.id = n, !.state = "handled"]
<1>3. /\ q \in Request /\ q.kind = "create" /\ q.state = "handled" /\ q.drawing = r.drawing
      /\ q.mine = r.mine /\ q.at = r.at /\ q.spare = r.spare /\ q.stale = r.stale /\ q.id = n
  <2>1. q \in Request
    BY <1>1, RequestMoves
  <2> QED BY <1>1, <2>1 DEF Request
<1>4. /\ requests' = [requests EXCEPT ![s] = q] /\ stored' = [stored EXCEPT ![n] = r.drawing]
      /\ created' = created \cup {n} /\ live' = live \cup {n}
      /\ spare' = (IF r.spare THEN spare \cup {n} ELSE spare)
      /\ UNCHANGED <<client, astray, upsets>>
  BY <1>2 DEF Handle, HandleCreate
<1> HIDE DEF q
<1>5. /\ requests' \in [Slots -> Request \cup {Idle}] /\ requests'[s] = q
      /\ \A t \in Slots \ {s} : requests'[t] = requests[t]
  BY <1>3, <1>4, SetRequest DEF TypeOK
<1>6. /\ stored' \in [Ids -> Drawings] /\ stored'[n] = r.drawing
      /\ \A id \in Ids \ {n} : stored'[id] = stored[id]
  BY <1>1, <1>2, <1>4 DEF TypeOK
<1> QED BY <1>1, <1>3, <1>4, <1>5, <1>6

\* The server stores an update and others become stale, or there is no sheet.
LEMMA UpdateHandled ==
  ASSUME TypeOK, NEW s \in Slots, Handle(s), HandleUpdate(s)
  PROVE  LET r == requests[s]  q == requests'[s] IN
         /\ requests' \in [Slots -> Request \cup {Idle}]
         /\ r \in Request /\ r.kind = "update" /\ r.state = "sent" /\ q \in Request
         /\ q.kind = "update" /\ q.state # "sent" /\ q.drawing = r.drawing /\ q.mine = r.mine
         /\ q.at = r.at /\ q.id = r.id
         /\ \A t \in Slots \ {s} :
              /\ requests'[t] = Idle <=> requests[t] = Idle
              /\ requests'[t].kind = requests[t].kind
              /\ requests[t] # Idle =>
                   /\ requests'[t].mine = requests[t].mine
                   /\ requests'[t].id = requests[t].id /\ requests'[t].drawing = requests[t].drawing
                   /\ requests'[t].state = requests[t].state /\ requests'[t].at = requests[t].at
                   /\ requests'[t].spare = requests[t].spare
                   /\ requests[t].kind # "update" => requests'[t].stale = requests[t].stale
                   /\ ~requests'[t].stale => ~requests[t].stale
                   /\ q.state = "handled" /\ Sent(requests[t], r.id) /\ ~requests'[t].stale
                        => r.at < requests[t].at
         /\ q.state # "handled" => stored' = stored
         /\ q.state = "handled" => r.id \in Ids /\ stored' = [stored EXCEPT ![r.id] = r.drawing]
         /\ UNCHANGED <<client, created, live, spare, astray, upsets>>
<1> DEFINE r == requests[s]
<1>1. r \in Request /\ r.kind = "update" /\ r.state = "sent" /\ r.drawing \in Drawings /\ r.at \in Int
  BY InSlots DEF Handle, HandleUpdate, Request
<1>2. CASE r.id \in live
  <2> DEFINE over(t) == Sent(requests[t], r.id) /\ requests[t].at <= r.at
  <2>1. /\ requests' = [t \in Slots |-> IF t = s THEN [r EXCEPT !.state = "handled"]
                          ELSE IF over(t) THEN [requests[t] EXCEPT !.stale = TRUE] ELSE requests[t]]
        /\ stored' = [stored EXCEPT ![r.id] = r.drawing]
        /\ UNCHANGED <<client, created, live, spare, astray, upsets>>
    BY <1>2 DEF Handle, HandleUpdate
  <2> HIDE DEF over
  <2>2. /\ requests'[s] \in Request /\ requests'[s].kind = "update" /\ requests'[s].state = "handled"
        /\ requests'[s].drawing = r.drawing /\ requests'[s].mine = r.mine
        /\ requests'[s].at = r.at /\ requests'[s].id = r.id
    <3>1. requests'[s] = [r EXCEPT !.state = "handled"]
      BY <2>1
    <3>2. [r EXCEPT !.state = "handled"] \in Request
      BY <1>1, RequestMoves
    <3> QED BY <1>1, <3>1, <3>2 DEF Request
  <2>3. ASSUME NEW t \in Slots \ {s}
        PROVE  /\ requests'[t] \in Request \cup {Idle}
               /\ requests'[t] = Idle <=> requests[t] = Idle
               /\ requests'[t].kind = requests[t].kind
               /\ requests[t] # Idle =>
                   /\ requests'[t].mine = requests[t].mine
                   /\ requests'[t].id = requests[t].id /\ requests'[t].drawing = requests[t].drawing
                   /\ requests'[t].state = requests[t].state /\ requests'[t].at = requests[t].at
                   /\ requests'[t].spare = requests[t].spare
                   /\ requests[t].kind # "update" => requests'[t].stale = requests[t].stale
                   /\ ~requests'[t].stale => ~requests[t].stale
                   /\ Sent(requests[t], r.id) /\ ~requests'[t].stale => r.at < requests[t].at
    <3> USE DEF over
    <3>1. CASE over(t)
      <4>1. requests[t] \in Request /\ requests[t].kind = "update"
        BY <3>1, InSlots, IdleIsNone DEF Sent
      <4>2. requests'[t] = [requests[t] EXCEPT !.stale = TRUE] /\ requests'[t] \in Request
        BY <2>1, <3>1, <4>1, RequestMoves
      <4> QED BY <4>1, <4>2, IdleIsNone DEF Request
    <3>2. CASE ~over(t)
      <4>1. requests'[t] = requests[t] /\ requests[t] \in Request \cup {Idle}
        BY <2>1, <3>2, InSlots
      <4>2. Sent(requests[t], r.id) => requests[t].at \in Int
        BY InSlots, IdleIsNone DEF Sent, Request
      <4> QED BY <1>1, <3>2, <4>1, <4>2
    <3> QED BY <3>1, <3>2
  <2>4. requests' \in [Slots -> Request \cup {Idle}]
    <3>1. \A t \in Slots : requests'[t] \in Request \cup {Idle}
      BY <2>2, <2>3
    <3>2. requests' = [t \in Slots |-> requests'[t]]
      BY <2>1
    <3> QED BY <3>1, <3>2
  <2>5. r.id \in Ids
    BY <1>2 DEF TypeOK
  <2> QED BY <1>1, <2>1, <2>2, <2>3, <2>4, <2>5
<1>3. CASE r.id \notin live
  <2>1. /\ requests' = [requests EXCEPT ![s] = [r EXCEPT !.state = "failed"]]
        /\ UNCHANGED <<client, stored, created, live, spare, astray, upsets>>
    BY <1>3 DEF Handle, HandleUpdate
  <2>2. [r EXCEPT !.state = "failed"] \in Request
    BY <1>1, RequestMoves
  <2>3. /\ requests' \in [Slots -> Request \cup {Idle}]
        /\ requests'[s] = [r EXCEPT !.state = "failed"]
        /\ \A t \in Slots \ {s} : requests'[t] = requests[t]
    BY <2>1, <2>2, SetRequest DEF TypeOK
  <2> QED BY <1>1, <2>1, <2>2, <2>3 DEF Request
<1> QED BY <1>2, <1>3

\* A request that the page takes for failed: it, or its answer, is lost, or late.
LEMMA RequestLost ==
  ASSUME TypeOK, NEW s \in Slots, Lose(s) \/ GiveUp(s)
  PROVE  LET r == requests[s]  q == requests'[s] IN
         /\ requests' \in [Slots -> Request \cup {Idle}]
         /\ \A t \in Slots \ {s} : requests'[t] = requests[t]
         /\ r \in Request /\ q \in Request
         /\ q.kind = r.kind /\ q.id = r.id /\ q.drawing = r.drawing /\ q.at = r.at /\ q.stale = r.stale
         /\ q.state = r.state \/ q.state = "failed"
         /\ \/ Lose(s) /\ q.state = "failed" /\ q.mine = r.mine /\ q.spare = r.spare
            \/ r.state = "sent" /\ q.state = "sent" /\ ~q.mine /\ q.spare
         /\ isSaving' \in BOOLEAN /\ upsets' \in 0..MaxUpsets
         /\ spare' = IF Made(r) THEN spare \cup {r.id} ELSE spare
         /\ UNCHANGED <<drawing, edits, sheetId, url, timer, astray, stored, created, live>>
<1> DEFINE r == requests[s]
<1>1. r \in Request
  BY InSlots DEF Lose, GiveUp
<1>2. upsets' \in 0..MaxUpsets
  <2>1. upsets \in 0..MaxUpsets /\ upsets < MaxUpsets /\ upsets' = upsets + 1
    BY DEF Lose, GiveUp, TypeOK
  <2> QED BY <2>1, Bounds
<1>3. CASE Lose(s)
  <2>1. requests' = [requests EXCEPT ![s] = [r EXCEPT !.state = "failed"]]
    BY <1>3 DEF Lose
  <2>2. [r EXCEPT !.state = "failed"] \in Request
    BY <1>1, RequestMoves
  <2>3. /\ requests' \in [Slots -> Request \cup {Idle}]
        /\ requests'[s] = [r EXCEPT !.state = "failed"]
        /\ \A t \in Slots \ {s} : requests'[t] = requests[t]
    BY <2>1, <2>2, SetRequest DEF TypeOK
  <2>4. LET q == requests'[s] IN
        /\ q \in Request
        /\ q.kind = r.kind /\ q.id = r.id /\ q.drawing = r.drawing /\ q.at = r.at /\ q.stale = r.stale
        /\ q.state = "failed" /\ q.mine = r.mine /\ q.spare = r.spare
    BY <1>1, <2>2, <2>3 DEF Request
  <2> QED BY <1>1, <1>2, <1>3, <2>3, <2>4 DEF Lose, client, TypeOK
<1>4. CASE GiveUp(s)
  <2>1. requests' = [requests EXCEPT ![s] = [r EXCEPT !.mine = FALSE, !.spare = TRUE]]
    BY <1>1, <1>4 DEF GiveUp, TypeOK
  <2>2. [r EXCEPT !.mine = FALSE, !.spare = TRUE] \in Request
    BY <1>1, RequestMoves
  <2>3. /\ requests' \in [Slots -> Request \cup {Idle}]
        /\ requests'[s] = [r EXCEPT !.mine = FALSE, !.spare = TRUE]
        /\ \A t \in Slots \ {s} : requests'[t] = requests[t]
    BY <2>1, <2>2, SetRequest DEF TypeOK
  <2>4. LET q == requests'[s] IN
        /\ q \in Request
        /\ q.kind = r.kind /\ q.id = r.id /\ q.drawing = r.drawing /\ q.at = r.at /\ q.stale = r.stale
        /\ q.state = r.state /\ ~q.mine /\ q.spare
    BY <1>1, <2>2, <2>3 DEF Request
  <2>5. r.state = "sent" /\ ~Made(r) /\ isSaving' \in BOOLEAN
    BY <1>4 DEF GiveUp, Made, TypeOK
  <2> QED BY <1>1, <1>2, <1>4, <2>3, <2>4, <2>5 DEF GiveUp, server
<1> QED BY <1>3, <1>4

\* The page hears, and what it heard of leaves the slot.
LEMMA RequestAnswered ==
  ASSUME TypeOK, NEW s \in Slots, Answer(s)
  PROVE  LET r == requests[s] IN
         /\ requests' \in [Slots -> Request \cup {Idle}]
         /\ r \in Request /\ r.state # "sent" /\ requests'[s] = Idle
         /\ \A t \in Slots \ {s} :
              /\ requests'[t] = Idle <=> requests[t] = Idle
              /\ requests'[t].kind = requests[t].kind
              /\ requests[t] # Idle =>
                   /\ requests'[t].mine = requests[t].mine
                   /\ requests'[t].id = requests[t].id /\ requests'[t].drawing = requests[t].drawing
                   /\ requests'[t].state = requests[t].state /\ requests'[t].at = requests[t].at
                   /\ requests'[t].spare = requests[t].spare
                   /\ requests[t].kind # "create" \/ ~Loaded(r) => requests'[t].stale = requests[t].stale
                   /\ requests[t].kind = "create" /\ Loaded(r) => requests'[t].stale
         /\ \/ /\ Loaded(r) \/ Made(r)
               /\ sheetId' = r.id /\ drawing' = IF Loaded(r) THEN r.drawing ELSE drawing
               /\ url' = IF Made(r) THEN r.id ELSE url
               /\ astray' = (astray \/ r.stale)
            \/ ~Loaded(r) /\ ~Made(r) /\ UNCHANGED <<sheetId, drawing, url, astray>>
         /\ isSaving' \in BOOLEAN
         /\ UNCHANGED <<edits, timer, stored, created, live, spare, upsets>>
<1> DEFINE r == requests[s]
           ld == r.mine /\ r.state = "handled" /\ r.kind = "get"
<1>1. r \in Request /\ r.state # "sent" /\ r.mine \in BOOLEAN /\ r.stale \in BOOLEAN
      /\ r.kind \in {"get", "create", "update"}
  BY InSlots DEF Answer, Request
<1>2. ld <=> Loaded(r)
  BY DEF Loaded, Load
<1>3. /\ requests' = [t \in Slots |-> IF t = s THEN Idle
                       ELSE IF ld /\ requests[t].kind = "create"
                       THEN [requests[t] EXCEPT !.stale = TRUE] ELSE requests[t]]
      /\ astray' = (astray \/ (r.mine /\ r.state = "handled" /\ r.kind # "update" /\ r.stale))
  BY DEF Answer, Done
<1>4. ASSUME NEW t \in Slots \ {s}
      PROVE  /\ requests'[t] \in Request \cup {Idle}
             /\ requests'[t] = Idle <=> requests[t] = Idle
             /\ requests'[t].kind = requests[t].kind
             /\ requests[t] # Idle =>
                   /\ requests'[t].mine = requests[t].mine
                   /\ requests'[t].id = requests[t].id /\ requests'[t].drawing = requests[t].drawing
                   /\ requests'[t].state = requests[t].state /\ requests'[t].at = requests[t].at
                   /\ requests'[t].spare = requests[t].spare
                   /\ requests[t].kind # "create" \/ ~ld => requests'[t].stale = requests[t].stale
                   /\ requests[t].kind = "create" /\ ld => requests'[t].stale
  <2>1. CASE ld /\ requests[t].kind = "create"
    <3>1. requests[t] \in Request
      BY <2>1, InSlots, IdleIsNone
    <3>2. requests'[t] = [requests[t] EXCEPT !.stale = TRUE] /\ requests'[t] \in Request
      BY <1>3, <2>1, <3>1, RequestMoves
    <3> QED BY <2>1, <3>1, <3>2, IdleIsNone DEF Request
  <2>2. CASE ~(ld /\ requests[t].kind = "create")
    <3>1. requests'[t] = requests[t] /\ requests[t] \in Request \cup {Idle}
      BY <1>3, <2>2, InSlots
    <3> QED BY <2>2, <3>1
  <2> QED BY <2>1, <2>2
<1>5. requests' \in [Slots -> Request \cup {Idle}] /\ requests'[s] = Idle
  <2>1. requests' = [t \in Slots |-> requests'[t]] /\ requests'[s] = Idle
    BY <1>3
  <2> QED BY <1>4, <2>1
<1>6. /\ \/ /\ Loaded(r) \/ Made(r)
            /\ sheetId' = r.id /\ drawing' = IF Loaded(r) THEN r.drawing ELSE drawing
            /\ url' = IF Made(r) THEN r.id ELSE url
            /\ astray' = (astray \/ r.stale)
         \/ ~Loaded(r) /\ ~Made(r) /\ UNCHANGED <<sheetId, drawing, url, astray>>
      /\ isSaving' \in BOOLEAN
      /\ UNCHANGED <<edits, timer, stored, created, live, spare, upsets>>
  <2>1. CASE r.mine /\ r.state = "handled" /\ r.kind # "update"
    BY <1>1, <1>3, <2>1 DEF Answer, Loaded, Load, Made, server, TypeOK
  <2>2. CASE ~(r.mine /\ r.state = "handled" /\ r.kind # "update")
    BY <1>1, <1>3, <2>2 DEF Answer, Loaded, Load, Made, server, TypeOK
  <2> QED BY <2>1, <2>2
<1> HIDE DEF ld
<1> QED BY <1>1, <1>2, <1>4, <1>5, <1>6

-----------------------------------------------------------------------------
\* Types

LEMMA InitTyped == Init => TypeOK
<1> SUFFICES ASSUME Init PROVE TypeOK
  OBVIOUS
<1>1. {0} \in Drawings /\ {} \in Drawings
  BY Bounds DEF Drawings
<1>2. edits \in 0..MaxEdits /\ upsets \in 0..MaxUpsets
  BY Bounds DEF Init
<1>3. NewRequest("get", FirstId, {}, FALSE, FALSE) \in Request
  BY <1>1, <1>2, IdsAssumption DEF NewRequest, Request
<1>4. stored \in [Ids -> Drawings]
  BY <1>1 DEF Init
<1>5. requests \in [Slots -> Request \cup {Idle}]
  BY <1>3 DEF Init
<1> QED
  BY <1>1, <1>2, <1>4, <1>5, IdsAssumption DEF Init, TypeOK

LEMMA TypesKept == TypeOK /\ IInv /\ [Next]_vars => TypeOK'
<1> SUFFICES ASSUME TypeOK, IInv, [Next]_vars PROVE TypeOK'
  OBVIOUS
<1> USE DEF client, server
<1>1. CASE Edit
  BY <1>1, Bounds DEF TypeOK, Edit, Drawings
<1>2. CASE EditQuietly
  BY <1>2, Bounds DEF TypeOK, EditQuietly, Drawings
<1>3. ASSUME NEW s \in Slots, TimerFires(s) \/ ClickSave(s) PROVE TypeOK'
  BY <1>3, SaveSends DEF TypeOK
<1>4. ASSUME NEW s \in Slots, Reload(s) PROVE TypeOK'
  BY <1>4, ReloadSends DEF TypeOK, Drawings
<1>5. ASSUME NEW s \in Slots, Handle(s) PROVE TypeOK'
  <2>1. CASE HandleGet(s)
    BY <1>5, <2>1, GetHandled DEF TypeOK
  <2>2. CASE HandleCreate(s)
    BY <1>5, <2>2, CreateHandled DEF TypeOK
  <2>3. CASE HandleUpdate(s)
    <3>1. requests[s].drawing \in Drawings
      BY <1>5, <2>3, UpdateHandled DEF Request
    <3> QED BY <1>5, <2>3, <3>1, UpdateHandled DEF TypeOK
  <2> QED BY <1>5, <2>1, <2>2, <2>3 DEF Handle
<1>6. ASSUME NEW s \in Slots, Lose(s) \/ GiveUp(s) PROVE TypeOK'
  <2>1. Made(requests[s]) => requests[s].id \in created
    BY DEF IInv, Follows, Untold
  <2> QED BY <1>6, <2>1, RequestLost DEF TypeOK
<1>7. ASSUME NEW s \in Slots, Answer(s) PROVE TypeOK'
  <2>1. requests[s].id \in Ids \cup {NoId} /\ requests[s].drawing \in Drawings
        /\ requests[s].stale \in BOOLEAN
    BY <1>7, RequestAnswered DEF Request
  <2> QED BY <1>7, <2>1, RequestAnswered DEF TypeOK
<1>8. ASSUME NEW id \in Ids \cup {NoId}, SwitchSheet(id) PROVE TypeOK'
  BY <1>8 DEF SwitchSheet, TypeOK
<1>9. ASSUME NEW id \in Ids, Delete(id) PROVE TypeOK'
  <2>1. upsets \in 0..MaxUpsets /\ upsets < MaxUpsets /\ upsets' = upsets + 1
    BY <1>9 DEF Delete, TypeOK
  <2>2. upsets' \in 0..MaxUpsets
    BY <2>1, Bounds
  <2> QED BY <1>9, <2>2 DEF Delete, TypeOK
<1>10. CASE UNCHANGED vars
  BY <1>10 DEF vars, TypeOK
<1> QED
  BY <1>1, <1>2, <1>3, <1>4, <1>5, <1>6, <1>7, <1>8, <1>9, <1>10 DEF Next

-----------------------------------------------------------------------------
\* The invariant: a step at a time

LEMMA InitIInv == Init => IInv
<1> SUFFICES ASSUME Init PROVE IInv
  OBVIOUS
<1>1. \A s \in Slots : requests[s].kind \in {"idle", "get"}
  BY DEF Init, NewRequest, Idle
<1>2. \A s, t \in Slots : requests[s].kind = "get" /\ requests[t].kind = "get" => s = t
  <2>1. IsFiniteSet(InFlight)
    BY BoundsAssumption, FS_Subset DEF InFlight
  <2>2. \A s \in Slots : requests[s].kind = "get" => s \in InFlight
    BY DEF InFlight, Idle
  <2>3. CASE url = NoId
    BY <2>1, <2>2, <2>3, FS_EmptySet DEF Init
  <2>4. CASE url # NoId
    <3>1. \E s : InFlight = {s}
      BY <2>1, <2>4, FS_Singleton DEF Init
    <3> QED BY <2>2, <3>1
  <2> QED BY <2>3, <2>4
<1>3. \A s \in Slots : requests[s].kind = "get" =>
         requests[s].state = "sent" /\ requests[s].id = FirstId /\ requests[s].drawing = {}
         /\ requests[s].at = 0
  BY DEF Init, NewRequest, Idle
<1>4. Known
  <2>1. \A s \in InFlight : requests[s].kind = "get"
    BY DEF Init, InFlight, NewRequest
  <2>2. /\ drawing = {} /\ edits = 0 /\ sheetId = NoId /\ url \in {NoId, FirstId}
        /\ created = {FirstId} /\ \A id \in Ids : stored[id] \subseteq {0}
    BY DEF Init
  <2> QED BY <1>3, <2>1, <2>2 DEF Known, InFlight
<1>5. ASSUME NEW s \in Slots
      PROVE  Untold(s) /\ Awaiting(s) /\ Current(s) /\ Ahead(s) /\ Fetched(s) /\ Unshared(s)
  <2>1. Awaiting(s)
    BY <1>1, <1>2, <1>3, IdsAssumption DEF Init, Awaiting, Load, Pending, Fresh
  <2> QED BY <1>1, <1>3, <2>1
          DEF Untold, Current, Ahead, Fetched, Unshared, Made, Loaded, Load, Fresh
<1>6. \A id \in Kept : id = FirstId
  BY DEF Kept, Init
<1>7. Separate /\ Owned /\ Attached
  BY <1>6 DEF Separate, Owned, Attached, Init
<1> QED BY <1>4, <1>5, <1>7 DEF IInv, Follows, Apart

\* A new edit is nowhere yet.
LEMMA EditKeeps ==
  ASSUME TypeOK, IInv, Edit \/ EditQuietly
  PROVE  IInv'
<1>1. edits \in Nat /\ edits' = edits + 1 /\ drawing' = drawing \cup {edits'}
  BY DEF Edit, EditQuietly, TypeOK
<1>2. UNCHANGED <<sheetId, url, requests, stored, created, live, spare, astray>>
  BY DEF Edit, EditQuietly, server
<1>3. Known'
  <2>1. \A s \in InFlight : requests[s].at \in Int
    BY InSlots DEF Request, InFlight
  <2> QED BY <1>1, <1>2, <2>1 DEF IInv, Follows, Known, InFlight
<1>4. \A id \in Ids : ~Has(id, edits')
  <2>1. \A s \in Slots, id \in Ids : Sent(requests[s], id) => s \in InFlight
    BY InSlots DEF Sent
  <2> QED BY <1>1, <2>1 DEF IInv, Follows, Known, Has
<1>5. \A id, n : Has(id, n)' <=> Has(id, n)
  BY <1>2 DEF Has
<1>6. (OwnDrawing' <=> OwnDrawing) /\ Kept' = Kept /\ Kept \subseteq Ids /\ InFlight' = InFlight
  BY <1>2 DEF OwnDrawing, Kept, TypeOK, InFlight
<1>7. Separate' /\ Attached'
  BY <1>1, <1>2, <1>5, <1>6 DEF IInv, Apart, Separate, Attached
<1>8. Owned'
  BY <1>1, <1>2, <1>4, <1>5, <1>6 DEF IInv, Apart, Owned
<1>9. ASSUME NEW s \in Slots
      PROVE  Untold(s)' /\ Awaiting(s)' /\ Current(s)' /\ Ahead(s)' /\ Fetched(s)' /\ Unshared(s)'
  <2>1. Untold(s)' /\ Awaiting(s)'
    BY <1>2, <1>6 DEF IInv, Follows, Untold, Awaiting
  <2>2. Current(s)' /\ Ahead(s)'
    BY <1>1, <1>2 DEF IInv, Follows, Current, Ahead
  <2>3. Fetched(s)'
    BY <1>2, <1>5, <1>6 DEF IInv, Apart, Fetched
  <2>4. Unshared(s)'
    <3>1. Fresh(requests[s]) => s \in InFlight
      BY InSlots DEF Fresh
    <3>2. Fresh(requests[s]) => edits' \notin requests[s].drawing
      BY <1>1, <3>1 DEF IInv, Follows, Known
    <3> QED BY <1>1, <1>2, <1>5, <1>6, <3>2 DEF IInv, Apart, Unshared
  <2> QED BY <2>1, <2>2, <2>3, <2>4
<1> QED BY <1>3, <1>7, <1>8, <1>9 DEF IInv, Follows, Apart

\* A save sends what is on display, which only its own sheet has, if any.
LEMMA SaveKeeps ==
  ASSUME TypeOK, IInv, NEW s \in Slots, TimerFires(s) \/ ClickSave(s)
  PROVE  IInv'
<1> DEFINE q == requests'[s]
<1>1. /\ requests[s] = Idle /\ q \in Request
      /\ \A t \in Slots \ {s} : requests'[t] = requests[t]
      /\ q.kind = (IF sheetId = NoId THEN "create" ELSE "update")
      /\ q.id = sheetId /\ q.drawing = drawing /\ q.state = "sent" /\ q.mine /\ q.at = edits
      /\ q.spare <=> sheetId = NoId /\ AwaitsSheet
      /\ q.stale <=> sheetId # NoId /\ astray
      /\ UNCHANGED <<drawing, edits, sheetId, url, stored, created, live, spare, astray>>
  BY SaveSends
<1> HIDE DEF q
<1>2. requests'[s] = q /\ requests[s].kind = "idle" /\ q # Idle
  BY <1>1, IdleIsNone DEF q
<1>3. \A t \in Slots : Pending(requests[t]) \/ Load(requests[t]) \/ Made(requests[t]) => AwaitsSheet
  BY InSlots DEF Pending, Fresh, Load, Made, AwaitsSheet
<1>4. InFlight' = InFlight \cup {s} /\ Kept' = Kept /\ NoId \notin created
  BY <1>1, <1>2, IdsAssumption DEF InFlight, Kept, TypeOK
<1>5. Known'
  <2>1. q.drawing \subseteq 0..edits /\ q.at <= edits /\ q.id \in created \cup {NoId}
        /\ (q.kind = "update" => q.id # NoId)
    BY <1>1 DEF IInv, Follows, Known, TypeOK
  <2>2. \A t \in InFlight : requests'[t] = requests[t]
    BY <1>1 DEF InFlight
  <2> QED BY <1>1, <1>2, <1>4, <2>1, <2>2 DEF IInv, Follows, Known
<1>6. ASSUME NEW t \in Slots PROVE Untold(t)'
  <2>1. CASE t = s
    BY <1>1, <1>2, <2>1 DEF Untold, Made
  <2>2. CASE t # s
    <3>1. requests'[t] = requests[t]
      BY <1>1, <2>2
    <3>2. \A u \in InFlight : requests'[u] = requests[u]
      BY <1>1 DEF InFlight
    <3> QED BY <1>1, <1>2, <1>4, <2>2, <3>1, <3>2 DEF IInv, Follows, Untold
  <2> QED BY <2>1, <2>2
<1>7. \A t \in Slots : Awaiting(t)'
  BY <1>1, <1>2, <1>3 DEF IInv, Follows, Awaiting, Load, Pending, Fresh
<1>8. \A t \in Slots : Current(t)'
  BY <1>1, <1>2 DEF IInv, Follows, Current, Awaiting, Loaded, Load, Sent
<1>9. \A t \in Slots : Ahead(t)'
  <2>1. \A t \in Slots : requests[t].kind = "update" => requests[t].at \in Int /\ requests[t].at <= edits
    BY InSlots DEF IInv, Follows, Known, Request
  <2>2. Ahead(s)'
    BY <1>1, <1>2 DEF IInv, Follows, Ahead, Attached, Sent
  <2>3. ASSUME NEW t \in Slots \ {s} PROVE Ahead(t)'
    BY <1>1, <1>2, <2>1, <2>3 DEF IInv, Follows, Ahead, Sent, TypeOK
  <2> QED BY <2>2, <2>3
<1>10. Attached'
  BY <1>1 DEF IInv, Attached
<1>11. \A id \in Ids : \A n : Has(id, n)' <=> Has(id, n) \/ (id = sheetId /\ n \in drawing)
  BY <1>1, <1>2, IdsAssumption DEF Has, Sent
<1>12. OwnDrawing' => OwnDrawing
  <2>1. CASE sheetId = NoId
    BY <2>1, <1>4 DEF OwnDrawing, TypeOK
  <2>2. CASE sheetId # NoId
    BY <1>1, <1>2, <2>2 DEF OwnDrawing, Pending, Fresh
  <2> QED BY <2>1, <2>2
\* With a sheet of the kept, the page awaits none.
<1>13. sheetId \in Kept => \A t \in Slots : ~Pending(requests[t]) /\ ~Load(requests[t])
  BY <1>4 DEF IInv, Follows, Awaiting, Kept
<1>14. \A t \in Slots : Made(requests[t]) /\ requests[t].id \in Kept => Pending(requests[t])
  BY InSlots DEF IInv, Follows, Untold, Kept, Made, Pending, Fresh
<1>15. sheetId \in Kept =>
         \A id \in Kept, n \in drawing : Has(id, n) => id = sheetId
  BY <1>13, <1>14 DEF IInv, Apart, Owned, OwnDrawing, Kept
<1>16. Kept \subseteq Ids /\ drawing \subseteq 0..MaxEdits
  BY DEF Kept, TypeOK, Drawings
<1>17. Separate'
  BY <1>4, <1>11, <1>15, <1>16 DEF IInv, Apart, Separate
<1>18. Owned'
  BY <1>1, <1>2, <1>4, <1>11, <1>12, <1>16 DEF IInv, Apart, Owned, Made
<1>19. \A t \in Slots : Fetched(t)'
  BY <1>1, <1>2, <1>4, <1>11, <1>13, <1>16 DEF IInv, Apart, Fetched, Loaded, Load
<1>20. Fresh(q) => /\ sheetId = NoId /\ OwnDrawing
                   /\ \A t \in Slots : ~Pending(requests[t]) /\ ~Load(requests[t]) /\ ~Made(requests[t])
  BY <1>1, <1>3, <1>4 DEF Fresh, OwnDrawing, TypeOK
<1>21. ASSUME NEW t \in Slots PROVE Unshared(t)'
  <2>1. CASE t = s
    <3>1. Fresh(q) => \A id \in Kept : \A n \in drawing : ~Has(id, n)'
      BY <1>4, <1>11, <1>16, <1>20 DEF IInv, Apart, Owned, Kept
    <3>2. Fresh(q) => \A u \in Slots \ {s} : Fresh(requests[u]) /\ requests[u].state = "sent"
                         => drawing \cap requests[u].drawing = {}
      BY <1>20 DEF IInv, Apart, Unshared, Pending
    <3> QED BY <1>1, <1>2, <1>4, <1>20, <2>1, <3>1, <3>2 DEF Unshared, Loaded, Load, Fresh
  <2>2. CASE t # s
    <3> DEFINE r == requests[t]
    <3>0. requests'[t] = r
      BY <1>1, <2>2
    <3> SUFFICES ASSUME Fresh(r), r.state = "sent"
                 PROVE  /\ \A id \in Kept : \A n \in r.drawing : ~Has(id, n)'
                        /\ Fresh(q) => r.drawing \cap drawing = {}
                        /\ ~r.mine /\ OwnDrawing => r.drawing \cap drawing = {}
      BY <1>1, <1>2, <1>4, <1>12, <3>0 DEF IInv, Apart, Unshared, Fresh, Loaded, Load
    <3>1. ~r.mine /\ OwnDrawing => r.drawing \cap drawing = {}
      BY DEF IInv, Apart, Unshared
    <3>2. Fresh(q) => ~r.mine /\ OwnDrawing
      BY <1>20 DEF Pending
    <3>3. sheetId \in Kept => ~r.mine /\ OwnDrawing
      BY <1>13 DEF Pending, OwnDrawing, Kept
    <3>4. \A id \in Kept : \A n \in r.drawing : ~Has(id, n)
      BY DEF IInv, Apart, Unshared
    <3> QED BY <1>11, <1>16, <3>1, <3>2, <3>3, <3>4
  <2> QED BY <2>1, <2>2
<1> QED BY <1>5, <1>6, <1>7, <1>8, <1>9, <1>10, <1>17, <1>18, <1>19, <1>21 DEF IInv, Follows, Apart

\* A reload leaves the drawing empty, and what is in flight to itself.
LEMMA ReloadKeeps ==
  ASSUME TypeOK, IInv, NEW s \in Slots, Reload(s)
  PROVE  IInv'
<1>1. /\ requests[s] = Idle
      /\ url = NoId => requests'[s] = Idle
      /\ url # NoId => /\ requests'[s].kind = "get" /\ requests'[s].id = url
                       /\ requests'[s].drawing = {} /\ requests'[s].state = "sent"
                       /\ requests'[s].at = edits
      /\ requests'[s].kind \in {"idle", "get"}
      /\ drawing' = {} /\ sheetId' = NoId /\ astray' = FALSE
      /\ UNCHANGED <<edits, url, stored, created, live, spare>>
  BY ReloadSends, IdleIsNone
<1>2. \A t \in Slots \ {s} :
              /\ requests'[t] = Idle <=> requests[t] = Idle
              /\ requests'[t].kind = requests[t].kind
              /\ requests[t] # Idle =>
                   /\ ~requests'[t].mine
                   /\ requests'[t].id = requests[t].id /\ requests'[t].drawing = requests[t].drawing
                   /\ requests'[t].state = requests[t].state /\ requests'[t].at = requests[t].at
                   /\ requests'[t].spare = requests[t].spare /\ requests'[t].stale = requests[t].stale
  BY ReloadSends
<1>3. \A t \in Slots : requests[t].kind # "idle" => requests[t] # Idle /\ t \in InFlight /\ t # s
  BY <1>1, InSlots, IdleIsNone
<1>4. /\ \A t \in Slots : ~Made(requests'[t]) /\ ~Pending(requests'[t]) /\ ~Loaded(requests'[t])
      /\ \A t \in Slots : Load(requests'[t]) => t = s /\ url # NoId
  BY <1>1, <1>2, <1>3, IdleIsNone DEF Made, Pending, Fresh, Loaded, Load
<1>5. \A t \in Slots : \A id : Sent(requests'[t], id) <=> Sent(requests[t], id)
  BY <1>1, <1>2, <1>3, IdleIsNone DEF Sent
<1>6. \A id, n : Has(id, n)' <=> Has(id, n)
  BY <1>1, <1>2, <1>3, <1>5 DEF Has, Sent
<1>7. Kept' = Kept /\ NoId \notin spare
  BY <1>1, IdsAssumption DEF Kept, TypeOK
<1>8. Known'
  <2>1. edits \in Nat
    BY DEF TypeOK
  <2>2. ASSUME NEW t \in Slots, requests'[t] # Idle
        PROVE  /\ requests'[t].drawing \subseteq 0..edits /\ requests'[t].at <= edits
               /\ requests'[t].id \in created \cup {NoId}
               /\ requests'[t].kind = "update" => requests'[t].id # NoId
    <3>1. CASE t = s
      BY <1>1, <2>1, <2>2, <3>1 DEF IInv, Follows, Known
    <3>2. CASE t # s
      BY <1>2, <2>2, <3>2 DEF IInv, Follows, Known, InFlight
    <3> QED BY <3>1, <3>2
  <2> QED BY <1>1, <2>2 DEF IInv, Follows, Known, InFlight
<1>9. ASSUME NEW t \in Slots PROVE Untold(t)' /\ Awaiting(t)' /\ Current(t)' /\ Fetched(t)'
  <2>1. Untold(t)' /\ Fetched(t)'
    BY <1>4 DEF Untold, Fetched
  <2>2. Awaiting(t)'
    BY <1>1, <1>4 DEF Awaiting
  <2>3. requests'[t].kind = "create" => ~requests'[t].mine
    BY <1>1, <1>2, <1>3
  <2> QED BY <1>4, <2>1, <2>2, <2>3 DEF Current
<1>10. ASSUME NEW t \in Slots PROVE Ahead(t)'
  <2> SUFFICES ASSUME requests'[t].kind = "update", requests'[t].state = "sent"
               PROVE  /\ requests'[t].id # NoId
                      /\ ~requests'[t].stale => /\ stored[requests'[t].id] \subseteq requests'[t].drawing
                           /\ \A u \in Slots : Sent(requests'[u], requests'[t].id)
                                                /\ requests'[u].at < requests'[t].at
                                 => requests'[u].drawing \subseteq requests'[t].drawing
    BY <1>1 DEF Ahead
  <2>1. t # s /\ requests[t].kind = "update" /\ requests[t] # Idle
    BY <1>1, <1>2, <1>3
  <2>2. \A u \in Slots : Sent(requests[u], requests[t].id) =>
          requests'[u].at = requests[u].at /\ requests'[u].drawing = requests[u].drawing
    BY <1>1, <1>2, <1>3 DEF Sent
  <2>3. t \in InFlight
    BY <2>1 DEF InFlight
  <2> QED BY <1>2, <1>5, <2>1, <2>2, <2>3 DEF IInv, Follows, Known, Ahead
<1>11. Separate' /\ Owned' /\ Attached'
  BY <1>1, <1>6, <1>7 DEF IInv, Apart, Separate, Owned, Attached
<1>12. ASSUME NEW t \in Slots PROVE Unshared(t)'
  <2>1. \A u \in Slots : Fresh(requests'[u]) => /\ u # s /\ Fresh(requests[u])
                              /\ requests'[u].state = requests[u].state
                              /\ requests'[u].drawing = requests[u].drawing
    BY <1>1, <1>2, <1>3 DEF Fresh
  <2> QED BY <1>1, <1>4, <1>6, <1>7, <2>1 DEF IInv, Apart, Unshared
<1> QED BY <1>8, <1>9, <1>10, <1>11, <1>12 DEF IInv, Follows, Apart

\* A load reads the sheet as it is; if no save of it is under way, it stays so.
LEMMA GetKeeps ==
  ASSUME TypeOK, IInv, NEW s \in Slots, Handle(s), HandleGet(s)
  PROVE  IInv'
<1> DEFINE r == requests[s]
           q == requests'[s]
<1>1. /\ \A t \in Slots \ {s} : requests'[t] = requests[t]
      /\ r \in Request /\ r.kind = "get" /\ r.state = "sent" /\ q \in Request
      /\ q.kind = "get" /\ q.id = r.id /\ q.mine = r.mine /\ q.at = r.at /\ q.state # "sent"
      /\ q.state = "handled" =>
              /\ r.id \in live /\ q.drawing = stored[r.id]
              /\ q.stale <=> \E t \in Slots : Sent(requests[t], r.id)
      /\ q.state # "handled" => q.drawing = r.drawing
      /\ UNCHANGED <<drawing, edits, sheetId, url, stored, created, live, spare, astray>>
  BY GetHandled DEF client
<1> HIDE DEF q
<1>2. requests'[s] = q /\ q # Idle /\ r # Idle
  BY <1>1, IdleIsNone DEF q
<1>3. InFlight' = InFlight /\ s \in InFlight /\ Kept' = Kept
  BY <1>1, <1>2 DEF InFlight, Kept
<1>4. \A t \in Slots : \A id : Sent(requests'[t], id) <=> Sent(requests[t], id)
  BY <1>1, <1>2 DEF Sent
<1>5. \A id, n : Has(id, n)' <=> Has(id, n)
  BY <1>1, <1>2, <1>4 DEF Has, Sent
<1>6. /\ \A t \in Slots : /\ Made(requests'[t]) <=> Made(requests[t])
                          /\ Pending(requests'[t]) <=> Pending(requests[t])
                          /\ Fresh(requests'[t]) <=> Fresh(requests[t])
                          /\ Load(requests'[t]) <=> Load(requests[t])
      /\ OwnDrawing' <=> OwnDrawing
  BY <1>1, <1>2 DEF Made, Pending, Fresh, Load, OwnDrawing
<1>7. \A t \in Slots : requests'[t].id = requests[t].id
  BY <1>1, <1>2
<1>8. Known'
  <2>1. q.drawing \subseteq 0..edits
    <3>1. r.drawing \subseteq 0..edits /\ \A id \in Ids : stored[id] \subseteq 0..edits
      BY <1>3 DEF IInv, Follows, Known
    <3>2. q.state = "handled" => r.id \in Ids
      BY <1>1 DEF TypeOK
    <3> QED BY <1>1, <3>1, <3>2
  <2>2. q.at <= edits /\ q.id \in created \cup {NoId}
    BY <1>1, <1>3 DEF IInv, Follows, Known
  <2>3. \A t \in InFlight \ {s} : requests'[t] = requests[t]
    BY <1>1 DEF InFlight
  <2> QED BY <1>1, <1>2, <1>3, <2>1, <2>2, <2>3 DEF IInv, Follows, Known
<1>9. ASSUME NEW t \in Slots PROVE Untold(t)' /\ Awaiting(t)'
  <2>1. Made(requests'[t]) \/ Pending(requests'[t]) => t # s /\ requests'[t] = requests[t]
    BY <1>1, <1>2 DEF Made, Pending, Fresh
  <2>2. Untold(t)'
    <3> SUFFICES ASSUME Made(requests'[t]) PROVE Untold(t)'
      BY DEF Untold
    <3>1. Made(requests[t]) /\ requests'[t] = requests[t]
      BY <1>6, <2>1
    <3>2. \A u \in InFlight : requests'[u].id = requests[u].id
      BY <1>7 DEF InFlight
    <3> QED BY <1>1, <1>3, <3>1, <3>2 DEF IInv, Follows, Untold
  <2>3. Awaiting(t)'
    BY <1>1, <1>6, <1>7, <2>1 DEF IInv, Follows, Awaiting
  <2> QED BY <2>2, <2>3
<1>10. ASSUME NEW t \in Slots PROVE Current(t)'
  <2>1. CASE t = s
    BY <1>1, <1>2, <1>4, <2>1 DEF Current, Loaded
  <2>2. CASE t # s
    BY <1>1, <1>4, <2>2 DEF IInv, Follows, Current
  <2> QED BY <2>1, <2>2
<1>11. ASSUME NEW t \in Slots PROVE Ahead(t)'
  BY <1>1, <1>2, <1>4 DEF IInv, Follows, Ahead, Sent
<1>12. Separate' /\ Owned' /\ Attached'
  BY <1>1, <1>3, <1>5, <1>6, <1>7 DEF IInv, Apart, Separate, Owned, Attached
<1>13. ASSUME NEW t \in Slots PROVE Fetched(t)'
  <2>1. CASE t = s
    <3>1. \A n : n \in q.drawing /\ q.state = "handled" => Has(r.id, n)
      BY <1>1 DEF Has
    <3>2. r.id \in Kept => q.drawing \subseteq 0..MaxEdits
      BY <1>1 DEF Request, Drawings
    <3> QED BY <1>1, <1>2, <1>3, <1>5, <2>1, <3>1, <3>2 DEF IInv, Apart, Separate, Fetched, Loaded
  <2>2. CASE t # s
    BY <1>1, <1>3, <1>5, <2>2 DEF IInv, Apart, Fetched
  <2> QED BY <2>1, <2>2
<1>14. ASSUME NEW t \in Slots PROVE Unshared(t)'
  <2>1. Fresh(requests'[t]) => t # s /\ requests'[t] = requests[t]
    BY <1>1, <1>2 DEF Fresh
  <2> DEFINE f == requests[t]
  <2> SUFFICES ASSUME Fresh(f), f.state = "sent", t # s PROVE Unshared(t)'
    BY <2>1 DEF Unshared
  <2>2. requests'[t] = f
    BY <1>1
  <2>3. q.state = "handled" /\ r.id \in Kept => f.drawing \cap q.drawing = {}
    <3>1. r.id \in Kept => \A n \in f.drawing : ~Has(r.id, n)
      BY DEF IInv, Apart, Unshared
    <3> QED BY <1>1, <3>1 DEF Has
  <2>4. \A u \in Slots : Loaded(requests'[u]) /\ requests'[u].id \in Kept
                           => f.drawing \cap requests'[u].drawing = {}
    BY <1>1, <1>2, <2>3 DEF IInv, Apart, Unshared, Loaded
  <2>5. \A u \in Slots \ {t} : Fresh(requests'[u]) => u # s
    BY <1>1, <1>2 DEF Fresh
  <2> QED BY <1>1, <1>3, <1>5, <1>6, <2>2, <2>4, <2>5 DEF IInv, Apart, Unshared
<1> QED BY <1>8, <1>9, <1>10, <1>11, <1>12, <1>13, <1>14 DEF IInv, Follows, Apart

\* A sheet is made: the page alone will hear of it, and nobody has its edits.
LEMMA CreateKeeps ==
  ASSUME TypeOK, IInv, NEW s \in Slots, Handle(s), HandleCreate(s)
  PROVE  IInv'
<1> DEFINE r == requests[s]
           q == requests'[s]
<1>1. /\ \A t \in Slots \ {s} : requests'[t] = requests[t]
      /\ r \in Request /\ r.kind = "create" /\ r.state = "sent" /\ q \in Request
      /\ q.kind = "create" /\ q.state = "handled" /\ q.drawing = r.drawing /\ q.mine = r.mine
      /\ q.at = r.at /\ q.spare = r.spare /\ q.stale = r.stale
      /\ q.id \in Ids \ created
      /\ stored'[q.id] = r.drawing
      /\ \A id \in Ids \ {q.id} : stored'[id] = stored[id]
      /\ created' = created \cup {q.id}
      /\ spare' = (IF r.spare THEN spare \cup {q.id} ELSE spare)
      /\ UNCHANGED <<drawing, edits, sheetId, url, astray>>
  BY CreateHandled DEF client
<1>0. PICK new \in Ids \ created : q.id = new
  BY <1>1
<1> HIDE DEF q
<1>2. requests'[s] = q /\ q # Idle /\ r # Idle /\ NoId \notin Ids
  BY <1>0, <1>1, IdleIsNone, IdsAssumption DEF q
<1>3. /\ InFlight' = InFlight /\ s \in InFlight
      /\ Kept' = IF r.spare THEN Kept ELSE Kept \cup {new}
      /\ Kept \subseteq created /\ created \subseteq Ids /\ spare \subseteq created
  BY <1>0, <1>1, <1>2 DEF InFlight, Kept, TypeOK
<1>4. /\ \A t \in InFlight : requests[t].id \in created \cup {NoId}
      /\ sheetId \in created \cup {NoId}
      /\ \A t \in InFlight : requests[t].id # new
      /\ sheetId # new
  BY <1>0, <1>1, <1>2, <1>3 DEF IInv, Follows, Known
<1>5. /\ \A t \in Slots : \A id : Sent(requests'[t], id) <=> Sent(requests[t], id)
      /\ \A t \in Slots : ~Sent(requests[t], new)
  <2>1. \A t \in Slots : requests[t].kind = "update" => t \in InFlight
    BY InSlots
  <2> QED BY <1>0, <1>1, <1>2, <1>4, <2>1 DEF Sent
<1>6. /\ \A id \in created : \A n : Has(id, n)' <=> Has(id, n)
      /\ \A n : Has(new, n)' <=> n \in r.drawing
  <2>1. \A t \in Slots : \A id : Sent(requests[t], id) => requests'[t] = requests[t]
    BY <1>1 DEF Sent
  <2> QED BY <1>0, <1>1, <1>2, <1>3, <1>5, <2>1 DEF Has
<1>7. /\ \A t \in Slots : /\ Pending(requests'[t]) <=> Pending(requests[t])
                          /\ Fresh(requests'[t]) <=> Fresh(requests[t])
                          /\ Load(requests'[t]) <=> Load(requests[t])
                          /\ Loaded(requests'[t]) <=> Loaded(requests[t])
                          /\ Load(requests'[t]) => t # s
      /\ \A t \in Slots \ {s} : Made(requests'[t]) <=> Made(requests[t])
      /\ ~Made(requests[s]) /\ (Made(requests'[s]) <=> r.mine)
  BY <1>0, <1>1, <1>2 DEF Made, Pending, Fresh, Load, Loaded
<1>8. OwnDrawing' <=> OwnDrawing
  BY <1>0, <1>1, <1>4, <1>7 DEF OwnDrawing
<1>9. Known'
  <2>1. r.drawing \subseteq 0..edits /\ r.at <= edits
    BY <1>3 DEF IInv, Follows, Known
  <2>2. \A t \in InFlight \ {s} : requests'[t] = requests[t]
    BY <1>0, <1>1 DEF InFlight
  <2>3. \A id \in Ids : stored'[id] \subseteq 0..edits
    BY <1>0, <1>1, <2>1 DEF IInv, Follows, Known
  <2> QED BY <1>0, <1>1, <1>2, <1>3, <2>1, <2>2, <2>3 DEF IInv, Follows, Known
<1>10. ASSUME NEW t \in Slots PROVE Untold(t)'
  <2>1. CASE t = s
    <3>1. \A u \in InFlight \ {s} : requests'[u].id # new
      BY <1>0, <1>1, <1>4 DEF InFlight
    <3> QED BY <1>0, <1>1, <1>2, <1>3, <1>4, <2>1, <3>1 DEF Untold
  <2>2. CASE t # s
    <3> DEFINE f == requests[t]
    <3> SUFFICES ASSUME Made(f) PROVE Untold(t)'
      BY <1>7, <2>2 DEF Untold
    <3>1. /\ f.id \in created /\ sheetId # f.id /\ stored[f.id] = f.drawing
          /\ \A u \in InFlight \ {t} : requests[u].id # f.id
          /\ f.spare => f.id \in spare
      BY DEF IInv, Follows, Untold
    <3>2. f.id # new /\ requests'[t] = f
      BY <1>0, <1>1, <2>2, <3>1
    <3>3. \A u \in InFlight \ {t} : requests'[u].id # f.id
      BY <1>0, <1>1, <1>2, <3>1, <3>2 DEF InFlight
    <3> QED BY <1>0, <1>1, <1>3, <3>1, <3>2, <3>3 DEF Untold
  <2> QED BY <2>1, <2>2
<1>11. ASSUME NEW t \in Slots PROVE Awaiting(t)'
  <2>1. spare \subseteq spare'
    BY <1>1
  <2> QED BY <1>0, <1>1, <1>2, <1>7, <2>1 DEF IInv, Follows, Awaiting
<1>12. ASSUME NEW t \in Slots PROVE Current(t)'
  <2>1. CASE t = s
    BY <1>1, <1>2, <2>1 DEF IInv, Follows, Current, Loaded, Load
  <2>2. CASE t # s
    <3>1. requests'[t] = requests[t]
      BY <1>0, <1>1, <2>2
    <3>2. Loaded(requests[t]) => requests[t].id \in Ids /\ requests[t].id # new
      <4>1. Loaded(requests[t]) => t \in InFlight /\ requests[t].id # NoId
        BY InSlots DEF IInv, Follows, Awaiting, Loaded, Load
      <4> QED BY <1>0, <1>1, <1>3, <1>4, <4>1
    <3> QED BY <1>0, <1>1, <1>5, <3>1, <3>2 DEF IInv, Follows, Current
  <2> QED BY <2>1, <2>2
<1>13. ASSUME NEW t \in Slots PROVE Ahead(t)'
  <2> DEFINE f == requests[t]
  <2> SUFFICES ASSUME f.kind = "update", f.state = "sent" PROVE Ahead(t)'
    BY <1>0, <1>1, <1>2 DEF Ahead
  <2>1. requests'[t] = f /\ f.id \in Ids /\ f.id # new
    <3>1. t \in InFlight /\ t # s
      BY <1>0, <1>1, InSlots
    <3> QED BY <1>0, <1>1, <1>3, <1>4, <3>1 DEF IInv, Follows, Known
  <2>2. \A u \in Slots : Sent(requests[u], f.id) => requests'[u] = requests[u]
    BY <1>0, <1>1 DEF Sent
  <2> QED BY <1>0, <1>1, <1>5, <2>1, <2>2 DEF IInv, Follows, Ahead
<1>14. Attached'
  BY <1>0, <1>1, <1>3, <1>4 DEF IInv, Attached
<1>15. ~r.spare => \A id \in Kept : \A n \in r.drawing : ~Has(id, n)
  BY <1>0, <1>1 DEF IInv, Apart, Unshared, Fresh
<1>16. Separate'
  BY <1>0, <1>1, <1>3, <1>6, <1>15 DEF IInv, Apart, Separate
<1>17. Owned'
  <2> SUFFICES ASSUME OwnDrawing, NEW id \in Kept', NEW n \in drawing, Has(id, n)'
               PROVE  id = sheetId \/ \E u \in Slots : Made(requests'[u]) /\ requests'[u].id = id
    BY <1>0, <1>1, <1>8 DEF Owned
  <2>1. CASE id = new
    <3>1. ~r.spare
      BY <1>0, <1>1, <1>3, <2>1
    <3>2. ~r.mine => r.drawing \cap drawing = {}
      BY <1>0, <1>1, <3>1 DEF IInv, Apart, Unshared, Fresh
    <3> QED BY <1>0, <1>2, <1>6, <1>7, <2>1, <3>2
  <2>2. CASE id # new
    <3>1. id \in Kept /\ Has(id, n)
      BY <1>0, <1>1, <1>3, <1>6, <2>2
    <3>2. id = sheetId \/ \E u \in Slots : Made(requests[u]) /\ requests[u].id = id
      BY <3>1 DEF IInv, Apart, Owned
    <3> QED BY <1>0, <1>1, <1>7, <3>2
  <2> QED BY <2>1, <2>2
<1>18. ASSUME NEW t \in Slots PROVE Fetched(t)'
  <2> DEFINE f == requests[t]
  <2> SUFFICES ASSUME Loaded(f), f.id \in Kept' PROVE Fetched(t)'
    BY <1>0, <1>1, <1>7 DEF Fetched, Loaded
  <2>1. t # s /\ requests'[t] = f /\ t \in InFlight
    BY <1>0, <1>1, <1>7, InSlots DEF Loaded, Load
  <2>2. f.id # new /\ f.id \in Kept
    BY <1>0, <1>1, <1>3, <1>4, <2>1
  <2>3. ~r.spare => r.drawing \cap f.drawing = {}
    BY <1>0, <1>1, <2>2 DEF IInv, Apart, Unshared, Fresh
  <2> QED BY <1>0, <1>1, <1>3, <1>6, <2>1, <2>2, <2>3 DEF IInv, Apart, Fetched
<1>19. ASSUME NEW t \in Slots PROVE Unshared(t)'
  <2> DEFINE f == requests[t]
  <2> SUFFICES ASSUME Fresh(f), f.state = "sent", t # s PROVE Unshared(t)'
    BY <1>0, <1>1, <1>2, <1>7 DEF Unshared
  <2>1. requests'[t] = f
    BY <1>1
  <2>2. ~r.spare => f.drawing \cap r.drawing = {}
    BY <1>0, <1>1 DEF IInv, Apart, Unshared, Fresh
  <2>3. \A id \in Kept' : \A n \in f.drawing : ~Has(id, n)'
    BY <1>0, <1>1, <1>3, <1>6, <2>2 DEF IInv, Apart, Unshared
  <2>4. \A u \in Slots : Loaded(requests'[u]) => requests'[u] = requests[u] /\ requests[u].id # new
    <3>1. \A u \in Slots : Loaded(requests[u]) => u \in InFlight
      BY InSlots DEF Loaded, Load
    <3> QED BY <1>0, <1>1, <1>4, <1>7, <3>1 DEF Loaded
  <2>5. \A u \in Slots : Loaded(requests'[u]) /\ requests'[u].id \in Kept'
                           => f.drawing \cap requests'[u].drawing = {}
    BY <1>0, <1>1, <1>3, <2>4 DEF IInv, Apart, Unshared
  <2>6. \A u \in Slots \ {t} : Fresh(requests'[u]) /\ requests'[u].state = "sent"
                           => f.drawing \cap requests'[u].drawing = {}
    BY <1>0, <1>1, <1>2 DEF IInv, Apart, Unshared
  <2> QED BY <1>0, <1>1, <1>8, <2>1, <2>3, <2>5, <2>6 DEF IInv, Apart, Unshared
<1> QED BY <1>9, <1>10, <1>11, <1>12, <1>13, <1>14, <1>16, <1>17, <1>18, <1>19
        DEF IInv, Follows, Apart

\* An update lands: what it brings is no less than the sheet has, or it is stale.
LEMMA UpdateKeeps ==
  ASSUME TypeOK, IInv, NEW s \in Slots, Handle(s), HandleUpdate(s)
  PROVE  IInv'
<1> DEFINE r == requests[s]
           q == requests'[s]
<1>1. /\ r \in Request /\ r.kind = "update" /\ r.state = "sent" /\ q \in Request
      /\ q.kind = "update" /\ q.state # "sent" /\ q.drawing = r.drawing /\ q.mine = r.mine
      /\ q.at = r.at /\ q.id = r.id
      /\ q.state # "handled" => stored' = stored
      /\ q.state = "handled" => r.id \in Ids /\ stored' = [stored EXCEPT ![r.id] = r.drawing]
      /\ UNCHANGED <<drawing, edits, sheetId, url, created, spare, astray>>
  BY UpdateHandled DEF client
<1>2. \A t \in Slots \ {s} :
              /\ requests'[t] = Idle <=> requests[t] = Idle
              /\ requests'[t].kind = requests[t].kind
              /\ requests[t] # Idle =>
                   /\ requests'[t].mine = requests[t].mine
                   /\ requests'[t].id = requests[t].id /\ requests'[t].drawing = requests[t].drawing
                   /\ requests'[t].state = requests[t].state /\ requests'[t].at = requests[t].at
                   /\ requests'[t].spare = requests[t].spare
                   /\ requests[t].kind # "update" => requests'[t].stale = requests[t].stale
                   /\ ~requests'[t].stale => ~requests[t].stale
                   /\ q.state = "handled" /\ Sent(requests[t], r.id) /\ ~requests'[t].stale
                        => r.at < requests[t].at
  BY UpdateHandled
<1> HIDE DEF q
<1>3. requests'[s] = q /\ q # Idle /\ r # Idle /\ s \in InFlight /\ r.id \in created
  BY <1>1, InSlots, IdleIsNone DEF q, IInv, Follows, Known
<1>4. InFlight' = InFlight /\ Kept' = Kept /\ created \subseteq Ids
  BY <1>1, <1>2, <1>3 DEF InFlight, Kept, TypeOK
<1>5. \A t \in Slots : requests[t].kind # "idle" => requests[t] # Idle
  BY IdleIsNone
<1>6. \A t \in Slots : /\ Made(requests'[t]) <=> Made(requests[t])
                       /\ Pending(requests'[t]) <=> Pending(requests[t])
                       /\ Fresh(requests'[t]) <=> Fresh(requests[t])
                       /\ Load(requests'[t]) <=> Load(requests[t])
                       /\ Loaded(requests'[t]) <=> Loaded(requests[t])
                       /\ Made(requests[t]) \/ Fresh(requests[t]) \/ Load(requests[t]) => t # s
  BY <1>1, <1>2, <1>3, <1>5 DEF Made, Pending, Fresh, Load, Loaded
<1>7. /\ \A t \in InFlight : requests'[t].id = requests[t].id
      /\ \A t \in InFlight : requests'[t].drawing = requests[t].drawing
  BY <1>1, <1>2, <1>3 DEF InFlight
<1>8. /\ \A t \in Slots \ {s} : \A id : Sent(requests'[t], id) <=> Sent(requests[t], id)
      /\ \A id : ~Sent(requests'[s], id)
      /\ \A id : Sent(requests[s], id) <=> id = r.id
      /\ \A t \in Slots : \A id : Sent(requests[t], id) => t \in InFlight
  BY <1>1, <1>2, <1>3, <1>5, InSlots DEF Sent, InFlight
<1>9. \A id \in Ids : stored'[id] = stored[id] \/ (id = r.id /\ stored'[id] = r.drawing)
  BY <1>1 DEF TypeOK
\* Nothing comes to be in a sheet that was not on its way there.
<1>10. \A id \in Ids : \A n : Has(id, n)' => Has(id, n)
  BY <1>7, <1>8, <1>9 DEF Has
<1>11. OwnDrawing' <=> OwnDrawing
  BY <1>1, <1>6 DEF OwnDrawing
<1>12. Known'
  <2>1. \A t \in InFlight : requests'[t].at = requests[t].at /\ requests'[t].kind = requests[t].kind
    BY <1>1, <1>2, <1>3 DEF InFlight
  <2>2. r.drawing \subseteq 0..edits
    BY <1>3 DEF IInv, Follows, Known
  <2>3. \A id \in Ids : stored'[id] \subseteq 0..edits
    BY <1>9, <2>2 DEF IInv, Follows, Known
  <2> QED BY <1>1, <1>4, <1>7, <2>1, <2>3 DEF IInv, Follows, Known
<1>13. ASSUME NEW t \in Slots PROVE Untold(t)'
  <2> SUFFICES ASSUME Made(requests[t]) PROVE Untold(t)'
    BY <1>6 DEF Untold
  <2>1. /\ t # s /\ t \in InFlight /\ requests'[t].id = requests[t].id
        /\ requests'[t].drawing = requests[t].drawing /\ requests'[t].spare = requests[t].spare
    BY <1>2, <1>5, <1>6, <1>7, InSlots DEF Made
  <2>2. stored'[requests[t].id] = stored[requests[t].id]
    BY <1>3, <1>4, <1>9, <2>1 DEF IInv, Follows, Untold
  <2>3. \A u \in InFlight \ {t} : requests'[u].id = requests[u].id
    BY <1>7
  <2> QED BY <1>1, <1>4, <2>1, <2>2, <2>3 DEF IInv, Follows, Untold
<1>14. ASSUME NEW t \in Slots PROVE Awaiting(t)'
  <2>1. Load(requests[t]) \/ Pending(requests[t]) =>
          /\ t # s /\ t \in InFlight /\ requests'[t].id = requests[t].id
          /\ requests'[t].stale = requests[t].stale
    BY <1>2, <1>5, <1>6, <1>7, InSlots DEF Load, Pending, Fresh
  <2> QED BY <1>1, <1>6, <2>1 DEF IInv, Follows, Awaiting
<1>15. ASSUME NEW t \in Slots PROVE Current(t)'
  <2> SUFFICES ASSUME requests'[t].kind = "create" \/ Loaded(requests'[t]) PROVE Current(t)'
    BY DEF Current
  <2>1. /\ t # s /\ t \in InFlight /\ requests'[t].id = requests[t].id
        /\ requests'[t].kind = requests[t].kind /\ requests'[t].drawing = requests[t].drawing
        /\ requests'[t].stale = requests[t].stale /\ requests'[t].mine = requests[t].mine
    BY <1>1, <1>2, <1>3, <1>5, <1>6, <1>7, InSlots DEF Loaded, Load
  <2>2. Loaded(requests[t]) => requests[t].id \in Ids
    BY <1>4, <2>1 DEF IInv, Follows, Known, Awaiting, Loaded
  <2>3. Loaded(requests[t]) /\ ~requests[t].stale => requests[t].id # r.id
    BY <1>8 DEF IInv, Follows, Current
  <2> QED BY <1>1, <1>6, <1>8, <1>9, <2>1, <2>2, <2>3 DEF IInv, Follows, Current
<1>16. ASSUME NEW t \in Slots PROVE Ahead(t)'
  <2> DEFINE f == requests[t]
             g == requests'[t]
  <2> SUFFICES ASSUME g.kind = "update", g.state = "sent" PROVE Ahead(t)'
    BY DEF Ahead
  <2>1. /\ t # s /\ t \in InFlight /\ f.kind = "update" /\ f.state = "sent"
        /\ g.id = f.id /\ g.drawing = f.drawing /\ g.at = f.at /\ (~g.stale => ~f.stale)
        /\ q.state = "handled" /\ f.id = r.id /\ ~g.stale => r.at < f.at
    BY <1>1, <1>2, <1>3, <1>5, <1>7, InSlots DEF Sent
  <2>2. f.id \in Ids
    BY <1>4, <2>1 DEF IInv, Follows, Known
  <2>3. \A u \in Slots : Sent(requests'[u], f.id) => /\ Sent(requests[u], f.id)
                                                      /\ requests'[u].at = requests[u].at
                                                      /\ requests'[u].drawing = requests[u].drawing
    BY <1>2, <1>8, <1>5 DEF Sent
  <2>4. ~g.stale => stored'[f.id] \subseteq f.drawing
    <3>1. CASE stored'[f.id] = stored[f.id]
      BY <2>1, <3>1 DEF IInv, Follows, Ahead
    <3>2. CASE stored'[f.id] # stored[f.id]
      <4>1. f.id = r.id /\ stored'[f.id] = r.drawing /\ q.state = "handled"
        BY <1>1, <1>9, <2>2, <3>2
      <4> QED BY <1>8, <2>1, <4>1 DEF IInv, Follows, Ahead
    <3> QED BY <3>1, <3>2
  <2>5. f.id = sheetId /\ ~astray => f.drawing \subseteq drawing
    BY <2>1 DEF IInv, Follows, Ahead
  <2>6. ~g.stale => \A u \in Slots : Sent(requests'[u], f.id) /\ requests'[u].at < f.at
                      => requests'[u].drawing \subseteq f.drawing
    BY <2>1, <2>3 DEF IInv, Follows, Ahead
  <2> QED BY <1>1, <2>1, <2>4, <2>5, <2>6 DEF Ahead
<1>17. Attached'
  <2>1. sheetId # NoId => sheetId \in Ids
    BY DEF TypeOK
  <2>2. r.id = sheetId /\ ~astray => r.drawing \subseteq drawing
    BY <1>1 DEF IInv, Follows, Ahead
  <2> QED BY <1>1, <1>9, <2>1, <2>2 DEF IInv, Attached
<1>18. Kept \subseteq Ids
  BY <1>4 DEF Kept
<1>19. Separate'
  BY <1>4, <1>10, <1>18 DEF IInv, Apart, Separate
<1>20. Owned'
  <2>1. \A u \in Slots : Made(requests[u]) => requests'[u].id = requests[u].id
    BY <1>5, <1>7, InSlots DEF Made
  <2> QED BY <1>1, <1>4, <1>6, <1>10, <1>11, <1>18, <2>1 DEF IInv, Apart, Owned
<1>21. ASSUME NEW t \in Slots PROVE Fetched(t)'
  <2>1. Loaded(requests[t]) => requests'[t].id = requests[t].id /\ requests'[t].drawing = requests[t].drawing
    BY <1>5, <1>7, InSlots DEF Loaded, Load
  <2> QED BY <1>4, <1>6, <1>10, <1>18, <2>1 DEF IInv, Apart, Fetched
<1>22. ASSUME NEW t \in Slots PROVE Unshared(t)'
  <2>1. \A u \in Slots : Loaded(requests[u]) \/ Fresh(requests[u]) =>
          /\ requests'[u].id = requests[u].id /\ requests'[u].drawing = requests[u].drawing
          /\ requests'[u].state = requests[u].state /\ requests'[u].mine = requests[u].mine
    BY <1>2, <1>5, <1>6 DEF Loaded, Load, Fresh
  <2> QED BY <1>1, <1>4, <1>6, <1>10, <1>11, <1>18, <2>1 DEF IInv, Apart, Unshared
<1> QED BY <1>12, <1>13, <1>14, <1>15, <1>16, <1>17, <1>19, <1>20, <1>21, <1>22
        DEF IInv, Follows, Apart

\* The page takes a request for failed: a sheet it made, or will make, is spare.
LEMMA LostKeeps ==
  ASSUME TypeOK, IInv, NEW s \in Slots, Lose(s) \/ GiveUp(s)
  PROVE  IInv'
<1> DEFINE r == requests[s]
           q == requests'[s]
<1>1. /\ \A t \in Slots \ {s} : requests'[t] = requests[t]
      /\ r \in Request /\ q \in Request
      /\ q.kind = r.kind /\ q.id = r.id /\ q.drawing = r.drawing /\ q.at = r.at /\ q.stale = r.stale
      /\ q.state = r.state \/ q.state = "failed"
      /\ \/ q.state = "failed" /\ q.mine = r.mine /\ q.spare = r.spare
         \/ r.state = "sent" /\ q.state = "sent" /\ ~q.mine /\ q.spare
      /\ spare' = IF Made(r) THEN spare \cup {r.id} ELSE spare
      /\ UNCHANGED <<drawing, edits, sheetId, url, astray, stored, created>>
  BY RequestLost
<1> HIDE DEF q
<1>2. requests'[s] = q /\ q # Idle /\ r # Idle /\ s \in InFlight
  BY <1>1, InSlots, IdleIsNone DEF q
<1>3. InFlight' = InFlight /\ Kept' \subseteq Kept /\ spare \subseteq spare'
  BY <1>1, <1>2 DEF InFlight, Kept
<1>4. \A t \in Slots : /\ Made(requests'[t]) => Made(requests[t]) /\ t # s
                       /\ Pending(requests'[t]) => Pending(requests[t])
                       /\ Fresh(requests'[t]) => Fresh(requests[t])
                       /\ Fresh(requests'[t]) /\ ~requests'[t].mine => ~requests[t].mine
                       /\ Load(requests'[t]) => Load(requests[t])
                       /\ Loaded(requests'[t]) => Loaded(requests[t])
                       /\ t # s => requests'[t] = requests[t]
  BY <1>1, <1>2 DEF Made, Pending, Fresh, Load, Loaded
<1>5. \A t \in InFlight : /\ requests'[t].id = requests[t].id /\ requests'[t].kind = requests[t].kind
                          /\ requests'[t].drawing = requests[t].drawing
                          /\ requests'[t].at = requests[t].at /\ requests'[t].stale = requests[t].stale
                          /\ requests'[t].state = "sent" => requests[t].state = "sent"
                          /\ requests'[t].state = "handled" => requests[t].state = "handled"
                          /\ requests'[t].mine => requests[t].mine
  BY <1>1, <1>2 DEF InFlight
<1>6. \A t \in Slots : \A id : Sent(requests'[t], id) => Sent(requests[t], id) /\ t \in InFlight
  <2>1. \A t \in Slots : \A id : Sent(requests'[t], id) => t \in InFlight
    BY <1>2, <1>4, InSlots DEF Sent
  <2> QED BY <1>5, <2>1 DEF Sent
<1>7. \A id : \A n : Has(id, n)' => Has(id, n)
  BY <1>1, <1>5, <1>6 DEF Has
<1>8. OwnDrawing' => OwnDrawing
  BY <1>1, <1>3, <1>4 DEF OwnDrawing
<1>9. Known'
  BY <1>1, <1>3, <1>5 DEF IInv, Follows, Known
<1>10. ASSUME NEW t \in Slots PROVE Untold(t)'
  <2> SUFFICES ASSUME Made(requests'[t]) PROVE Untold(t)'
    BY DEF Untold
  <2>1. Made(requests[t]) /\ requests'[t] = requests[t]
    BY <1>4
  <2> QED BY <1>1, <1>3, <1>5, <2>1 DEF IInv, Follows, Untold
<1>11. ASSUME NEW t \in Slots PROVE Awaiting(t)' /\ Current(t)'
  <2>1. Load(requests'[t]) \/ requests'[t].kind = "create" => t \in InFlight
    BY <1>2, <1>4, InSlots DEF Load
  <2>2. Pending(requests'[t]) => requests'[t].kind = "create"
    BY DEF Pending, Fresh
  <2>3. Awaiting(t)'
    BY <1>1, <1>3, <1>4, <1>5, <2>1, <2>2 DEF IInv, Follows, Awaiting
  <2>4. Current(t)'
    BY <1>1, <1>4, <1>5, <1>6, <2>1 DEF IInv, Follows, Current, Loaded
  <2> QED BY <2>3, <2>4
<1>12. ASSUME NEW t \in Slots PROVE Ahead(t)'
  <2> SUFFICES ASSUME requests'[t].kind = "update", requests'[t].state = "sent" PROVE Ahead(t)'
    BY DEF Ahead
  <2>1. t \in InFlight
    BY <1>2, <1>4, InSlots
  <2> QED BY <1>1, <1>5, <1>6, <2>1 DEF IInv, Follows, Ahead
<1>13. Separate' /\ Attached'
  BY <1>1, <1>3, <1>7 DEF IInv, Apart, Separate, Attached
<1>14. Owned'
  <2> SUFFICES ASSUME OwnDrawing, NEW id \in Kept', NEW n \in drawing, Has(id, n)
               PROVE  id = sheetId \/ \E u \in Slots : Made(requests'[u]) /\ requests'[u].id = id
    BY <1>1, <1>7, <1>8 DEF Owned
  <2>1. id = sheetId \/ \E u \in Slots : Made(requests[u]) /\ requests[u].id = id
    BY <1>3 DEF IInv, Apart, Owned
  <2>2. Made(r) => id # r.id
    BY <1>1 DEF Kept
  <2> QED BY <1>4, <2>1, <2>2
<1>15. ASSUME NEW t \in Slots PROVE Fetched(t)'
  <2>1. Loaded(requests'[t]) => t \in InFlight
    BY <1>2, <1>4, InSlots DEF Loaded, Load
  <2> QED BY <1>3, <1>4, <1>5, <1>7, <2>1 DEF IInv, Apart, Fetched
<1>16. ASSUME NEW t \in Slots PROVE Unshared(t)'
  <2>1. \A u \in Slots : Loaded(requests'[u]) \/ Fresh(requests'[u]) => u \in InFlight
    BY <1>2, <1>4, InSlots DEF Loaded, Load, Fresh
  <2> QED BY <1>1, <1>3, <1>4, <1>5, <1>7, <1>8, <2>1 DEF IInv, Apart, Unshared
<1> QED BY <1>9, <1>10, <1>11, <1>12, <1>13, <1>14, <1>15, <1>16 DEF IInv, Follows, Apart

\* The page takes the sheet it made, or the one it loaded, for its own.
LEMMA AnswerKeeps ==
  ASSUME TypeOK, IInv, NEW s \in Slots, Answer(s)
  PROVE  IInv'
<1> DEFINE r == requests[s]
<1>1. /\ r \in Request /\ r.state # "sent" /\ requests'[s] = Idle
      /\ \/ /\ Loaded(r) \/ Made(r)
            /\ sheetId' = r.id /\ drawing' = IF Loaded(r) THEN r.drawing ELSE drawing
            /\ url' = IF Made(r) THEN r.id ELSE url
            /\ astray' = (astray \/ r.stale)
         \/ ~Loaded(r) /\ ~Made(r) /\ UNCHANGED <<sheetId, drawing, url, astray>>
      /\ UNCHANGED <<edits, stored, created, live, spare>>
  BY RequestAnswered
<1>2. \A t \in Slots \ {s} :
              /\ requests'[t] = Idle <=> requests[t] = Idle
              /\ requests'[t].kind = requests[t].kind
              /\ requests[t] # Idle =>
                   /\ requests'[t].mine = requests[t].mine
                   /\ requests'[t].id = requests[t].id /\ requests'[t].drawing = requests[t].drawing
                   /\ requests'[t].state = requests[t].state /\ requests'[t].at = requests[t].at
                   /\ requests'[t].spare = requests[t].spare
                   /\ requests[t].kind # "create" \/ ~Loaded(r) => requests'[t].stale = requests[t].stale
                   /\ requests[t].kind = "create" /\ Loaded(r) => requests'[t].stale
  BY RequestAnswered
<1>3. r # Idle /\ s \in InFlight /\ InFlight' = InFlight \ {s} /\ Kept' = Kept /\ Kept \subseteq Ids
  BY <1>1, <1>2, IdleIsNone DEF InFlight, Kept, TypeOK
<1>4. /\ \A t \in Slots : requests'[t].kind # "idle" => t # s /\ t \in InFlight
      /\ \A t \in InFlight \ {s} :
           /\ requests'[t].id = requests[t].id /\ requests'[t].kind = requests[t].kind
           /\ requests'[t].drawing = requests[t].drawing /\ requests'[t].at = requests[t].at
           /\ requests'[t].state = requests[t].state /\ requests'[t].mine = requests[t].mine
           /\ requests'[t].spare = requests[t].spare
           /\ requests[t].kind # "create" \/ ~Loaded(r) => requests'[t].stale = requests[t].stale
           /\ requests[t].kind = "create" /\ Loaded(r) => requests'[t].stale
  BY <1>1, <1>2, InSlots, IdleIsNone DEF InFlight
<1>5. \A t \in Slots :
        /\ Made(requests'[t]) <=> Made(requests[t]) /\ t # s
        /\ Pending(requests'[t]) <=> Pending(requests[t]) /\ t # s
        /\ Fresh(requests'[t]) <=> Fresh(requests[t]) /\ t # s
        /\ Load(requests'[t]) <=> Load(requests[t]) /\ t # s
        /\ Loaded(requests'[t]) <=> Loaded(requests[t]) /\ t # s
        /\ \A id : Sent(requests'[t], id) <=> Sent(requests[t], id)
        /\ Made(requests[t]) \/ Fresh(requests[t]) \/ Load(requests[t]) => t \in InFlight
        /\ \A id : Sent(requests[t], id) => t \in InFlight \ {s}
  BY <1>1, <1>2, <1>4, InSlots, IdleIsNone DEF Made, Pending, Fresh, Load, Loaded, Sent
<1>6. \A id : \A n : Has(id, n)' <=> Has(id, n)
  BY <1>1, <1>4, <1>5 DEF Has
\* What it is told of.
<1>7. /\ Loaded(r) => Load(r) /\ ~Made(r) /\ r.id # NoId /\ r.id \in created
      /\ Made(r) => r.id \in created /\ r.id # NoId
  BY <1>1, <1>3, IdsAssumption
     DEF IInv, Follows, Known, Awaiting, Untold, Loaded, Load, Made, TypeOK
<1>8. Known'
  <2>1. drawing' \subseteq 0..edits
    BY <1>1, <1>3 DEF IInv, Follows, Known
  <2>2. sheetId' \in created \cup {NoId} /\ url' \in created \cup {NoId}
    BY <1>1, <1>7 DEF IInv, Follows, Known
  <2> QED BY <1>1, <1>3, <1>4, <2>1, <2>2 DEF IInv, Follows, Known
<1>9. ASSUME NEW t \in Slots PROVE Untold(t)'
  <2> SUFFICES ASSUME Made(requests[t]), t # s PROVE Untold(t)'
    BY <1>5 DEF Untold
  <2>1. t \in InFlight \ {s} /\ sheetId' # requests[t].id
    <3>1. t \in InFlight \ {s}
      BY <1>5
    <3> QED BY <1>1, <1>3, <3>1 DEF IInv, Follows, Untold
  <2> QED BY <1>1, <1>3, <1>4, <2>1 DEF IInv, Follows, Untold
<1>10. ASSUME NEW t \in Slots PROVE Awaiting(t)'
  <2>1. CASE Load(requests'[t])
    <3>1. Load(requests[t]) /\ t # s /\ t \in InFlight /\ requests'[t].id = requests[t].id
      BY <1>4, <1>5, <2>1
    <3>2. ~Loaded(r) /\ ~Pending(requests'[t])
      BY <1>5, <1>7, <3>1 DEF IInv, Follows, Awaiting
    <3>3. Made(r) => r.id \in spare /\ r.id # requests[t].id
      BY <1>1, <1>3, <3>1 DEF IInv, Follows, Awaiting, Untold, Pending, Fresh, Made, Request
    <3> QED BY <1>1, <1>5, <3>1, <3>2, <3>3 DEF IInv, Follows, Awaiting
  <2>2. CASE Pending(requests'[t])
    <3>1. Pending(requests[t]) /\ t # s /\ t \in InFlight /\ ~Load(requests'[t])
      BY <1>4, <1>5, <2>2 DEF Pending, Fresh, Load
    <3>2. ~Loaded(r)
      BY <1>7, <3>1 DEF IInv, Follows, Awaiting
    <3>3. Made(r) => r.id \in spare
      BY <1>1, <3>1 DEF IInv, Follows, Awaiting, Untold, Pending, Fresh, Made
    <3>4. requests'[t].stale = requests[t].stale
      BY <1>4, <3>1, <3>2
    <3> QED BY <1>1, <1>5, <3>1, <3>2, <3>3, <3>4 DEF IInv, Follows, Awaiting
  <2>3. CASE ~Load(requests'[t]) /\ ~Pending(requests'[t])
    BY <2>3 DEF Awaiting
  <2> QED BY <2>1, <2>2, <2>3
<1>11. ASSUME NEW t \in Slots PROVE Current(t)'
  <2>1. CASE requests'[t].kind = "create"
    <3>1. t # s /\ t \in InFlight /\ ~Loaded(requests'[t])
      BY <1>4, <2>1 DEF Loaded, Load
    <3> QED BY <1>1, <1>4, <2>1, <3>1 DEF IInv, Follows, Current
  <2>2. CASE Loaded(requests'[t])
    <3>1. Loaded(requests[t]) /\ t \in InFlight \ {s} /\ requests[t].kind # "create"
          /\ requests'[t].kind # "create"
      BY <1>4, <1>5, <2>2 DEF Loaded, Load
    <3> QED BY <1>1, <1>4, <1>5, <3>1 DEF IInv, Follows, Current
  <2>3. CASE requests'[t].kind # "create" /\ ~Loaded(requests'[t])
    BY <2>3 DEF Current
  <2> QED BY <2>1, <2>2, <2>3
<1>12. ~astray' => ~astray /\ (Loaded(r) \/ Made(r) => ~r.stale)
  <2>1. r.stale \in BOOLEAN /\ astray \in BOOLEAN
    BY <1>1 DEF TypeOK, Request
  <2> QED BY <1>1, <2>1
\* No update can be under way to a sheet the page was only now told of.
<1>13. /\ Made(r) => \A t \in Slots : ~Sent(requests[t], r.id)
       /\ Loaded(r) /\ ~r.stale => \A t \in Slots : ~Sent(requests[t], r.id)
  <2>1. Made(r) => \A t \in InFlight \ {s} : requests[t].id # r.id
    BY DEF IInv, Follows, Untold
  <2> QED BY <1>5, <2>1 DEF IInv, Follows, Current, Sent
<1>14. ASSUME NEW t \in Slots PROVE Ahead(t)'
  <2> DEFINE f == requests[t]
  <2> SUFFICES ASSUME requests'[t].kind = "update", requests'[t].state = "sent" PROVE Ahead(t)'
    BY DEF Ahead
  <2>1. /\ t \in InFlight \ {s} /\ f.kind = "update" /\ f.state = "sent"
        /\ requests'[t].id = f.id /\ requests'[t].drawing = f.drawing /\ requests'[t].at = f.at
        /\ requests'[t].stale = f.stale
    BY <1>4
  <2>2. f.id = sheetId' /\ ~astray' => f.drawing \subseteq drawing'
    <3> SUFFICES ASSUME f.id = sheetId', ~astray' PROVE f.drawing \subseteq drawing'
      OBVIOUS
    <3>1. Sent(f, f.id) /\ t \in Slots
      BY <2>1 DEF Sent
    <3>2. ~Loaded(r) /\ ~Made(r)
      BY <1>1, <1>12, <1>13, <3>1
    <3> QED BY <1>1, <1>12, <2>1, <3>2 DEF IInv, Follows, Ahead
  <2>3. \A u \in Slots : Sent(requests'[u], f.id) => /\ Sent(requests[u], f.id)
                                                      /\ requests'[u].at = requests[u].at
                                                      /\ requests'[u].drawing = requests[u].drawing
    BY <1>4, <1>5
  <2> QED BY <1>1, <2>1, <2>2, <2>3 DEF IInv, Follows, Ahead
<1>15. Attached'
  <2>1. Made(r) /\ ~r.stale => stored[r.id] \subseteq drawing
    BY DEF IInv, Follows, Untold, Current, Made
  <2>2. Loaded(r) /\ ~r.stale => stored[r.id] = r.drawing
    BY DEF IInv, Follows, Current
  <2> QED BY <1>1, <1>7, <1>12, <2>1, <2>2 DEF IInv, Attached
<1>16. Separate'
  BY <1>3, <1>6 DEF IInv, Apart, Separate
<1>17. Owned'
  <2> SUFFICES ASSUME OwnDrawing', NEW id \in Kept, NEW n \in drawing', Has(id, n)
               PROVE  id = sheetId' \/ \E u \in Slots : Made(requests'[u]) /\ requests'[u].id = id
    BY <1>3, <1>6 DEF Owned
  <2>1. CASE Loaded(r)
    <3>1. \A t \in Slots : ~Pending(requests'[t])
      BY <1>5, <1>7, <2>1 DEF IInv, Follows, Awaiting
    <3>2. sheetId' = r.id /\ r.id \in Kept /\ drawing' = r.drawing
      BY <1>1, <1>7, <2>1, <3>1 DEF OwnDrawing, Kept
    <3> QED BY <2>1, <3>2 DEF IInv, Apart, Fetched
  <2>2. CASE Made(r)
    <3>1. sheetId' = r.id /\ drawing' = drawing
      BY <1>1, <1>7, <2>2
    <3>2. OwnDrawing
      <4>1. r.spare => r.id \in spare
        BY <2>2 DEF IInv, Follows, Untold
      <4>2. r.spare => \E t \in Slots : Pending(requests[t])
        BY <1>1, <1>5, <3>1, <4>1 DEF OwnDrawing
      <4>3. ~r.spare => Pending(r)
        BY <2>2 DEF Pending, Fresh, Made
      <4> QED BY <1>1, <4>2, <4>3 DEF OwnDrawing
    <3>3. id = sheetId \/ \E u \in Slots : Made(requests[u]) /\ requests[u].id = id
      BY <3>1, <3>2 DEF IInv, Apart, Owned
    <3>4. sheetId \notin Kept
      <4>1. \E t \in Slots : Pending(requests[t])
        BY <1>1, <1>5, <2>2, <3>1 DEF OwnDrawing, IInv, Follows, Untold, Pending, Fresh, Made, Request
      <4>2. NoId \notin Kept
        BY <1>3, IdsAssumption
      <4> QED BY <4>1, <4>2 DEF IInv, Follows, Awaiting, Kept
    <3> QED BY <1>4, <1>5, <3>1, <3>3, <3>4
  <2>3. CASE ~Loaded(r) /\ ~Made(r)
    <3>1. sheetId' = sheetId /\ drawing' = drawing
      BY <1>1, <2>3
    <3>2. OwnDrawing
      BY <1>1, <1>5, <3>1 DEF OwnDrawing
    <3>3. id = sheetId \/ \E u \in Slots : Made(requests[u]) /\ requests[u].id = id
      BY <3>1, <3>2 DEF IInv, Apart, Owned
    <3> QED BY <1>4, <1>5, <2>3, <3>1, <3>3
  <2> QED BY <2>1, <2>2, <2>3
<1>18. ASSUME NEW t \in Slots PROVE Fetched(t)'
  <2> SUFFICES ASSUME Loaded(requests[t]), t # s, t \in InFlight PROVE Fetched(t)'
    BY <1>5 DEF Fetched, Loaded
  <2> QED BY <1>3, <1>4, <1>6 DEF IInv, Apart, Fetched
<1>19. ASSUME NEW t \in Slots PROVE Unshared(t)'
  <2> DEFINE f == requests[t]
  <2> SUFFICES ASSUME Fresh(f), f.state = "sent", t \in InFlight \ {s} PROVE Unshared(t)'
    BY <1>4, <1>5 DEF Unshared
  <2>1. /\ requests'[t].drawing = f.drawing /\ requests'[t].mine = f.mine
    BY <1>4
  <2>2. \A id \in Kept : \A n \in f.drawing : ~Has(id, n)
    BY DEF IInv, Apart, Unshared
  <2>3. \A u \in Slots \ {t} : Fresh(requests'[u]) /\ requests'[u].state = "sent"
                                 => f.drawing \cap requests'[u].drawing = {}
    BY <1>4, <1>5 DEF IInv, Apart, Unshared
  <2>4. \A u \in Slots : Loaded(requests'[u]) /\ requests'[u].id \in Kept
                                => f.drawing \cap requests'[u].drawing = {}
    <3>1. \A u \in Slots : Loaded(requests'[u]) =>
            /\ Loaded(requests[u]) /\ requests'[u].id = requests[u].id
            /\ requests'[u].drawing = requests[u].drawing
      BY <1>4, <1>5 DEF Loaded
    <3> QED BY <3>1 DEF IInv, Apart, Unshared
  <2>5. ~f.mine /\ OwnDrawing' => f.drawing \cap drawing' = {}
    <3> SUFFICES ASSUME ~f.mine, OwnDrawing' PROVE f.drawing \cap drawing' = {}
      OBVIOUS
    <3>1. CASE Loaded(r)
      <4>1. \A u \in Slots : ~Pending(requests'[u])
        BY <1>5, <1>7, <3>1 DEF IInv, Follows, Awaiting
      <4>2. r.id \in Kept /\ drawing' = r.drawing
        BY <1>1, <1>7, <3>1, <4>1 DEF OwnDrawing, Kept
      <4> QED BY <3>1, <4>2 DEF IInv, Apart, Unshared
    <3>2. CASE Made(r)
      <4>1. sheetId' = r.id /\ drawing' = drawing
        BY <1>1, <1>7, <3>2
      <4>2. \E u \in Slots : Pending(requests[u])
        BY <1>1, <1>5, <3>2, <4>1 DEF OwnDrawing, IInv, Follows, Untold, Pending, Fresh, Made, Request
      <4> QED BY <4>1, <4>2 DEF OwnDrawing, IInv, Apart, Unshared
    <3>3. CASE ~Loaded(r) /\ ~Made(r)
      <4>1. sheetId' = sheetId /\ drawing' = drawing
        BY <1>1, <3>3
      <4>2. OwnDrawing
        BY <1>1, <1>5, <4>1 DEF OwnDrawing
      <4> QED BY <4>1, <4>2 DEF IInv, Apart, Unshared
    <3> QED BY <3>1, <3>2, <3>3
  <2> QED BY <1>3, <1>6, <2>1, <2>2, <2>3, <2>4, <2>5 DEF Unshared
<1> QED BY <1>8, <1>9, <1>10, <1>11, <1>14, <1>15, <1>16, <1>17, <1>18, <1>19
        DEF IInv, Follows, Apart

LEMMA IInvKept == TypeOK /\ IInv /\ [Next]_vars => IInv'
<1> SUFFICES ASSUME TypeOK, IInv, [Next]_vars PROVE IInv'
  OBVIOUS
<1>1. CASE Edit \/ EditQuietly
  BY <1>1, EditKeeps
<1>2. ASSUME NEW s \in Slots, TimerFires(s) \/ ClickSave(s) PROVE IInv'
  BY <1>2, SaveKeeps
<1>3. ASSUME NEW s \in Slots, Reload(s) PROVE IInv'
  BY <1>3, ReloadKeeps
<1>4. ASSUME NEW s \in Slots, Handle(s) PROVE IInv'
  BY <1>4, GetKeeps, CreateKeeps, UpdateKeeps DEF Handle
<1>5. ASSUME NEW s \in Slots, Lose(s) \/ GiveUp(s) PROVE IInv'
  BY <1>5, LostKeeps
<1>6. ASSUME NEW s \in Slots, Answer(s) PROVE IInv'
  BY <1>6, AnswerKeeps
<1>7. CASE \/ \E id \in Ids \cup {NoId} : SwitchSheet(id)
           \/ \E id \in Ids : Delete(id)
           \/ UNCHANGED vars
  <2>1. UNCHANGED <<drawing, edits, sheetId, requests, stored, created, spare, astray>>
    BY <1>7 DEF SwitchSheet, Delete, vars, client, server
  <2>2. url' \in created \cup {NoId}
    BY <1>7 DEF SwitchSheet, Delete, vars, client, server, IInv, Follows, Known
  <2>3. Known'
    BY <2>1, <2>2 DEF IInv, Follows, Known, InFlight
  <2>4. \A s \in Slots : Untold(s)' /\ Awaiting(s)' /\ Current(s)' /\ Ahead(s)'
    BY <2>1 DEF IInv, Follows, Untold, Awaiting, Current, Ahead, InFlight
  <2>5. Attached' /\ Apart'
    BY <2>1 DEF IInv, Attached, Apart, Separate, Owned, OwnDrawing, Fetched, Unshared, Has, Kept
  <2> QED BY <2>3, <2>4, <2>5 DEF IInv, Follows
<1> QED
  BY <1>1, <1>2, <1>3, <1>4, <1>5, <1>6, <1>7 DEF Next

LEMMA Invariance == Spec => [](TypeOK /\ IInv)
BY InitTyped, InitIInv, TypesKept, IInvKept, PTL DEF Spec

-----------------------------------------------------------------------------
(* The editor, the requests and the sheets keep their types, for any number *)
(* of slots, edits and sheets, with faults or not.                          *)
THEOREM TypeCorrect == Spec => []TypeOK
BY Invariance, PTL

(* The editor's drawing includes what the sheet performSave would overwrite *)
(* has, whatever overlaps, is lost, deleted or reloaded in between, unless  *)
(* a stale load, or a creation whose drawing a load had replaced, told the  *)
(* page its sheet.                                                          *)
THEOREM StaysAttached == Spec => []AttachedToItsSheet
<1>1. IInv => AttachedToItsSheet
  BY DEF IInv, Follows, Known, Attached, AttachedToItsSheet
<1> QED BY <1>1, Invariance, PTL

(* A drawing becomes one sheet however its saves overlap: performSave       *)
(* creates no second one for it, unless it creates while the page awaits    *)
(* its sheet, or was told that the creation failed.                         *)
THEOREM OneSheet == Spec => []OneSheetPerDrawing
<1>1. TypeOK /\ IInv => OneSheetPerDrawing
  <2> SUFFICES ASSUME TypeOK, IInv, NEW id1 \in live \ spare, NEW id2 \in live \ spare,
                      NEW n \in stored[id1] \cap stored[id2]
               PROVE  id1 = id2
    BY DEF OneSheetPerDrawing
  <2>1. id1 \in Kept /\ id2 \in Kept /\ n \in 0..MaxEdits
    BY DEF Kept, TypeOK, Drawings
  <2> QED BY <2>1 DEF IInv, Apart, Separate, Has
<1> QED BY <1>1, Invariance, PTL

(* No step takes an edit out of a sheet, but for an update that another     *)
(* sent no earlier has overtaken, or that an astray page sent.              *)
THEOREM EditsAreKept == Spec => NoLostEdit
<1>1. TypeOK /\ IInv /\ [Next]_vars => [KeepsEdits]_vars
  <2> SUFFICES ASSUME TypeOK, IInv, Next, NEW id \in live
               PROVE  \/ stored[id] \subseteq stored'[id]
                      \/ \E s \in Slots : /\ Sent(requests[s], id) /\ requests[s].stale
                                          /\ requests'[s].state = "handled"
    BY DEF KeepsEdits
  <2> DEFINE Lost == \E s \in Slots : /\ Sent(requests[s], id) /\ requests[s].stale
                                      /\ requests'[s].state = "handled"
  <2>1. stored' = stored \/ \E s \in Slots : Handle(s) /\ (HandleCreate(s) \/ HandleUpdate(s))
    BY DEF Next, Edit, EditQuietly, TimerFires, ClickSave, Reload, Handle, HandleGet, Lose, GiveUp,
           Answer, SwitchSheet, Delete, server
  <2>2. ASSUME NEW s \in Slots, HandleCreate(s) PROVE stored[id] \subseteq stored'[id]
    BY <2>2, NewIdIsNew DEF HandleCreate, TypeOK
  <2>3. ASSUME NEW s \in Slots, Handle(s), HandleUpdate(s)
        PROVE  stored[id] \subseteq stored'[id] \/ Lost
    <3> DEFINE r == requests[s]
    <3>1. /\ r.kind = "update" /\ r.state = "sent"
          /\ requests'[s].state # "handled" => stored' = stored
          /\ requests'[s].state = "handled" => stored' = [stored EXCEPT ![r.id] = r.drawing]
      BY <2>3, UpdateHandled
    <3>2. CASE id = r.id /\ requests'[s].state = "handled"
      <4>1. ~r.stale => stored[id] \subseteq r.drawing
        BY <3>1, <3>2 DEF IInv, Follows, Ahead
      <4>2. stored'[id] = r.drawing
        BY <3>1, <3>2 DEF TypeOK
      <4> QED BY <3>1, <3>2, <4>1, <4>2 DEF Sent
    <3>3. CASE ~(id = r.id /\ requests'[s].state = "handled")
      BY <3>1, <3>3 DEF TypeOK
    <3> QED BY <3>2, <3>3
  <2> QED BY <2>1, <2>2, <2>3
<1> QED BY <1>1, Invariance, PTL DEF Spec, NoLostEdit

=============================================================================
