----------------------------- MODULE PasswordReset -----------------------------
(***************************************************************************)
(* A forgotten password: the form that asks for a link, the link in the    *)
(* mailbox, the form behind it and the backend's requests, with the        *)
(* profile page's change of password beside them; one account.             *)
(*                                                                         *)
(* A request is a transaction, READ COMMITTED.  The link is e-mailed       *)
(* before its token is committed, and with the FastAPI that uv.lock pins   *)
(* get_db commits after the answer has been sent: a form may hear of a     *)
(* password that is not set yet, or that never will be.  What a new        *)
(* password does to sessions is AuthSessions'.                             *)
(*                                                                         *)
(* A password is named by the request that brings it; 0 is the first one.  *)
(***************************************************************************)
EXTENDS Integers, FiniteSets

CONSTANTS
  Links,       \* reset tokens, each with the request that asks for it
  NoLink,
  Windows,     \* tabs that the link of an e-mail is opened in
  Profile,     \* the form on the profile page
  MaxRequests  \* bound: new passwords submitted

Forms == Windows \cup {Profile}
Requests == 1..MaxRequests

ASSUME ResetAssumption ==
  MaxRequests \in Nat /\ NoLink \notin Links /\ Profile \notin Windows

VARIABLES
  ask,       \* ask[l]: how far the request for link l has come
  token,     \* token[l]: its row, as committed
  mailbox,   \* links that were delivered
  expired,   \* links older than an hour
  desk,      \* the form that asks for links
  asked,     \* the link whose request it waits for
  pane,      \* pane[f]: what a form for a new password shows
  link,      \* link[f]: `token` of its URL
  request,   \* request[r]: a new password on its way
  password   \* the account's, as committed

rvars == <<ask, token, mailbox, expired, desk, asked, pane, link, request, password>>
asking == <<ask, token, mailbox, expired, desk, asked>>
resetting == <<pane, link, request, password>>

\* heard: its form has its answer, or is gone.  History: told, its form heard a
\* success; after, those whose forms had when it was submitted; over, those that
\* had been committed when it read.
Request(f, l, step) ==
  [form |-> f, link |-> l, step |-> step, heard |-> FALSE,
   told |-> FALSE, after |-> {}, over |-> {}]

Unsent == [Request(Profile, NoLink, "none") EXCEPT !.heard = TRUE]

Done == {r \in Requests : request[r].step = "done"}
Told == {r \in Requests : request[r].told}

RInit ==
  /\ ask = [l \in Links |-> "none"] /\ token = [l \in Links |-> "none"]
  /\ mailbox = {} /\ expired = {}
  /\ desk = "form" /\ asked = NoLink
  /\ pane = [f \in Forms |-> IF f = Profile THEN "form" ELSE "closed"]
  /\ link = [f \in Forms |-> NoLink]
  /\ request = [r \in Requests |-> Unsent]
  /\ password = 0

-----------------------------------------------------------------------------
\* Asking for a link

\* Its button and its field are disabled while it waits; a success replaces it.
CanAsk == desk = "form"

\* The row is flushed; others see it when it is committed.  The e-mail typed may
\* be nobody's: such a request finds no user and does nothing.
Ask(l) ==
  /\ CanAsk
  /\ desk' = "loading" /\ asked' = l
  /\ l # NoLink => ask[l] = "none"
  /\ ask' = [k \in Links |-> IF k = l THEN "added" ELSE ask[k]]
  /\ UNCHANGED <<token, mailbox, expired, resetting>>

\* SendGrid may take the e-mail and still not answer in time.  A server without its
\* key, which sends nothing and says it did, is left out.
SendMail(l) ==
  /\ ask[l] = "added"
  /\ \E delivered, ok \in BOOLEAN :
       /\ ok => delivered
       /\ ask' = [ask EXCEPT ![l] = IF ok THEN "answered" ELSE "failed"]
       /\ mailbox' = IF delivered THEN mailbox \cup {l} ELSE mailbox
  /\ UNCHANGED <<token, expired, desk, asked, resetting>>

\* The answer is out: get_db commits, or finds that it cannot.
CommitToken(l) ==
  /\ ask[l] = "answered"
  /\ \/ ask' = [ask EXCEPT ![l] = "done"] /\ token' = [token EXCEPT ![l] = "unused"]
     \/ ask' = [ask EXCEPT ![l] = "undone"] /\ UNCHANGED token
  /\ UNCHANGED <<mailbox, expired, desk, asked, resetting>>

\* An answer that is lost on its way is an error to the form.
AskAnswered ==
  /\ desk = "loading"
  /\ \/ /\ IF asked = NoLink THEN TRUE ELSE ask[asked] \in {"answered", "done", "undone"}
        /\ desk' = "sent" /\ UNCHANGED asked
     \/ desk' = "form" /\ asked' = NoLink
  /\ UNCHANGED <<ask, token, mailbox, expired, resetting>>

\* The user goes back and opens the form again.
AskAgain ==
  /\ desk = "sent"
  /\ desk' = "form" /\ asked' = NoLink
  /\ UNCHANGED <<ask, token, mailbox, expired, resetting>>

Expire(l) ==
  /\ l \in mailbox \ expired
  /\ expired' = expired \cup {l}
  /\ UNCHANGED <<ask, token, mailbox, desk, asked, resetting>>

-----------------------------------------------------------------------------
\* Setting a new password

\* The tab may be pointed at the page without a token, too.
Open(f, l) ==
  /\ f # Profile /\ pane[f] = "closed"
  /\ l \in mailbox \cup {NoLink}
  /\ pane' = [pane EXCEPT ![f] = "form"] /\ link' = [link EXCEPT ![f] = l]
  /\ UNCHANGED <<asking, request, password>>

\* Its button, and Enter with it, is disabled without a token, and while it waits.
CanSubmit(f) ==
  \/ pane[f] = "form" /\ (f = Profile \/ link[f] # NoLink)
  \/ pane[f] = "success" /\ f = Profile

\* Passwords that differ are reported, and nothing is sent.
HandleSubmit(f, r) ==
  /\ CanSubmit(f) /\ request[r].step = "none"
  /\ \A q \in 1..(r - 1) : request[q].step # "none"
  /\ pane' = [pane EXCEPT ![f] = "loading"]
  /\ request' = [request EXCEPT ![r] = [Request(f, link[f], "sent") EXCEPT !.after = Told]]
  /\ UNCHANGED <<asking, link, password>>

\* Mutant: a token is looked up by its hash only.
GoodWhateverUse(l) == token[l] \in {"unused", "used"} /\ l \notin expired

Good(l) == token[l] = "unused" /\ l \notin expired

\* The token and its user are read, or the user; whoever changes the password
\* knows the one it has.
Begin(r) ==
  /\ request[r].step = "sent"
  /\ \/ /\ IF request[r].form = Profile THEN TRUE ELSE Good(request[r].link)
        /\ request' = [request EXCEPT ![r].step = "read", ![r].over = Done]
     \/ /\ IF request[r].form = Profile THEN TRUE ELSE ~Good(request[r].link)
        /\ request' = [request EXCEPT ![r].step = "refused"]
  /\ UNCHANGED <<asking, pane, link, password>>

\* Mutant: rows are left to the flush of the commit, when the answer is out.
UpdateAtCommit(r) ==
  /\ request[r].step = "read"
  /\ request' = [request EXCEPT ![r].step = "answered"]
  /\ UNCHANGED <<asking, pane, link, password>>

\* The users row is updated, and waited for while another request holds it;
\* then the token's.  The answer goes out.
Update(r) ==
  /\ request[r].step = "read"
  /\ \A q \in Requests : request[q].step # "answered"
  /\ request' = [request EXCEPT ![r].step = "answered"]
  /\ UNCHANGED <<asking, pane, link, password>>

Commit(r) ==
  /\ request[r].step = "answered"
  /\ request' = [request EXCEPT ![r].step = "done"]
  /\ password' = r
  /\ token' = [l \in Links |-> IF l = request[r].link THEN "used" ELSE token[l]]
  /\ UNCHANGED <<ask, mailbox, expired, desk, asked, pane, link>>

\* The connection to the database is lost.
Abort(r) ==
  /\ request[r].step \in {"read", "answered"}
  /\ request' = [request EXCEPT ![r].step = IF @ = "read" THEN "refused" ELSE "undone"]
  /\ UNCHANGED <<asking, pane, link, password>>

\* The form's await returns or throws, a lost answer too; an error is shown in the
\* form, which can be submitted again.
Hear(r) ==
  /\ ~request[r].heard
  /\ \E ok \in BOOLEAN :
       /\ ok => request[r].step \in {"answered", "done", "undone"}
       /\ request' = [request EXCEPT ![r].heard = TRUE, ![r].told = ok]
       /\ pane' = [pane EXCEPT ![request[r].form] = IF ok THEN "success" ELSE "form"]
  /\ UNCHANGED <<asking, link, password>>

\* The timer or the user goes to /login; what is under way is heard by nobody.
Abandon(f) ==
  /\ pane[f] # "closed" /\ f # Profile
  /\ pane' = [pane EXCEPT ![f] = "closed"] /\ link' = [link EXCEPT ![f] = NoLink]
  /\ request' = [r \in Requests |->
       IF request[r].form = f THEN [request[r] EXCEPT !.heard = TRUE] ELSE request[r]]
  /\ UNCHANGED <<asking, password>>

RNext ==
  \/ \E l \in Links \cup {NoLink} : Ask(l)
  \/ \E l \in Links : SendMail(l) \/ CommitToken(l) \/ Expire(l)
  \/ AskAnswered \/ AskAgain
  \/ \E f \in Forms : \E l \in Links \cup {NoLink} : Open(f, l)
  \/ \E f \in Forms : Abandon(f)
  \/ \E f \in Forms, r \in Requests : HandleSubmit(f, r)
  \/ \E r \in Requests : Begin(r) \/ Update(r) \/ Commit(r) \/ Abort(r) \/ Hear(r)

-----------------------------------------------------------------------------
\* A link sets one password, unless the requests that use it overlapped: of two
\* that were committed, none read the token after the other's commit
\* (confirm_password_reset filters by is_used, and sets it).
LinkSpentOnce ==
  \A r, q \in Done :
    r # q /\ request[r].link = request[q].link /\ request[r].link # NoLink =>
      r \notin request[q].over

\* A link whose token was committed stays good until it expires, unless a reset
\* through it was committed: neither a request for another link, nor a change of
\* password, nor a reset that failed spoils it.
LinkStands ==
  \A l \in Links :
    ask[l] = "done" /\ (\A r \in Done : request[r].link # l) => token[l] = "unused"

\* A link is good for one reset, and stays good until then.
LinksAreGood == LinkSpentOnce /\ LinkStands

\* When a form reports a success its commit is still to come.  For all that, a
\* password submitted after the report is never overwritten by the one reported,
\* whatever forms and links the two come from.  (A password reported is never set
\* if its commit fails.)
LaterStands == \A r \in Done : password \notin request[r].after
=============================================================================
