------------------------------- MODULE Dashboard -------------------------------
(***************************************************************************)
(* An administration page in a signed-in tab.  Its server component and    *)
(* its server actions pass the browser's access cookie on to the backend   *)
(* (server-api.ts), so what becomes of a click depends on who the cookie   *)
(* stands for when the action runs; to go to another page, to load one or  *)
(* to sign out takes the page's state with it.                             *)
(***************************************************************************)
EXTENDS AdminConsole, BrowserSession

CONSTANT Admins  \* accounts whose role allows what the page does

VARIABLE failed  \* users or roles could not be fetched: an error page is shown

dvars == <<avars, bvars, failed>>

Authorized(who, live) == who \in Admins /\ live
Signed == Authorized(cookie, alive)

\* The page is used; the tab's own requests, which it does not see, come first.
OnPage ==
  /\ screen = "console" /\ ~failed
  /\ \A l \in Loads : me[l] = Idle
  /\ patch = NoPatch /\ leaving = Idle

\* Away from the page, what it would show makes no difference.
Away == "users"

ASSUME DashboardAssumption == Away \in Lists

\* The tab and its page.
DTypeOK == ATypeOK /\ BTypeOK /\ failed \in BOOLEAN

DInit ==
  /\ AInit /\ BInit /\ failed \in BOOLEAN
  /\ IF screen = "console" /\ ~failed THEN Signed \/ fetchError
     ELSE list = Away /\ db = NoRows /\ (failed => screen = "console")

\* Its rows are fetched, for whom the backend allows them; or not, for whatever
\* reason, and a page of permissions is there all the same.
Arrive ==
  /\ Reload \/ Visit \/ LoggedIn \/ LoggedOut \/ LogoutFailed
  /\ IF screen' = "console"
     THEN \/ Authorized(cookie', alive') /\ failed' = FALSE /\ Mount(Lists, Contents, FALSE)
          \/ failed' = FALSE /\ Mount(Lists \cap {"permissions"}, Contents, TRUE)
          \/ failed' = TRUE /\ Mount({Away}, {NoRows}, FALSE)
     ELSE failed' = FALSE /\ Mount({Away}, {NoRows}, FALSE)

Stay ==
  /\ \/ login \/ LoginFailed \/ logout \/ handleProfileSave \/ Saved \/ SaveFailed
     \/ \E l \in Loads : refreshUser(l)
     \/ Expire \/ Revoke \/ OtherTab
  /\ UNCHANGED <<avars, failed>>

Used ==
  /\ OnPage
  /\ Operate \/ Reject \/ OtherAdmin
  /\ UNCHANGED <<bvars, failed>>

ServedOnPage ==
  /\ OnPage
  /\ (Signed /\ (Handle \/ Render)) \/ RenderEmpty \/ Refuse \/ Deliver
  /\ UNCHANGED <<bvars, failed>>

\* The action was carried out, but users or roles cannot be fetched any more.
RenderFails ==
  /\ OnPage /\ AtHead("handled") /\ list # "permissions"
  /\ Mount({Away}, {NoRows}, FALSE) /\ failed' = TRUE
  /\ UNCHANGED bvars

DNext == Arrive \/ Stay \/ Used \/ ServedOnPage \/ RenderFails

\* Requests are answered, one way or another.
DSpec ==
  /\ DInit /\ [][DNext]_dvars
  /\ WF_dvars(ServedOnPage \/ RenderFails)
  /\ WF_dvars(Answered /\ (Arrive \/ Stay))
=============================================================================
