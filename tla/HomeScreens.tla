---------------------------- MODULE HomeScreens ----------------------------
(* The app from its start to the list of potholes nearby: MainActivity and
   SigninFragment, which leave the name of the user and the session behind, and
   RightHomeFragment with its filter buttons and RightHomeModel, which starts a
   CustomThread for each request. The main thread and the CustomThreads run side
   by side. Cognito and the server answer when they like, or fail.            *)
EXTENDS Integers, Sequences, SequencesExt

CONSTANTS
  Users, NoUser,
  Filters, Least,      \* the buttons, and button_100mt
  Meters,              \* Meters[b]: the range that the button b asks for
  MaxClicks,           \* on the filters
  MaxSignIns

ASSUME HomeAssumption == Least \in Filters /\ NoUser \notin Users /\ Meters \in [Filters -> Nat]

VARIABLES
  screen,      \* MainActivity, HomeActivity, or "none" when the app does not run
  username,    \* SigninFragment.username
  session,     \* CognitoUserSession in the preferences
  pending,     \* the users whose sign-in has not been answered
  overlapped,  \* history: a sign-in began before another was answered
  saved,       \* the system ended the process and can bring HomeActivity back
  restored,    \* history: HomeActivity was brought back without MainActivity
  position_button,
  fields,      \* of RightHomeModel: meters, and the place the coordinates stand for
  place,       \* the coordinates RightHomeFragment has, 0 for none
  requests,    \* the CustomThreads
  potholes,    \* the list shown, as the request that it answers
  asked,       \* history: what the last click asked for, if nothing was under way then
  clicks, signIns

signInVars == <<username, session, pending, overlapped, saved, restored, signIns>>
homeVars == <<position_button, fields, place, requests, potholes, asked, clicks>>
vars == <<screen, signInVars, homeVars>>

None == [meters |-> 0, place |-> 0]
Fresh ==
  /\ position_button' = Least /\ fields' = None /\ place' = 0 /\ requests' = << >>
  /\ potholes' = None /\ asked' = None /\ clicks' = 0

--------------------------------------------------------------------------------
\* The bug that ForgetsUser would be: the session is looked at, the name in it is not.
ForgetsUser == username

\* isSessionValid sets the name from any session that there is.
UserAtStart == IF session.user = NoUser THEN username ELSE session.user

\* MainActivity.onCreate
Launch ==
  /\ screen = "none"
  /\ username' = UserAtStart
  /\ screen' = IF session.valid THEN "home" ELSE "main"
  /\ pending' = << >> /\ overlapped' = FALSE /\ saved' = FALSE /\ restored' = FALSE
  /\ Fresh /\ UNCHANGED <<session, signIns>>

\* The system ends the process, or an exception does. The system may have kept the state of the
\* activity.
Die ==
  /\ screen # "none" /\ screen' = "none" /\ username' = NoUser
  /\ pending' = << >> /\ overlapped' = FALSE
  /\ saved' \in {FALSE, screen = "home"} /\ restored' = FALSE
  /\ Fresh /\ UNCHANGED <<session, signIns>>

\* HomeActivity.onCreate in a new process: nothing sets the name.
Restore ==
  /\ screen = "none" /\ saved
  /\ screen' = "home" /\ saved' = FALSE /\ restored' = TRUE
  /\ UNCHANGED <<username, session, pending, overlapped, signIns, homeVars>>

Expire ==
  /\ session.valid /\ session' = [session EXCEPT !.valid = FALSE]
  /\ UNCHANGED <<screen, username, pending, overlapped, saved, restored, signIns, homeVars>>

\* The click on the sign-in button: the name is set before it is known to be good.
SignIn(u) ==
  /\ screen = "main" /\ signIns < MaxSignIns
  /\ username' = u /\ pending' = Append(pending, u)
  /\ overlapped' = (overlapped \/ pending # << >>)
  /\ signIns' = signIns + 1
  /\ UNCHANGED <<screen, session, saved, restored, homeVars>>

\* signInCompleted
SignInCompleted(i) ==
  /\ screen = "main"
  /\ session' = [user |-> pending[i], valid |-> TRUE]
  /\ screen' = "home" /\ pending' = RemoveAt(pending, i)
  /\ UNCHANGED <<username, overlapped, saved, restored, signIns, homeVars>>

SignInFailed(i) ==
  /\ screen = "main" /\ pending' = RemoveAt(pending, i)
  /\ UNCHANGED <<screen, username, session, overlapped, saved, restored, signIns, homeVars>>

--------------------------------------------------------------------------------
\* RightHomeFragment, on the main thread

Quiet == \A i \in DOMAIN requests : requests[i].phase = "idle"

\* getPotholesByRange n times: the fields are written, and a thread is started.
NewRequest == [phase |-> "starting", meters |-> 0, place |-> 0]

\* The bug that AskedBefore would be: a thread is started before the fields are written.
AskedBefore(n, b, at) ==
  /\ fields' = [meters |-> Meters[b], place |-> at]
  /\ requests' = requests \o [i \in 1..n |-> [NewRequest EXCEPT !.phase = "looping", !.meters = fields.meters,
                                                                !.place = fields.place]]

GetPotholes(n, b, at) ==
  /\ fields' = [meters |-> Meters[b], place |-> at]
  /\ requests' = requests \o [i \in 1..n |-> NewRequest]

\* The listener of the button b. first_load stays true, so button_100mt asks once even if it is
\* the position already, and twice if it is not.
Clicked(b, at) ==
  LET n == (IF b = Least THEN 1 ELSE 0) + (IF b # position_button THEN 1 ELSE 0)
  IN /\ n > 0 /\ clicks < MaxClicks /\ clicks' = clicks + 1
     /\ position_button' = b
     /\ GetPotholes(n, b, at)
     /\ asked' = IF Quiet THEN [meters |-> Meters[b], place |-> at] ELSE None
     /\ UNCHANGED <<potholes, screen, signInVars>>

Click(b) == screen = "home" /\ Clicked(b, place) /\ UNCHANGED place

\* The last location is there: the coordinates are set and button_100mt is clicked.
LastLocation == screen = "home" /\ place = 0 /\ place' = 1 /\ Clicked(Least, 1)

Update(i, r) == requests' = [requests EXCEPT ![i] = r]
RestOfHome == UNCHANGED <<screen, signInVars, position_button, fields, place, asked, clicks>>

\* runOnUiThread of onPotholesLoaded
PotholesLoaded(i) ==
  /\ requests[i].phase = "loaded"
  /\ potholes' = [meters |-> requests[i].meters, place |-> requests[i].place]
  /\ Update(i, [requests[i] EXCEPT !.phase = "idle"])
  /\ RestOfHome

--------------------------------------------------------------------------------
\* A CustomThread of RightHomeModel: onSuccess, and dispatchPotholesByRange of its handler.
\* The fields are read one after the other.

ReadMeters(i) ==
  /\ requests[i].phase = "starting"
  /\ Update(i, [requests[i] EXCEPT !.phase = "reading", !.meters = fields.meters])
  /\ RestOfHome /\ UNCHANGED potholes

ReadPlace(i) ==
  /\ requests[i].phase = "reading"
  /\ Update(i, [requests[i] EXCEPT !.phase = "looping", !.place = fields.place])
  /\ RestOfHome /\ UNCHANGED potholes

\* The answer is a list; or there is no connection, or an error, or null: then the list on the
\* screen stays as it is.
Dispatch(i) ==
  /\ requests[i].phase = "looping"
  /\ \E phase \in {"loaded", "idle"} : Update(i, [requests[i] EXCEPT !.phase = phase])
  /\ RestOfHome /\ UNCHANGED potholes

--------------------------------------------------------------------------------
Init ==
  /\ screen = "none" /\ username = NoUser /\ session = [user |-> NoUser, valid |-> FALSE]
  /\ pending = << >> /\ overlapped = FALSE /\ saved = FALSE /\ restored = FALSE /\ signIns = 0
  /\ position_button = Least /\ fields = None /\ place = 0 /\ requests = << >>
  /\ potholes = None /\ asked = None /\ clicks = 0

Next ==
  \/ Launch \/ Die \/ Restore \/ Expire
  \/ \E u \in Users : SignIn(u)
  \/ \E i \in DOMAIN pending : SignInCompleted(i) \/ SignInFailed(i)
  \/ LastLocation \/ \E b \in Filters : Click(b)
  \/ \E i \in DOMAIN requests : ReadMeters(i) \/ ReadPlace(i) \/ Dispatch(i) \/ PotholesLoaded(i)

Spec == Init /\ [][Next]_vars

--------------------------------------------------------------------------------
\* The name that reports and histories are asked with is the one the session is for, after
\* failed and repeated sign-ins and after every start that goes through MainActivity; where the
\* system brings HomeActivity back there is no name, and never that of somebody else. This is
\* as long as no sign-in was begun while another was under way: then the name is the last one
\* clicked, whoever the session is for. LeftHomeFragment and LocationService read the name only.
UserIsSession ==
  screen = "home" /\ ~overlapped =>
    IF restored THEN username = NoUser ELSE username # NoUser /\ username = session.user

\* If a filter is chosen while no request is under way, then the list that comes is the one for
\* that filter and place, although all requests share the fields of the model and one click
\* may start two of them. Without an answer the list of an earlier filter stays.
ListIsAnswer ==
  [][\A i \in DOMAIN requests : asked # None /\ PotholesLoaded(i) => potholes' = asked]_vars
============================================================================
