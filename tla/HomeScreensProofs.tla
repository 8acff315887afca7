------------------------- MODULE HomeScreensProofs -------------------------
(* UserIsSession and ListIsAnswer of HomeScreens, for any users, any filters and
   any number of clicks and sign-ins.                                         *)
EXTENDS HomeScreens, TLAPS

Ids == Users \cup {NoUser}
Answers == [meters : Nat, place : {0, 1}]
Phases == {"starting", "reading", "looping", "loaded", "idle"}
Requests == [phase : Phases, meters : Nat, place : {0, 1}]

SignInType ==
  /\ screen \in {"none", "main", "home"} /\ username \in Ids
  /\ session \in [user : Ids, valid : BOOLEAN] /\ (session.valid => session.user # NoUser)
  /\ pending \in Seq(Users) /\ overlapped \in BOOLEAN /\ restored \in BOOLEAN

\* A sign-in that no other overlaps is for the name that has been set, and it is the only one.
\* A process starts without a name, and only HomeActivity is brought back.
OneSignIn ==
  ~overlapped =>
    /\ Len(pending) <= 1
    /\ screen = "main" /\ pending # << >> => username = pending[1]
    /\ screen = "home" => pending = << >>
    /\ screen = "home" /\ ~restored => username # NoUser /\ username = session.user
    /\ screen = "home" /\ restored => username = NoUser

Started == (screen = "none" => username = NoUser /\ pending = << >>) /\ (restored => screen = "home")

SignInInv == SignInType /\ OneSignIn /\ Started

HomeType ==
  /\ position_button \in Filters /\ fields \in Answers /\ place \in {0, 1}
  /\ requests \in Seq(Requests) /\ asked \in Answers

\* What a thread has read of the model's fields is what the last click asked for.
FieldsRead ==
  asked # None =>
    /\ fields = asked
    /\ \A i \in DOMAIN requests :
         /\ requests[i].phase \in {"reading", "looping", "loaded"} => requests[i].meters = asked.meters
         /\ requests[i].phase \in {"looping", "loaded"} => requests[i].place = asked.place

HomeInv == HomeType /\ FieldsRead

--------------------------------------------------------------------------------
\* What RemoveAt leaves of a sequence of one element, and of any other.
LEMMA RemoveAtOnly ==
  ASSUME NEW S, NEW s \in Seq(S), NEW i \in DOMAIN s
  PROVE  /\ RemoveAt(s, i) \in Seq(S)
         /\ Len(s) = 1 => i = 1 /\ RemoveAt(s, i) = << >>
<1>1. SubSeq(s, 1, i - 1) \in Seq(S) /\ SubSeq(s, i + 1, Len(s)) \in Seq(S)
  OBVIOUS
<1>2. RemoveAt(s, i) \in Seq(S)
  BY <1>1 DEF RemoveAt
<1>3. ASSUME Len(s) = 1 PROVE i = 1 /\ RemoveAt(s, i) = << >>
  <2>1. i = 1 BY <1>3
  <2>2. SubSeq(s, 1, i - 1) = << >> /\ SubSeq(s, i + 1, Len(s)) = << >> BY <1>3, <2>1
  <2>. QED BY <2>1, <2>2 DEF RemoveAt
<1>. QED BY <1>2, <1>3

--------------------------------------------------------------------------------
LEMMA SignInInit == Init => SignInInv
<1>. SUFFICES ASSUME Init PROVE SignInInv
  OBVIOUS
<1>1. SignInType
  <2>1. /\ screen = "none" /\ username = NoUser /\ session = [user |-> NoUser, valid |-> FALSE]
        /\ pending = << >> /\ overlapped = FALSE /\ restored = FALSE
    BY DEF Init
  <2>2. << >> \in Seq(Users)
    OBVIOUS
  <2>. QED BY <2>1, <2>2 DEF SignInType, Ids
<1>2. pending = << >> /\ Len(pending) = 0 /\ screen = "none" /\ username = NoUser /\ ~restored
  BY DEF Init
<1>3. OneSignIn
  BY <1>2 DEF OneSignIn
<1>. QED BY <1>1, <1>2, <1>3 DEF SignInInv, Started

\* One sign-in is answered: no other is pending, unless they overlapped.
LEMMA AnswerStep ==
  ASSUME SignInInv, NEW i \in DOMAIN pending, pending' = RemoveAt(pending, i)
  PROVE  /\ pending' \in Seq(Users) /\ pending[i] \in Users
         /\ ~overlapped => i = 1 /\ pending # << >> /\ pending' = << >> /\ Len(pending') = 0
<1>1. pending \in Seq(Users) /\ pending # << >> /\ Len(pending) >= 1
  BY DEF SignInInv, SignInType
<1>2. pending' \in Seq(Users) /\ pending[i] \in Users /\ (Len(pending) = 1 => i = 1 /\ pending' = << >>)
  BY <1>1, RemoveAtOnly
<1>3. ~overlapped => Len(pending) <= 1
  BY DEF SignInInv, OneSignIn
<1>4. Len(pending) <= 1 => Len(pending) = 1
  BY <1>1
<1>5. Len(<< >>) = 0
  OBVIOUS
<1>. QED BY <1>1, <1>2, <1>3, <1>4, <1>5

LEMMA SignInStep == SignInInv /\ [Next]_vars => SignInInv'
<1>. SUFFICES ASSUME SignInInv, [Next]_vars PROVE SignInInv'
  OBVIOUS
<1>. USE DEF SignInInv
<1>0. Len(<< >>) = 0
  OBVIOUS
<1>1. CASE Launch
  <2>1. SignInType'
    <3>1. /\ pending' = << >> /\ overlapped' = FALSE /\ restored' = FALSE /\ session' = session
          /\ screen' \in {"home", "main"} /\ username' \in {username, session.user}
      BY <1>1 DEF Launch, UserAtStart
    <3>2. << >> \in Seq(Users)
      OBVIOUS
    <3>. QED BY <3>1, <3>2 DEF SignInType, Ids
  <2>2. pending' = << >> /\ (screen' = "home" => username' # NoUser /\ username' = session'.user)
    BY <1>1 DEF Launch, UserAtStart, SignInType
  <2>3. (screen' = "main" \/ screen' = "home") /\ ~restored'
    BY <1>1 DEF Launch
  <2>. QED BY <1>0, <2>1, <2>2, <2>3 DEF OneSignIn, Started
<1>2. CASE Die
  <2>1. SignInType'
    <3>1. /\ pending' = << >> /\ overlapped' = FALSE /\ restored' = FALSE /\ session' = session
          /\ screen' = "none" /\ username' = NoUser
      BY <1>2 DEF Die
    <3>2. << >> \in Seq(Users)
      OBVIOUS
    <3>. QED BY <3>1, <3>2 DEF SignInType, Ids
  <2>2. pending' = << >> /\ screen' = "none" /\ username' = NoUser /\ ~restored'
    BY <1>2 DEF Die
  <2>. QED BY <1>0, <2>1, <2>2 DEF OneSignIn, Started
<1>3. CASE Expire
  <2>1. SignInType' /\ session'.user = session.user
    BY <1>3 DEF Expire, SignInType, homeVars
  <2>. QED BY <1>3, <2>1 DEF OneSignIn, Started, Expire
<1>4. ASSUME NEW u \in Users, SignIn(u) PROVE SignInInv'
  <2>1. SignInType' BY <1>4 DEF SignIn, SignInType, Ids
  <2>2. ~overlapped' => pending = << >>
    BY <1>4 DEF SignIn
  <2>3. pending = << >> => Len(pending') <= 1 /\ pending'[1] = u
    BY <1>4 DEF SignIn
  <2>4. screen = "main" /\ screen' = "main" /\ username' = u /\ restored' = restored
    BY <1>4 DEF SignIn
  <2>5. Started'
    BY <2>4 DEF Started
  <2>. QED BY <2>1, <2>2, <2>3, <2>4, <2>5 DEF OneSignIn
<1>5. ASSUME NEW i \in DOMAIN pending, SignInCompleted(i) PROVE SignInInv'
  <2>1. screen = "main" /\ screen' = "home" /\ UNCHANGED <<username, overlapped, restored>>
        /\ session' = [user |-> pending[i], valid |-> TRUE] /\ pending' = RemoveAt(pending, i)
    BY <1>5 DEF SignInCompleted
  <2>2. /\ pending' \in Seq(Users) /\ pending[i] \in Users
        /\ ~overlapped => i = 1 /\ pending # << >> /\ pending' = << >> /\ Len(pending') = 0
    BY <2>1, AnswerStep
  <2>3. SignInType' /\ session'.user = pending[i]
    BY <2>1, <2>2, HomeAssumption DEF SignInType, Ids
  <2>4. ~overlapped' => username' # NoUser /\ username' = session'.user
    BY <2>1, <2>2, <2>3, HomeAssumption DEF OneSignIn
  <2>5. 0 <= 1
    OBVIOUS
  <2>6. OneSignIn'
    BY <2>1, <2>2, <2>4, <2>5 DEF OneSignIn, Started
  <2>7. Started'
    BY <2>1 DEF Started
  <2>. QED BY <2>3, <2>6, <2>7
<1>6. ASSUME NEW i \in DOMAIN pending, SignInFailed(i) PROVE SignInInv'
  <2>1. screen = "main" /\ pending' = RemoveAt(pending, i) 
        /\ UNCHANGED <<screen, username, session, overlapped, restored>>
    BY <1>6 DEF SignInFailed
  <2>2. /\ pending' \in Seq(Users)
        /\ ~overlapped => pending' = << >> /\ Len(pending') = 0
    BY <2>1, AnswerStep
  <2>3. SignInType'
    BY <2>1, <2>2 DEF SignInType
  <2>4. 0 <= 1
    OBVIOUS
  <2>5. screen' = "main" /\ Started'
    BY <2>1 DEF Started
  <2>. QED BY <2>1, <2>2, <2>3, <2>4, <2>5 DEF OneSignIn
<1>7. ASSUME UNCHANGED <<screen, signInVars>> PROVE SignInInv'
  BY <1>7 DEF signInVars, SignInType, OneSignIn, Started
<1>8. CASE LastLocation
  BY <1>7, <1>8 DEF LastLocation, Clicked
<1>9. ASSUME NEW b \in Filters, Click(b) PROVE SignInInv'
  BY <1>7, <1>9 DEF Click, Clicked
<1>10. ASSUME NEW i \in DOMAIN requests,
              ReadMeters(i) \/ ReadPlace(i) \/ Dispatch(i) \/ PotholesLoaded(i)
       PROVE SignInInv'
  BY <1>7, <1>10 DEF ReadMeters, ReadPlace, Dispatch, PotholesLoaded, RestOfHome
<1>11. CASE UNCHANGED vars
  BY <1>7, <1>11 DEF vars
<1>12. CASE Restore
  <2>1. /\ screen = "none" /\ screen' = "home" /\ restored' = TRUE
        /\ UNCHANGED <<username, session, pending, overlapped>>
    BY <1>12 DEF Restore
  <2>2. username' = NoUser /\ pending' = << >>
    BY <2>1 DEF Started
  <2>3. SignInType' /\ Started'
    BY <2>1 DEF SignInType, Started
  <2>. QED BY <1>0, <2>1, <2>2, <2>3 DEF OneSignIn
<1>. QED BY <1>1, <1>2, <1>3, <1>4, <1>5, <1>6, <1>8, <1>9, <1>10, <1>11, <1>12 DEF Next

\* The name that SigninFragment keeps is that of the Cognito session, for any number of starts
\* through MainActivity, deaths of the process, expired sessions and sign-ins of any users that
\* do not overlap; in a HomeActivity that the system brought back it is none, never another's.
THEOREM UserStaysSession == Spec => []UserIsSession
<1>1. SignInInv => UserIsSession
  BY DEF SignInInv, OneSignIn, UserIsSession
<1>. QED BY SignInInit, SignInStep, <1>1, PTL DEF Spec

--------------------------------------------------------------------------------
LEMMA HomeInit == Init => HomeInv
<1>. SUFFICES ASSUME Init PROVE HomeInv
  OBVIOUS
<1>1. HomeType
  BY HomeAssumption DEF Init, HomeType, Answers, None
<1>2. FieldsRead
  BY DEF Init, FieldsRead
<1>. QED BY <1>1, <1>2 DEF HomeInv

\* One thread gets on, to a request r that has read no more than the click asked for.
LEMMA RequestStep ==
  ASSUME HomeInv, NEW i \in DOMAIN requests, NEW r \in Requests, Update(i, r),
         UNCHANGED <<position_button, fields, place, asked>>,
         asked # None =>
           /\ r.phase \in {"reading", "looping", "loaded"} => r.meters = asked.meters
           /\ r.phase \in {"looping", "loaded"} => r.place = asked.place
  PROVE  HomeInv'
<1>1. requests' \in Seq(Requests) /\ DOMAIN requests' = DOMAIN requests
  BY DEF HomeInv, HomeType, Update
<1>2. \A k \in DOMAIN requests : requests'[k] = IF k = i THEN r ELSE requests[k]
  BY DEF HomeInv, HomeType, Update
<1>3. HomeType'
  BY <1>1 DEF HomeInv, HomeType
<1>4. FieldsRead'
  BY <1>1, <1>2 DEF HomeInv, FieldsRead, HomeType
<1>. QED BY <1>3, <1>4 DEF HomeInv

\* A click adds requests that have read nothing yet.
LEMMA ClickStep ==
  ASSUME HomeInv, NEW b \in Filters, NEW at \in {0, 1}, Clicked(b, at), place' \in {0, 1}
  PROVE  HomeInv'
<1>. DEFINE n == (IF b = Least THEN 1 ELSE 0) + (IF b # position_button THEN 1 ELSE 0)
            new == [k \in 1..n |-> NewRequest]
<1>1. n \in Nat /\ new \in Seq(Requests) /\ Len(new) = n
  BY DEF NewRequest, Requests, Phases
<1>2. requests' = requests \o new /\ requests' \in Seq(Requests)
  <2>1. requests' = requests \o new
    BY DEF Clicked, GetPotholes
  <2>. QED BY <1>1, <2>1 DEF HomeInv, HomeType
<1>3. fields' = [meters |-> Meters[b], place |-> at] /\ fields' \in Answers
  BY HomeAssumption DEF Clicked, GetPotholes, Answers
<1>4. asked' \in Answers /\ (asked' # None => Quiet /\ asked' = fields')
  BY <1>3 DEF Clicked, Answers, None
<1>5. HomeType'
  BY <1>2, <1>3, <1>4 DEF HomeInv, HomeType, Clicked
<1>6. ASSUME Quiet, NEW k \in DOMAIN requests' PROVE requests'[k].phase \in {"idle", "starting"}
  <2>1. CASE k \in DOMAIN requests
    BY <1>1, <1>2, <1>6, <2>1 DEF Quiet, HomeInv, HomeType
  <2>2. CASE k \notin DOMAIN requests
    <3>1. k - Len(requests) \in 1..n /\ requests'[k] = new[k - Len(requests)]
      BY <1>1, <1>2, <2>2 DEF HomeInv, HomeType
    <3>. QED BY <3>1 DEF NewRequest
  <2>. QED BY <2>1, <2>2
<1>7. FieldsRead'
  BY <1>4, <1>6 DEF FieldsRead
<1>. QED BY <1>5, <1>7 DEF HomeInv

LEMMA HomeStep == HomeInv /\ [Next]_vars => HomeInv'
<1>. SUFFICES ASSUME HomeInv, [Next]_vars PROVE HomeInv'
  OBVIOUS
<1>1. ASSUME UNCHANGED homeVars PROVE HomeInv'
  BY <1>1 DEF homeVars, HomeInv, HomeType, FieldsRead
<1>2. ASSUME Fresh PROVE HomeInv'
  <2>1. HomeType' BY <1>2, HomeAssumption DEF Fresh, HomeType, Answers, None
  <2>2. FieldsRead' BY <1>2 DEF Fresh, FieldsRead
  <2>. QED BY <2>1, <2>2 DEF HomeInv
<1>3. CASE Launch \/ Die
  BY <1>2, <1>3 DEF Launch, Die
<1>4. CASE Expire \/ Restore \/ (\E u \in Users : SignIn(u))
           \/ (\E i \in DOMAIN pending : SignInCompleted(i) \/ SignInFailed(i))
  BY <1>1, <1>4 DEF Expire, Restore, SignIn, SignInCompleted, SignInFailed
<1>5. CASE LastLocation
  <2>1. Clicked(Least, 1) /\ place' \in {0, 1} BY <1>5 DEF LastLocation
  <2>. QED BY <2>1, ClickStep, HomeAssumption
<1>6. ASSUME NEW b \in Filters, Click(b) PROVE HomeInv'
  <2>1. Clicked(b, place) /\ place' = place /\ place \in {0, 1} BY <1>6 DEF Click, HomeInv, HomeType
  <2>. QED BY <2>1, ClickStep
<1>7. ASSUME NEW i \in DOMAIN requests,
             ReadMeters(i) \/ ReadPlace(i) \/ Dispatch(i) \/ PotholesLoaded(i)
      PROVE HomeInv'
  <2>. requests[i] \in Requests /\ fields \in Answers
    BY DEF HomeInv, HomeType
  <2>. UNCHANGED <<position_button, fields, place, asked>>
    BY <1>7 DEF ReadMeters, ReadPlace, Dispatch, PotholesLoaded, RestOfHome
  <2>1. PICK r \in Requests :
          /\ Update(i, r)
          /\ \/ r.phase = "reading" /\ r.meters = fields.meters
             \/ requests[i].phase = "reading" /\ r.meters = requests[i].meters /\ r.place = fields.place
             \/ requests[i].phase = "looping" /\ r.meters = requests[i].meters /\ r.place = requests[i].place
             \/ r.phase = "idle"
    <3>1. CASE ReadMeters(i)
      <4>1. [requests[i] EXCEPT !.phase = "reading", !.meters = fields.meters] \in Requests
        BY DEF Requests, Phases, Answers
      <4>. QED BY <3>1, <4>1 DEF ReadMeters, Requests
    <3>2. CASE ReadPlace(i)
      <4>1. [requests[i] EXCEPT !.phase = "looping", !.place = fields.place] \in Requests
        BY DEF Requests, Phases, Answers
      <4>. QED BY <3>2, <4>1 DEF ReadPlace, Requests
    <3>3. CASE Dispatch(i)
      BY <3>3 DEF Dispatch, Requests, Phases
    <3>4. CASE PotholesLoaded(i)
      BY <3>4 DEF PotholesLoaded, Requests, Phases
    <3>. QED BY <1>7, <3>1, <3>2, <3>3, <3>4
  <2>2. asked # None =>
          /\ r.phase \in {"reading", "looping", "loaded"} => r.meters = asked.meters
          /\ r.phase \in {"looping", "loaded"} => r.place = asked.place
    BY <2>1 DEF HomeInv, FieldsRead
  <2>. QED BY <2>1, <2>2, RequestStep
<1>8. CASE UNCHANGED vars
  BY <1>1, <1>8 DEF vars
<1>. QED BY <1>3, <1>4, <1>5, <1>6, <1>7, <1>8 DEF Next

\* The list shown after a filter was chosen while nothing was under way is the one for that
\* filter and place, for any filters and any number of requests that one click starts.
THEOREM ListAnswersFilter == Spec => ListIsAnswer
<1>1. HomeInv /\ [Next]_vars =>
        [\A i \in DOMAIN requests : asked # None /\ PotholesLoaded(i) => potholes' = asked]_vars
  <2>. SUFFICES ASSUME HomeInv, NEW i \in DOMAIN requests, asked # None, PotholesLoaded(i)
                PROVE  potholes' = asked
    OBVIOUS
  <2>1. requests[i].meters = asked.meters /\ requests[i].place = asked.place
    BY DEF HomeInv, FieldsRead, PotholesLoaded
  <2>2. asked = [meters |-> asked.meters, place |-> asked.place]
    BY DEF HomeInv, HomeType, Answers
  <2>. QED BY <2>1, <2>2 DEF PotholesLoaded
<1>. QED BY HomeInit, HomeStep, <1>1, PTL DEF Spec, ListIsAnswer
============================================================================
