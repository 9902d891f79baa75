------------------------- MODULE PhoneAccountProofs -------------------------
(***************************************************************************)
(* The customer's account on the phone: the session, for any number of     *)
(* users, sessions, generations and requests; signing in with a code; the  *)
(* saved addresses; the notifications; with any number of faults.          *)
(***************************************************************************)
EXTENDS PhoneAccount, FiniteSetTheorems, TLAPS

-----------------------------------------------------------------------------
(***************************************************************************)
(* The session: the shape of the state                                     *)
(***************************************************************************)
CallStages == {"idle", "sent", "refreshing", "rotated", "refused"}
FlowKinds == {"none", "boot", "signIn", "logout"}
FlowStages == {"none", "refreshing", "rotated", "refused", "verified", "signingOut"}
PushStages == {"off", "registering", "registered", "failed"}

\* The shape of the API's sessions, of the store and the screens, of what is
\* under way, of the push registration, and of the counters and the history.
ApiTypeOK == family \in Families /\ aged \in [Sessions -> 0 .. MaxGen]

ScreenTypeOK ==
  /\ store \in Holder
  /\ status \in {"loading", "unauthenticated", "authenticated"}
  /\ scope \in Sessions \union {0} /\ closing \in BOOLEAN

WorkTypeOK ==
  /\ call \in [Calls -> [stage: CallStages, token: Holder]]
  /\ flow \in [kind: FlowKinds, stage: FlowStages, token: Holder]

DeviceTypeOK ==
  /\ push \in [stage: PushStages, access: Holder]
  /\ native \in 1 .. MaxNatives
  /\ row \in [1 .. MaxNatives -> [user: Users \union {Nobody}, active: BOOLEAN]]
  /\ push.stage # "off" => native < MaxNatives

HistoryTypeOK ==
  /\ faults \in 0 .. MaxFaults
  /\ lost \in BOOLEAN /\ overlap \in BOOLEAN /\ reused \in BOOLEAN
  /\ crossed \in BOOLEAN /\ orphan \in BOOLEAN

\* Which stage a flow may be at, and whose status it goes with.
FlowShape ==
  /\ flow.stage \in {"refreshing", "rotated", "refused"} => flow.kind = "boot"
  /\ flow.kind = "none" => flow = NoFlow
  /\ flow.kind = "boot" => status = "loading" /\ flow.stage \in {"refreshing", "rotated", "refused"}
  /\ flow.kind = "signIn" <=> flow.stage = "verified"
  /\ flow.stage = "verified" => status = "unauthenticated"
  /\ flow.kind = "logout" => flow.stage = "signingOut"

\* Before the session is restored nothing else is under way.
LoadingShape ==
  status = "loading" => (\A c \in Calls : call[c] = Idle) /\ push = PushOff /\ ~closing

\* A session that was opened has a user and a generation.
FamilyShape ==
  \A s \in Sessions : (family[s].user = Nobody => family[s].gen = 0) /\ (family[s].user # Nobody => family[s].gen > 0)

\* A token was issued: its session has come to its generation.
Known(t) == t # NoToken => t[2] <= family[t[1]].gen

TokensKnown ==
  /\ Known(store) /\ Known(flow.token)
  /\ \A c \in Calls : Known(call[c].token)
  /\ \A c \in Calls : Refreshing(c) => call[c].token # NoToken
  /\ flow.stage \in {"refreshing", "rotated", "verified"} => flow.token # NoToken

TypesOK == ApiTypeOK /\ ScreenTypeOK /\ WorkTypeOK /\ DeviceTypeOK /\ HistoryTypeOK

Shape == TypesOK /\ FlowShape /\ LoadingShape /\ FamilyShape /\ TokensKnown

LEMMA Bounds == MaxSessions \in Nat /\ MaxSessions > 0 /\ MaxGen \in Nat /\ MaxGen > 0
                /\ MaxNatives \in Nat /\ MaxNatives > 0 /\ MaxFaults \in Nat /\ Nobody \notin Users
  BY FamilyAssumption, PhoneAssumption

LEMMA TokenParts ==
  ASSUME NEW t \in Tokens
  PROVE  t[1] \in Sessions /\ t[2] \in 1 .. MaxGen /\ t = <<t[1], t[2]>> /\ t # NoToken
  BY Bounds DEF Tokens, NoToken, Sessions

LEMMA TokenMade ==
  ASSUME NEW s \in Sessions, NEW g \in 1 .. MaxGen
  PROVE  <<s, g>> \in Tokens
  BY DEF Tokens

\* What presenting a token makes of the API's sessions.
LEMMA RefreshedShape ==
  ASSUME NEW F \in Families, NEW t \in Holder
  PROVE  /\ Refreshed(F, t) \in Families
         /\ \A s \in Sessions : /\ Refreshed(F, t)[s].user = F[s].user
                                /\ Refreshed(F, t)[s].gen =
                                     IF Rotates(F, t) /\ s = t[1] THEN F[s].gen + 1 ELSE F[s].gen
         /\ Rotates(F, t) => /\ t \in Tokens /\ F[t[1]].gen = t[2]
                             /\ Rotated(t) \in Tokens /\ Rotated(t)[1] = t[1] /\ Rotated(t)[2] = t[2] + 1
<1>1. CASE Rotates(F, t)
  <2>1. t \in Tokens /\ F[t[1]].gen = t[2] /\ t[2] # MaxGen
    BY <1>1 DEF Rotates, IsOpen, Expired, Hashed
  <2>2. t[1] \in Sessions /\ t[2] \in 1 .. MaxGen
    BY <2>1, TokenParts
  <2>3. t[2] + 1 \in 1 .. MaxGen
    BY <2>1, <2>2, Bounds
  <2>4. Rotated(t) \in Tokens
    BY <2>2, <2>3, TokenMade DEF Rotated
  <2>5. Refreshed(F, t) = [F EXCEPT ![t[1]].gen = @ + 1]
    BY <1>1 DEF Refreshed
  <2>6. Refreshed(F, t) \in Families
    BY <2>1, <2>2, <2>3, <2>5, Bounds DEF Families
  <2> QED
    BY <1>1, <2>1, <2>2, <2>4, <2>5, <2>6 DEF Families, Rotated
<1>2. CASE ~Rotates(F, t) /\ Reuses(F, t)
  <2>1. t \in Tokens
    BY <1>2 DEF Reuses, IsOpen
  <2>2. t[1] \in Sessions
    BY <2>1, TokenParts
  <2>3. Refreshed(F, t) = [F EXCEPT ![t[1]].open = FALSE]
    BY <1>2 DEF Refreshed
  <2>4. Refreshed(F, t) \in Families
    BY <2>2, <2>3 DEF Families
  <2>5. ASSUME NEW s \in Sessions
        PROVE  Refreshed(F, t)[s].user = F[s].user /\ Refreshed(F, t)[s].gen = F[s].gen
    BY <2>2, <2>3 DEF Families
  <2> QED
    BY <1>2, <2>4, <2>5
<1>3. CASE ~Rotates(F, t) /\ ~Reuses(F, t)
  BY <1>3 DEF Refreshed
<1> QED
  BY <1>1, <1>2, <1>3

LEMMA LoggedOutShape ==
  ASSUME NEW F \in Families, NEW t \in Holder
  PROVE  /\ LoggedOut(F, t) \in Families
         /\ \A s \in Sessions : LoggedOut(F, t)[s].user = F[s].user /\ LoggedOut(F, t)[s].gen = F[s].gen
<1>1. CASE IsOpen(F, t) /\ Hashed(F, t)
  <2>1. t[1] \in Sessions
    BY <1>1, TokenParts DEF IsOpen
  <2> QED
    BY <1>1, <2>1 DEF LoggedOut, Families
<1>2. CASE ~(IsOpen(F, t) /\ Hashed(F, t))
  BY <1>2 DEF LoggedOut
<1> QED
  BY <1>1, <1>2

LEMMA HeldToken ==
  ASSUME NEW t \in Holder, t # NoToken
  PROVE  t \in Tokens /\ t[1] \in Sessions /\ t[2] \in 1 .. MaxGen
  BY TokenParts DEF Holder

LEMMA UserOfType ==
  ASSUME NEW F \in Families, NEW t \in Holder
  PROVE  UserOf(F, t) \in Users \union {Nobody}
  BY TokenParts DEF UserOf, Families

\* Stopping the push session uses the push token up.
LEMMA StopPushType ==
  ASSUME DeviceTypeOK, StopPush
  PROVE  DeviceTypeOK' /\ push' = PushOff /\ orphan' = orphan
<1>1. push' \in [stage: PushStages, access: Holder] /\ push'.stage = "off"
  BY DEF StopPush, PushOff, PushStages, Holder
<1>2. row' \in [1 .. MaxNatives -> [user: Users \union {Nobody}, active: BOOLEAN]]
  <2>1. CASE row' = row
    BY <2>1 DEF DeviceTypeOK
  <2>2. CASE row' = [row EXCEPT ![native].active = FALSE]
    BY <2>2 DEF DeviceTypeOK
  <2> QED
    BY <2>1, <2>2 DEF StopPush, Deactivated
<1>3. native' \in 1 .. MaxNatives
  BY Bounds DEF StopPush, DeviceTypeOK
<1> QED
  BY <1>1, <1>2, <1>3 DEF DeviceTypeOK, StopPush

\* Generations only grow, so a token that was issued stays so.
LEMMA KnownStays ==
  ASSUME ApiTypeOK, \A s \in Sessions : family'[s].gen \in Nat /\ family[s].gen <= family'[s].gen,
         NEW t \in Holder, Known(t)
  PROVE  t # NoToken => t[2] <= family'[t[1]].gen
<1> SUFFICES ASSUME t # NoToken PROVE t[2] <= family'[t[1]].gen
  OBVIOUS
<1>1. t[1] \in Sessions /\ t[2] \in Nat /\ t[2] <= family[t[1]].gen /\ family[t[1]].gen \in Nat
  BY HeldToken DEF Known, ApiTypeOK, Families
<1> QED
  BY <1>1

LEMMA SessionStarts == Init => Shape
<1> SUFFICES ASSUME Init PROVE Shape
  OBVIOUS
<1>1. NoToken \in Holder
  BY DEF Holder
<1>5. family \in Families /\ aged \in [Sessions -> 0 .. MaxGen]
  BY Bounds DEF Init, Families, NoFamilies, NoneAged
<1>6. call \in [Calls -> [stage: CallStages, token: Holder]]
  BY <1>1 DEF Init, CallStages, Idle
<1>7. flow \in [kind: FlowKinds, stage: FlowStages, token: Holder]
  BY <1>1 DEF Init, NoFlow, FlowKinds, FlowStages
<1>9. push \in [stage: PushStages, access: Holder]
  BY <1>1 DEF Init, PushOff, PushStages
<1>10. row \in [1 .. MaxNatives -> [user: Users \union {Nobody}, active: BOOLEAN]]
  BY DEF Init, NoRow
<1>11. ScreenTypeOK
  BY <1>1 DEF Init, ScreenTypeOK
<1>14. faults \in 0 .. MaxFaults
  BY Bounds DEF Init
<1>13. HistoryTypeOK
  BY <1>14, Zenon DEF Init, HistoryTypeOK
<1>12. DeviceTypeOK
  BY <1>9, <1>10, Bounds DEF Init, DeviceTypeOK, PushOff
<1>8. TypesOK
  BY <1>5, <1>6, <1>7, <1>11, <1>12, <1>13 DEF TypesOK, ApiTypeOK, WorkTypeOK
<1>2. FlowShape /\ LoadingShape
  BY DEF Init, FlowShape, LoadingShape, NoFlow
<1>3. FamilyShape
  BY DEF Init, FamilyShape, NoFamilies
<1>4. TokensKnown
  BY DEF Init, TokensKnown, Known, NoFlow, Idle, Refreshing
<1> QED
  BY <1>8, <1>2, <1>3, <1>4 DEF Shape

LEMMA AgeShape ==
  ASSUME Shape, Age
  PROVE  Shape'
<1> USE Bounds DEF Shape, TypesOK
<1>1. ApiTypeOK'
  <2>1. PICK s \in Sessions : aged[s] < family[s].gen /\ aged' = [aged EXCEPT ![s] = @ + 1]
    BY DEF Age
  <2>2. family[s].gen \in 0 .. MaxGen /\ aged[s] \in 0 .. MaxGen
    BY DEF ApiTypeOK, Families
  <2>3. aged[s] + 1 \in 0 .. MaxGen
    BY <2>1, <2>2
  <2> QED
    BY <2>1, <2>3 DEF Age, ApiTypeOK
<1>2. ScreenTypeOK'
  BY DEF Age, ScreenTypeOK, WorkTypeOK, history, session, device, Holder
<1>3. WorkTypeOK'
  BY DEF Age, ScreenTypeOK, WorkTypeOK, history, session, device, CallStages, FlowKinds,
     FlowStages, Holder, Idle, NoFlow
<1>4. DeviceTypeOK'
  BY DEF Age, ScreenTypeOK, DeviceTypeOK, history, session, device, PushStages, Holder, PushOff
<1>5. HistoryTypeOK'
  BY DEF Age, HistoryTypeOK, history, session, device
<1>6. FlowShape' /\ LoadingShape'
  BY DEF Age, ScreenTypeOK, WorkTypeOK, FlowShape, LoadingShape, history, session, device,
     SignedIn, Idle, NoFlow, PushOff
<1>7. FamilyShape' /\ TokensKnown'
  BY DEF Age, ApiTypeOK, WorkTypeOK, FamilyShape, TokensKnown, Known, history, session,
     device, Refreshing, Idle, NoFlow, PushOff
<1> QED
  BY <1>1, <1>2, <1>3, <1>4, <1>5, <1>6, <1>7

LEMMA BootShape ==
  ASSUME Shape, Boot
  PROVE  Shape'
<1> USE Bounds DEF Shape, TypesOK
<1>1. ApiTypeOK'
  BY DEF Boot, ApiTypeOK, history, session, device
<1>2. ScreenTypeOK'
  BY DEF Boot, ScreenTypeOK, WorkTypeOK, history, session, device, Holder
<1>3. WorkTypeOK'
  BY DEF Boot, ScreenTypeOK, WorkTypeOK, history, session, device, CallStages, FlowKinds,
     FlowStages, Holder, Idle, NoFlow
<1>4. DeviceTypeOK'
  BY DEF Boot, ScreenTypeOK, DeviceTypeOK, history, session, device, PushStages, Holder, PushOff
<1>5. HistoryTypeOK'
  BY DEF Boot, HistoryTypeOK, history, session, device
<1>6. FlowShape' /\ LoadingShape'
  BY DEF Boot, ScreenTypeOK, WorkTypeOK, FlowShape, LoadingShape, history, session, device,
     SignedIn, Idle, NoFlow, PushOff
<1>7. FamilyShape' /\ TokensKnown'
  BY DEF Boot, ApiTypeOK, WorkTypeOK, FamilyShape, TokensKnown, Known, history, session,
     device, Refreshing, Idle, NoFlow, PushOff
<1> QED
  BY <1>1, <1>2, <1>3, <1>4, <1>5, <1>6, <1>7

LEMMA ServeBootShape ==
  ASSUME Shape, ServeBoot
  PROVE  Shape'
<1> USE Bounds DEF Shape, TypesOK
<1>8. flow.token \in Holder /\ flow.token # NoToken
  BY DEF ServeBoot, WorkTypeOK, TokensKnown, Refreshing
<1>9. /\ family' \in Families /\ family' = Refreshed(family, flow.token)
      /\ \A s \in Sessions : /\ family'[s].user = family[s].user
                             /\ family'[s].gen = IF Rotates(family, flow.token) /\ s = flow.token[1]
                                                  THEN family[s].gen + 1 ELSE family[s].gen
      /\ Rotates(family, flow.token) =>
           /\ flow.token \in Tokens /\ family[flow.token[1]].gen = flow.token[2]
           /\ Rotated(flow.token) \in Tokens /\ Rotated(flow.token)[1] = flow.token[1]
           /\ Rotated(flow.token)[2] = flow.token[2] + 1
  BY <1>8, RefreshedShape DEF ServeBoot, Present, ApiTypeOK
<1>10. Rotates(family, flow.token) => Rotated(flow.token) \in Holder /\ Rotated(flow.token) # NoToken
  BY <1>9, TokenParts DEF Holder
<1>1. ApiTypeOK'
  BY <1>9 DEF ServeBoot, Present, ApiTypeOK
<1>2. ScreenTypeOK'
  BY DEF ServeBoot, ScreenTypeOK, WorkTypeOK, history, session, device, Holder
<1>11. /\ flow' = Exchanged(flow)
       /\ UNCHANGED call
  BY DEF ServeBoot, WorkTypeOK
<1>12. \/ /\ Rotates(family, flow.token)
          /\ flow' = [flow EXCEPT !.stage = "rotated", !.token = Rotated(flow.token)]
       \/ flow' = [flow EXCEPT !.stage = "refused"]
  BY <1>11 DEF Exchanged
<1>13. \/ /\ Rotates(family, flow.token) /\ flow'.stage = "rotated"
          /\ flow'.token = Rotated(flow.token)
       \/ flow'.stage = "refused" /\ flow'.token = flow.token
  BY <1>12 DEF WorkTypeOK
<1>3. WorkTypeOK'
  BY <1>10, <1>11, <1>12 DEF WorkTypeOK, FlowStages
<1>4. DeviceTypeOK'
  BY DEF ServeBoot, ScreenTypeOK, DeviceTypeOK, history, session, device, PushStages, Holder,
     PushOff
<1>5. HistoryTypeOK'
  <2>1. reused' \in BOOLEAN
    BY DEF ServeBoot, Present
  <2> QED
    BY <2>1 DEF ServeBoot, Present, HistoryTypeOK, device
<1>6. FlowShape' /\ LoadingShape'
  <2>1. flow'.kind = "boot" /\ flow'.stage \in {"rotated", "refused"}
    BY <1>12 DEF ServeBoot, WorkTypeOK
  <2> QED
    BY <2>1 DEF ServeBoot, FlowShape, LoadingShape, session, device
<1>7. FamilyShape' /\ TokensKnown'
  <2>1. \A s \in Sessions : family'[s].gen \in Nat /\ family[s].gen <= family'[s].gen
    BY <1>9 DEF ApiTypeOK, Families
  <2>8. Rotates(family, flow.token) => family[flow.token[1]].gen > 0
    BY <1>9, TokenParts
  <2>2. FamilyShape'
    <3>1. ASSUME NEW s \in Sessions
          PROVE  (family'[s].user = Nobody => family'[s].gen = 0) /\ (family'[s].user # Nobody => family'[s].gen > 0)
      BY <1>9, <2>1, <2>8 DEF FamilyShape, ApiTypeOK, Families
    <3> QED
      BY <3>1 DEF FamilyShape
  <2>3. Known(store)' /\ \A d \in Calls : Known(call[d].token) /\ call[d].token # NoToken => call[d].token[2] <= family'[call[d].token[1]].gen
    BY <2>1, KnownStays DEF ServeBoot, session, Known, TokensKnown, WorkTypeOK, ScreenTypeOK
  <2>4. flow.token # NoToken => flow.token[2] <= family'[flow.token[1]].gen
    BY <2>1, KnownStays DEF TokensKnown, WorkTypeOK
  <2>5. Rotates(family, flow.token) => Rotated(flow.token)[2] <= family'[Rotated(flow.token)[1]].gen
    BY <1>9, TokenParts DEF ApiTypeOK, Families
  <2>6. Known(flow.token)' /\ flow'.token # NoToken
    BY <1>8, <1>10, <1>13, <2>4, <2>5 DEF Known
  <2> QED
    BY <1>11, <2>2, <2>3, <2>6 DEF TokensKnown, Known, Refreshing
<1> QED
  BY <1>1, <1>2, <1>3, <1>4, <1>5, <1>6, <1>7

LEMMA RestoreShape ==
  ASSUME Shape, Restore
  PROVE  Shape'
<1> USE Bounds DEF Shape, TypesOK
<1>1. ApiTypeOK'
  BY DEF Restore, ApiTypeOK, history, session, device
<1>2. ScreenTypeOK'
  <2>1. flow.token \in Holder /\ flow.token # NoToken
    BY DEF Restore, WorkTypeOK, TokensKnown
  <2> QED
    BY <2>1, HeldToken DEF Restore, ScreenTypeOK
<1>3. WorkTypeOK'
  BY DEF Restore, ScreenTypeOK, WorkTypeOK, history, session, device, CallStages, FlowKinds,
     FlowStages, Holder, Idle, NoFlow
<1>4. DeviceTypeOK'
  BY DEF Restore, ScreenTypeOK, DeviceTypeOK, history, session, device, PushStages, Holder,
     PushOff
<1>5. HistoryTypeOK'
  BY DEF Restore, HistoryTypeOK, history, session, device
<1>6. FlowShape' /\ LoadingShape'
  BY DEF Restore, ScreenTypeOK, WorkTypeOK, FlowShape, LoadingShape, history, session, device,
     SignedIn, Idle, NoFlow, PushOff
<1>7. FamilyShape' /\ TokensKnown'
  BY DEF Restore, ApiTypeOK, WorkTypeOK, FamilyShape, TokensKnown, Known, history, session,
     device, Refreshing, Idle, NoFlow, PushOff
<1> QED
  BY <1>1, <1>2, <1>3, <1>4, <1>5, <1>6, <1>7

LEMMA BootFailsShape ==
  ASSUME Shape, BootFails
  PROVE  Shape'
<1> USE Bounds DEF Shape, TypesOK
<1>1. ApiTypeOK'
  BY DEF BootFails, Clear, ApiTypeOK, history, session, device
<1>2. ScreenTypeOK'
  BY DEF BootFails, Clear, ScreenTypeOK, WorkTypeOK, history, session, device, Holder
<1>3. WorkTypeOK'
  BY DEF BootFails, Clear, ScreenTypeOK, WorkTypeOK, history, session, device, CallStages,
     FlowKinds, FlowStages, Holder, Idle, NoFlow
<1>4. DeviceTypeOK'
  BY DEF BootFails, Clear, ScreenTypeOK, DeviceTypeOK, history, session, device, PushStages,
     Holder, PushOff
<1>5. HistoryTypeOK'
  BY DEF BootFails, Clear, HistoryTypeOK, history, session, device
<1>6. FlowShape' /\ LoadingShape'
  BY DEF BootFails, Clear, ScreenTypeOK, WorkTypeOK, FlowShape, LoadingShape, history,
     session, device, SignedIn, Idle, NoFlow, PushOff
<1>7. FamilyShape' /\ TokensKnown'
  BY DEF BootFails, Clear, ApiTypeOK, WorkTypeOK, FamilyShape, TokensKnown, Known, history,
     session, device, Refreshing, Idle, NoFlow, PushOff
<1> QED
  BY <1>1, <1>2, <1>3, <1>4, <1>5, <1>6, <1>7

LEMMA SignInShape ==
  ASSUME Shape, SignIn
  PROVE  Shape'
<1> USE Bounds DEF Shape, TypesOK
<1>1. ApiTypeOK'
  BY DEF SignIn, ApiTypeOK, history, session, device
<1>2. ScreenTypeOK'
  <2>1. flow.token \in Holder /\ flow.token # NoToken
    BY DEF SignIn, WorkTypeOK, TokensKnown
  <2> QED
    BY <2>1, HeldToken DEF SignIn, ScreenTypeOK
<1>3. WorkTypeOK'
  BY DEF SignIn, ScreenTypeOK, WorkTypeOK, history, session, device, CallStages, FlowKinds,
     FlowStages, Holder, Idle, NoFlow
<1>4. DeviceTypeOK'
  BY DEF SignIn, ScreenTypeOK, DeviceTypeOK, history, session, device, PushStages, Holder,
     PushOff
<1>5. HistoryTypeOK'
  BY DEF SignIn, HistoryTypeOK, history, session, device
<1>6. FlowShape' /\ LoadingShape'
  BY DEF SignIn, ScreenTypeOK, WorkTypeOK, FlowShape, LoadingShape, history, session, device,
     SignedIn, Idle, NoFlow, PushOff
<1>7. FamilyShape' /\ TokensKnown'
  BY DEF SignIn, ApiTypeOK, WorkTypeOK, FamilyShape, TokensKnown, Known, history, session,
     device, Refreshing, Idle, NoFlow, PushOff
<1> QED
  BY <1>1, <1>2, <1>3, <1>4, <1>5, <1>6, <1>7

LEMMA LogoutEndsShape ==
  ASSUME Shape, LogoutEnds
  PROVE  Shape'
<1> USE Bounds DEF Shape, TypesOK
<1>8. /\ family' \in Families
      /\ \A s \in Sessions : family'[s].user = family[s].user /\ family'[s].gen = family[s].gen
  <2>1. flow.token \in Holder
    BY DEF WorkTypeOK
  <2> QED
    BY <2>1, LoggedOutShape DEF LogoutEnds, ApiTypeOK
<1>1. ApiTypeOK'
  BY <1>8 DEF LogoutEnds, ApiTypeOK
<1>2. ScreenTypeOK'
  BY DEF LogoutEnds, Clear, Fault, ScreenTypeOK, WorkTypeOK, history, session, device, Holder
<1>3. WorkTypeOK'
  BY DEF LogoutEnds, Clear, Fault, ScreenTypeOK, WorkTypeOK, history, session, device,
     CallStages, FlowKinds, FlowStages, Holder, Idle, NoFlow
<1>4. DeviceTypeOK'
  BY DEF LogoutEnds, Clear, Fault, ScreenTypeOK, DeviceTypeOK, history, session, device,
     PushStages, Holder, PushOff
<1>5. HistoryTypeOK'
  BY DEF LogoutEnds, Clear, Fault, HistoryTypeOK, history, session, device
<1>6. FlowShape' /\ LoadingShape'
  BY DEF LogoutEnds, Clear, Fault, ScreenTypeOK, WorkTypeOK, FlowShape, LoadingShape, history,
     session, device, SignedIn, Idle, NoFlow, PushOff
<1>7. FamilyShape' /\ TokensKnown'
  <2>1. \A s \in Sessions : family'[s].gen \in Nat /\ family[s].gen <= family'[s].gen
    BY <1>8 DEF ApiTypeOK, Families
  <2>2. FamilyShape'
    BY <1>8 DEF FamilyShape
  <2>3. Known(store)'
    BY <2>1, KnownStays DEF LogoutEnds, Clear, Known, TokensKnown, ScreenTypeOK
  <2>4. \A c \in Calls : Known(call[c].token)'
    BY <2>1, KnownStays DEF LogoutEnds, Known, TokensKnown, WorkTypeOK
  <2> QED
    BY <2>2, <2>3, <2>4 DEF LogoutEnds, TokensKnown, Known, Refreshing, NoFlow
<1> QED
  BY <1>1, <1>2, <1>3, <1>4, <1>5, <1>6, <1>7

LEMMA CloseSessionShape ==
  ASSUME Shape, CloseSession
  PROVE  Shape'
<1> USE Bounds DEF Shape, TypesOK
<1>1. ApiTypeOK'
  BY DEF CloseSession, StopPush, Deactivated, Stoppable, ApiTypeOK, history, session, device
<1>2. ScreenTypeOK'
  BY DEF CloseSession, StopPush, Deactivated, Stoppable, ScreenTypeOK, WorkTypeOK, history,
     session, device, Holder
<1>3. WorkTypeOK'
  BY DEF CloseSession, StopPush, Deactivated, Stoppable, ScreenTypeOK, WorkTypeOK, history,
     session, device, CallStages, FlowKinds, FlowStages, Holder, Idle, NoFlow
<1>4. DeviceTypeOK'
  BY StopPushType DEF CloseSession
<1>5. HistoryTypeOK'
  BY DEF CloseSession, StopPush, Deactivated, Stoppable, HistoryTypeOK, history, session, device
<1>6. FlowShape' /\ LoadingShape'
  BY DEF CloseSession, StopPush, Deactivated, Stoppable, ScreenTypeOK, WorkTypeOK, FlowShape,
     LoadingShape, history, session, device, SignedIn, Idle, NoFlow, PushOff
<1>7. FamilyShape' /\ TokensKnown'
  BY DEF CloseSession, StopPush, Deactivated, Stoppable, ApiTypeOK, WorkTypeOK, FamilyShape,
     TokensKnown, Known, history, session, device, Refreshing, Idle, NoFlow, PushOff
<1> QED
  BY <1>1, <1>2, <1>3, <1>4, <1>5, <1>6, <1>7

LEMMA ServeRegisterShape ==
  ASSUME Shape, ServeRegister
  PROVE  Shape'
<1> USE Bounds DEF Shape, TypesOK
<1>1. ApiTypeOK'
  BY DEF ServeRegister, Fault, ApiTypeOK, history, session, device
<1>2. ScreenTypeOK'
  BY DEF ServeRegister, Fault, ScreenTypeOK, WorkTypeOK, history, session, device, Holder
<1>3. WorkTypeOK'
  BY DEF ServeRegister, Fault, ScreenTypeOK, WorkTypeOK, history, session, device, CallStages,
     FlowKinds, FlowStages, Holder, Idle, NoFlow
<1>4. DeviceTypeOK'
  <2>1. UserOf(family, push.access) \in Users \union {Nobody}
    BY UserOfType DEF ApiTypeOK, DeviceTypeOK
  <2>2. row' \in [1 .. MaxNatives -> [user: Users \union {Nobody}, active: BOOLEAN]]
    <3>1. CASE row' = row
      BY <3>1 DEF DeviceTypeOK
    <3>2. CASE row' = [row EXCEPT ![native] = [user |-> UserOf(family, push.access), active |-> TRUE]]
      BY <2>1, <3>2 DEF DeviceTypeOK
    <3> QED
      BY <3>1, <3>2 DEF ServeRegister
  <2>3. push' \in [stage: PushStages, access: Holder]
    BY DEF ServeRegister, DeviceTypeOK, PushStages
  <2> QED
    BY <2>2, <2>3 DEF ServeRegister, DeviceTypeOK
<1>5. HistoryTypeOK'
  <2>1. faults' \in 0 .. MaxFaults
    BY DEF ServeRegister, Fault, HistoryTypeOK
  <2> QED
    BY <2>1 DEF ServeRegister, HistoryTypeOK, device, history
<1>6. FlowShape' /\ LoadingShape'
  BY DEF ServeRegister, Fault, ScreenTypeOK, WorkTypeOK, FlowShape, LoadingShape, history,
     session, device, SignedIn, Idle, NoFlow, PushOff
<1>7. FamilyShape' /\ TokensKnown'
  BY DEF ServeRegister, Fault, ApiTypeOK, WorkTypeOK, FamilyShape, TokensKnown, Known,
     history, session, device, Refreshing, Idle, NoFlow, PushOff
<1> QED
  BY <1>1, <1>2, <1>3, <1>4, <1>5, <1>6, <1>7

LEMMA LoseBootShape ==
  ASSUME Shape, LoseBoot
  PROVE  Shape'
<1> USE Bounds DEF Shape, TypesOK
<1>1. ApiTypeOK'
  BY DEF LoseBoot, Fault, ApiTypeOK, history, session, device
<1>2. ScreenTypeOK'
  BY DEF LoseBoot, Fault, ScreenTypeOK, WorkTypeOK, history, session, device, Holder
<1>3. WorkTypeOK'
  BY DEF LoseBoot, Fault, ScreenTypeOK, WorkTypeOK, history, session, device, CallStages,
     FlowKinds, FlowStages, Holder, Idle, NoFlow
<1>4. DeviceTypeOK'
  BY DEF LoseBoot, Fault, ScreenTypeOK, DeviceTypeOK, history, session, device, PushStages,
     Holder, PushOff
<1>5. HistoryTypeOK'
  <2>1. faults' \in 0 .. MaxFaults
    BY DEF LoseBoot, Fault, HistoryTypeOK
  <2> QED
    BY <2>1 DEF LoseBoot, HistoryTypeOK, device, history
<1>6. FlowShape' /\ LoadingShape'
  BY DEF LoseBoot, Fault, ScreenTypeOK, WorkTypeOK, FlowShape, LoadingShape, history, session,
     device, SignedIn, Idle, NoFlow, PushOff
<1>7. FamilyShape' /\ TokensKnown'
  BY DEF LoseBoot, Fault, ApiTypeOK, WorkTypeOK, FamilyShape, TokensKnown, Known, history,
     session, device, Refreshing, Idle, NoFlow, PushOff
<1> QED
  BY <1>1, <1>2, <1>3, <1>4, <1>5, <1>6, <1>7

LEMMA KillShape ==
  ASSUME Shape, Kill
  PROVE  Shape'
<1> USE Bounds DEF Shape, TypesOK
<1>1. ApiTypeOK'
  BY DEF Kill, Fault, ApiTypeOK, history, session, device
<1>2. ScreenTypeOK'
  BY DEF Kill, Fault, ScreenTypeOK, WorkTypeOK, history, session, device, Holder
<1>3. WorkTypeOK'
  BY DEF Kill, Fault, ScreenTypeOK, WorkTypeOK, history, session, device, CallStages,
     FlowKinds, FlowStages, Holder, Idle, NoFlow
<1>4. DeviceTypeOK'
  BY DEF Kill, Fault, ScreenTypeOK, DeviceTypeOK, history, session, device, PushStages,
     Holder, PushOff
<1>5. HistoryTypeOK'
  BY DEF Kill, Fault, HistoryTypeOK, history, session, device
<1>6. FlowShape' /\ LoadingShape'
  BY DEF Kill, Fault, ScreenTypeOK, WorkTypeOK, FlowShape, LoadingShape, history, session,
     device, SignedIn, Idle, NoFlow, PushOff
<1>7. FamilyShape' /\ TokensKnown'
  BY DEF Kill, Fault, ApiTypeOK, WorkTypeOK, FamilyShape, TokensKnown, Known, history,
     session, device, Refreshing, Idle, NoFlow, PushOff
<1> QED
  BY <1>1, <1>2, <1>3, <1>4, <1>5, <1>6, <1>7

LEMMA LogoutShape ==
  ASSUME Shape, Logout
  PROVE  Shape'
<1> USE Bounds DEF Shape, TypesOK
<1>1. ApiTypeOK'
  BY DEF Logout, StopPush, Deactivated, Stoppable, ApiTypeOK, history, session, device
<1>2. ScreenTypeOK'
  BY DEF Logout, StopPush, Deactivated, Stoppable, ScreenTypeOK, WorkTypeOK, history, session,
     device, Holder
<1>3. WorkTypeOK'
  BY DEF Logout, StopPush, Deactivated, Stoppable, ScreenTypeOK, WorkTypeOK, history, session,
     device, CallStages, FlowKinds, FlowStages, Holder, Idle, NoFlow
<1>4. DeviceTypeOK'
  BY StopPushType DEF Logout
<1>5. HistoryTypeOK'
  BY DEF Logout, StopPush, Deactivated, Stoppable, HistoryTypeOK, history, session, device
<1>6. FlowShape' /\ LoadingShape'
  BY DEF Logout, StopPush, Deactivated, Stoppable, ScreenTypeOK, WorkTypeOK, FlowShape,
     LoadingShape, history, session, device, SignedIn, Idle, NoFlow, PushOff
<1>7. FamilyShape' /\ TokensKnown'
  BY DEF Logout, StopPush, Deactivated, Stoppable, ApiTypeOK, WorkTypeOK, FamilyShape,
     TokensKnown, Known, history, session, device, Refreshing, Idle, NoFlow, PushOff
<1> QED
  BY <1>1, <1>2, <1>3, <1>4, <1>5, <1>6, <1>7

LEMMA StartPushShape ==
  ASSUME Shape, StartPush
  PROVE  Shape'
<1> USE Bounds DEF Shape, TypesOK
<1>1. ApiTypeOK'
  BY DEF StartPush, ApiTypeOK, history, session, device
<1>2. ScreenTypeOK'
  BY DEF StartPush, ScreenTypeOK, WorkTypeOK, history, session, device, Holder
<1>3. WorkTypeOK'
  BY DEF StartPush, ScreenTypeOK, WorkTypeOK, history, session, device, CallStages, FlowKinds,
     FlowStages, Holder, Idle, NoFlow
<1>4. DeviceTypeOK'
  BY DEF StartPush, ScreenTypeOK, DeviceTypeOK, history, session, device, PushStages, Holder,
     PushOff
<1>5. HistoryTypeOK'
  BY DEF StartPush, HistoryTypeOK, history, session, device
<1>6. FlowShape' /\ LoadingShape'
  BY DEF StartPush, ScreenTypeOK, WorkTypeOK, FlowShape, LoadingShape, history, session,
     device, SignedIn, Idle, NoFlow, PushOff
<1>7. FamilyShape' /\ TokensKnown'
  BY DEF StartPush, ApiTypeOK, WorkTypeOK, FamilyShape, TokensKnown, Known, history, session,
     device, Refreshing, Idle, NoFlow, PushOff
<1> QED
  BY <1>1, <1>2, <1>3, <1>4, <1>5, <1>6, <1>7

LEMMA ForegroundShape ==
  ASSUME Shape, Foreground
  PROVE  Shape'
<1> USE Bounds DEF Shape, TypesOK
<1>1. ApiTypeOK'
  BY DEF Foreground, StopPush, Deactivated, ApiTypeOK, history, session, device
<1>2. ScreenTypeOK'
  BY DEF Foreground, StopPush, Deactivated, ScreenTypeOK, WorkTypeOK, history, session,
     device, Holder
<1>3. WorkTypeOK'
  BY DEF Foreground, StopPush, Deactivated, ScreenTypeOK, WorkTypeOK, history, session,
     device, CallStages, FlowKinds, FlowStages, Holder, Idle, NoFlow
<1>4. DeviceTypeOK'
  BY StopPushType DEF Foreground
<1>5. HistoryTypeOK'
  BY DEF Foreground, StopPush, Deactivated, HistoryTypeOK, history, session, device
<1>6. FlowShape' /\ LoadingShape'
  BY DEF Foreground, StopPush, Deactivated, ScreenTypeOK, WorkTypeOK, FlowShape, LoadingShape,
     history, session, device, SignedIn, Idle, NoFlow, PushOff
<1>7. FamilyShape' /\ TokensKnown'
  BY DEF Foreground, StopPush, Deactivated, ApiTypeOK, WorkTypeOK, FamilyShape, TokensKnown,
     Known, history, session, device, Refreshing, Idle, NoFlow, PushOff
<1> QED
  BY <1>1, <1>2, <1>3, <1>4, <1>5, <1>6, <1>7

LEMMA VerifyShape ==
  ASSUME Shape, NEW u \in Users, Verify(u)
  PROVE  Shape'
<1> USE Bounds DEF Shape, TypesOK
<1>8. PICK s \in Sessions :
        /\ family[s].user = Nobody
        /\ family' = [family EXCEPT ![s] = [user |-> u, gen |-> 1, open |-> TRUE]]
        /\ flow' = [kind |-> "signIn", stage |-> "verified", token |-> <<s, 1>>]
  BY DEF Verify, Unopened, Opened
<1>9. <<s, 1>> \in Tokens /\ <<s, 1>> # NoToken
  BY TokenMade, TokenParts
<1>1. ApiTypeOK'
  BY <1>8 DEF Verify, ApiTypeOK, Families
<1>2. ScreenTypeOK'
  BY DEF Verify, ScreenTypeOK, WorkTypeOK, history, session, device, Holder
<1>3. WorkTypeOK'
  BY <1>8, <1>9 DEF Verify, WorkTypeOK, FlowKinds, FlowStages, Holder
<1>4. DeviceTypeOK'
  BY DEF Verify, ScreenTypeOK, DeviceTypeOK, history, session, device, PushStages, Holder,
     PushOff
<1>5. HistoryTypeOK'
  BY DEF Verify, HistoryTypeOK, history, session, device
<1>6. FlowShape' /\ LoadingShape'
  BY DEF Verify, ScreenTypeOK, WorkTypeOK, FlowShape, LoadingShape, history, session, device,
     SignedIn, Idle, NoFlow, PushOff
<1>7. FamilyShape' /\ TokensKnown'
  <2>1. \A r \in Sessions : family'[r].gen \in Nat /\ family[r].gen <= family'[r].gen
    BY <1>8 DEF ApiTypeOK, Families, FamilyShape
  <2>2. FamilyShape'
    BY <1>8 DEF FamilyShape, ApiTypeOK, Families
  <2>3. Known(store)' /\ \A c \in Calls : Known(call[c].token)'
    BY <2>1, KnownStays DEF Verify, session, Known, TokensKnown, ScreenTypeOK, WorkTypeOK
  <2>4. Known(flow.token)' /\ flow'.token # NoToken
    BY <1>8, <1>9 DEF Known, ApiTypeOK, Families
  <2> QED
    BY <2>2, <2>3, <2>4 DEF Verify, TokensKnown, Refreshing
<1> QED
  BY <1>1, <1>2, <1>3, <1>4, <1>5, <1>6, <1>7

LEMMA SendShape ==
  ASSUME Shape, NEW c \in Calls, Send(c)
  PROVE  Shape'
<1> USE Bounds DEF Shape, TypesOK
<1>1. ApiTypeOK'
  BY DEF Send, ApiTypeOK, history, session, device
<1>2. ScreenTypeOK'
  BY DEF Send, ScreenTypeOK, WorkTypeOK, history, session, device, Holder
<1>3. WorkTypeOK'
  BY DEF Send, ScreenTypeOK, WorkTypeOK, history, session, device, CallStages, FlowKinds,
     FlowStages, Holder, Idle, NoFlow
<1>4. DeviceTypeOK'
  BY DEF Send, ScreenTypeOK, DeviceTypeOK, history, session, device, PushStages, Holder, PushOff
<1>5. HistoryTypeOK'
  BY DEF Send, HistoryTypeOK, history, session, device
<1>6. FlowShape' /\ LoadingShape'
  BY DEF Send, ScreenTypeOK, WorkTypeOK, FlowShape, LoadingShape, history, session, device,
     SignedIn, Idle, NoFlow, PushOff
<1>7. FamilyShape' /\ TokensKnown'
  BY DEF Send, ApiTypeOK, WorkTypeOK, FamilyShape, TokensKnown, Known, history, session,
     device, Refreshing, Idle, NoFlow, PushOff
<1> QED
  BY <1>1, <1>2, <1>3, <1>4, <1>5, <1>6, <1>7

LEMMA AnswerShape ==
  ASSUME Shape, NEW c \in Calls, Answer(c)
  PROVE  Shape'
<1> USE Bounds DEF Shape, TypesOK
<1>1. ApiTypeOK'
  BY DEF Answer, ApiTypeOK, history, session, device
<1>2. ScreenTypeOK'
  BY DEF Answer, ScreenTypeOK, WorkTypeOK, history, session, device, Holder
<1>3. WorkTypeOK'
  BY DEF Answer, ScreenTypeOK, WorkTypeOK, history, session, device, CallStages, FlowKinds,
     FlowStages, Holder, Idle, NoFlow
<1>4. DeviceTypeOK'
  BY DEF Answer, ScreenTypeOK, DeviceTypeOK, history, session, device, PushStages, Holder,
     PushOff
<1>5. HistoryTypeOK'
  BY DEF Answer, HistoryTypeOK, history, session, device
<1>6. FlowShape' /\ LoadingShape'
  BY DEF Answer, ScreenTypeOK, WorkTypeOK, FlowShape, LoadingShape, history, session, device,
     SignedIn, Idle, NoFlow, PushOff
<1>7. FamilyShape' /\ TokensKnown'
  BY DEF Answer, ApiTypeOK, WorkTypeOK, FamilyShape, TokensKnown, Known, history, session,
     device, Refreshing, Idle, NoFlow, PushOff
<1> QED
  BY <1>1, <1>2, <1>3, <1>4, <1>5, <1>6, <1>7

LEMMA AnswerWithoutStoreShape ==
  ASSUME Shape, NEW c \in Calls, AnswerWithoutStore(c)
  PROVE  Shape'
<1> USE Bounds DEF Shape, TypesOK
<1>1. ApiTypeOK'
  BY DEF AnswerWithoutStore, Clear, Unauthorized, ApiTypeOK, history, session, device
<1>2. ScreenTypeOK'
  BY DEF AnswerWithoutStore, Clear, Unauthorized, ScreenTypeOK, WorkTypeOK, history, session,
     device, Holder
<1>3. WorkTypeOK'
  BY DEF AnswerWithoutStore, Clear, Unauthorized, ScreenTypeOK, WorkTypeOK, history, session,
     device, CallStages, FlowKinds, FlowStages, Holder, Idle, NoFlow
<1>4. DeviceTypeOK'
  BY DEF AnswerWithoutStore, Clear, Unauthorized, ScreenTypeOK, DeviceTypeOK, history,
     session, device, PushStages, Holder, PushOff
<1>5. HistoryTypeOK'
  BY DEF AnswerWithoutStore, Clear, Unauthorized, HistoryTypeOK, history, session, device
<1>6. FlowShape' /\ LoadingShape'
  BY DEF AnswerWithoutStore, Clear, Unauthorized, ScreenTypeOK, WorkTypeOK, FlowShape,
     LoadingShape, history, session, device, SignedIn, Idle, NoFlow, PushOff
<1>7. FamilyShape' /\ TokensKnown'
  BY DEF AnswerWithoutStore, Clear, Unauthorized, ApiTypeOK, WorkTypeOK, FamilyShape,
     TokensKnown, Known, history, session, device, Refreshing, Idle, NoFlow, PushOff
<1> QED
  BY <1>1, <1>2, <1>3, <1>4, <1>5, <1>6, <1>7

LEMMA BeginRefreshShape ==
  ASSUME Shape, NEW c \in Calls, BeginRefresh(c)
  PROVE  Shape'
<1> USE Bounds DEF Shape, TypesOK
<1>1. ApiTypeOK'
  BY DEF BeginRefresh, Unauthorized, ApiTypeOK, history, session, device
<1>2. ScreenTypeOK'
  BY DEF BeginRefresh, Unauthorized, ScreenTypeOK, WorkTypeOK, history, session, device, Holder
<1>3. WorkTypeOK'
  BY DEF BeginRefresh, Unauthorized, ScreenTypeOK, WorkTypeOK, history, session, device,
     CallStages, FlowKinds, FlowStages, Holder, Idle, NoFlow
<1>4. DeviceTypeOK'
  BY DEF BeginRefresh, Unauthorized, ScreenTypeOK, DeviceTypeOK, history, session, device,
     PushStages, Holder, PushOff
<1>5. HistoryTypeOK'
  BY DEF BeginRefresh, Unauthorized, HistoryTypeOK, history, session, device
<1>6. FlowShape' /\ LoadingShape'
  BY DEF BeginRefresh, Unauthorized, ScreenTypeOK, WorkTypeOK, FlowShape, LoadingShape,
     history, session, device, SignedIn, Idle, NoFlow, PushOff
<1>7. FamilyShape' /\ TokensKnown'
  BY DEF BeginRefresh, Unauthorized, ApiTypeOK, WorkTypeOK, FamilyShape, TokensKnown, Known,
     history, session, device, Refreshing, Idle, NoFlow, PushOff
<1> QED
  BY <1>1, <1>2, <1>3, <1>4, <1>5, <1>6, <1>7

LEMMA ServeRefreshShape ==
  ASSUME Shape, NEW c \in Calls, ServeRefresh(c)
  PROVE  Shape'
<1> USE Bounds DEF Shape, TypesOK
<1>8. call[c].token \in Holder /\ call[c].token # NoToken
  BY DEF ServeRefresh, WorkTypeOK, TokensKnown, Refreshing
<1>9. /\ family' \in Families /\ family' = Refreshed(family, call[c].token)
      /\ \A s \in Sessions : /\ family'[s].user = family[s].user
                             /\ family'[s].gen = IF Rotates(family, call[c].token) /\ s = call[c].token[1]
                                                  THEN family[s].gen + 1 ELSE family[s].gen
      /\ Rotates(family, call[c].token) =>
           /\ call[c].token \in Tokens /\ family[call[c].token[1]].gen = call[c].token[2]
           /\ Rotated(call[c].token) \in Tokens /\ Rotated(call[c].token)[1] = call[c].token[1]
           /\ Rotated(call[c].token)[2] = call[c].token[2] + 1
  BY <1>8, RefreshedShape DEF ServeRefresh, Present, ApiTypeOK
<1>10. Rotates(family, call[c].token) => Rotated(call[c].token) \in Holder /\ Rotated(call[c].token) # NoToken
  BY <1>9, TokenParts DEF Holder
<1>1. ApiTypeOK'
  BY <1>9 DEF ServeRefresh, Present, ApiTypeOK
<1>2. ScreenTypeOK'
  BY DEF ServeRefresh, Present, Exchanged, ScreenTypeOK, WorkTypeOK, history, session, device,
     Holder
<1>11. /\ call'[c] = Exchanged(call[c])
       /\ \A d \in Calls \ {c} : call'[d] = call[d]
       /\ UNCHANGED flow
  BY DEF ServeRefresh, WorkTypeOK
<1>12. \/ /\ Rotates(family, call[c].token)
          /\ call'[c] = [call[c] EXCEPT !.stage = "rotated", !.token = Rotated(call[c].token)]
       \/ call'[c] = [call[c] EXCEPT !.stage = "refused"]
  BY <1>11 DEF Exchanged
<1>13. \/ /\ Rotates(family, call[c].token) /\ call'[c].stage = "rotated"
          /\ call'[c].token = Rotated(call[c].token)
       \/ call'[c].stage = "refused" /\ call'[c].token = call[c].token
  BY <1>12 DEF WorkTypeOK
<1>3. WorkTypeOK'
  <2>1. call'[c] \in [stage: CallStages, token: Holder]
    BY <1>10, <1>12 DEF WorkTypeOK, CallStages
  <2> QED
    BY <1>11, <2>1 DEF ServeRefresh, WorkTypeOK
<1>4. DeviceTypeOK'
  BY DEF ServeRefresh, Present, Exchanged, ScreenTypeOK, DeviceTypeOK, history, session,
     device, PushStages, Holder, PushOff
<1>5. HistoryTypeOK'
  <2>1. reused' \in BOOLEAN
    BY DEF ServeRefresh, Present
  <2> QED
    BY <2>1 DEF ServeRefresh, Present, HistoryTypeOK, device
<1>6. FlowShape' /\ LoadingShape'
  BY DEF ServeRefresh, Present, Exchanged, ScreenTypeOK, WorkTypeOK, FlowShape, LoadingShape,
     history, session, device, SignedIn, Idle, NoFlow, PushOff
<1>7. FamilyShape' /\ TokensKnown'
  <2>1. \A s \in Sessions : family'[s].gen \in Nat /\ family[s].gen <= family'[s].gen
    BY <1>9 DEF ApiTypeOK, Families
  <2>8. Rotates(family, call[c].token) => family[call[c].token[1]].gen > 0
    BY <1>9, TokenParts
  <2>2. FamilyShape'
    <3>1. ASSUME NEW s \in Sessions
          PROVE  (family'[s].user = Nobody => family'[s].gen = 0) /\ (family'[s].user # Nobody => family'[s].gen > 0)
      BY <1>9, <2>1, <2>8 DEF FamilyShape, ApiTypeOK, Families
    <3> QED
      BY <3>1 DEF FamilyShape
  <2>3. Known(store)' /\ \A d \in Calls : Known(call[d].token) /\ call[d].token # NoToken => call[d].token[2] <= family'[call[d].token[1]].gen
    BY <2>1, KnownStays DEF ServeRefresh, session, Known, TokensKnown, WorkTypeOK, ScreenTypeOK
  <2>4. flow.token # NoToken => flow.token[2] <= family'[flow.token[1]].gen
    BY <2>1, KnownStays DEF TokensKnown, WorkTypeOK
  <2>5. Rotates(family, call[c].token) => Rotated(call[c].token)[2] <= family'[Rotated(call[c].token)[1]].gen
    BY <1>9, TokenParts DEF ApiTypeOK, Families
  <2>6. Known(call[c].token)' /\ call'[c].token # NoToken
    BY <1>8, <1>10, <1>13, <2>3, <2>5 DEF Known, TokensKnown
  <2>7. \A d \in Calls : Known(call[d].token)' /\ (Refreshing(d) => call[d].token # NoToken)'
    BY <1>11, <2>3, <2>6 DEF Known, TokensKnown, Refreshing
  <2> QED
    BY <1>11, <2>2, <2>3, <2>4, <2>7 DEF TokensKnown, Known
<1> QED
  BY <1>1, <1>2, <1>3, <1>4, <1>5, <1>6, <1>7

LEMMA ResendShape ==
  ASSUME Shape, NEW c \in Calls, Resend(c)
  PROVE  Shape'
<1> USE Bounds DEF Shape, TypesOK
<1>1. ApiTypeOK'
  BY DEF Resend, ApiTypeOK, history, session, device
<1>2. ScreenTypeOK'
  BY DEF Resend, ScreenTypeOK, WorkTypeOK, history, session, device, Holder
<1>3. WorkTypeOK'
  BY DEF Resend, ScreenTypeOK, WorkTypeOK, history, session, device, CallStages, FlowKinds,
     FlowStages, Holder, Idle, NoFlow
<1>4. DeviceTypeOK'
  BY DEF Resend, ScreenTypeOK, DeviceTypeOK, history, session, device, PushStages, Holder,
     PushOff
<1>5. HistoryTypeOK'
  BY DEF Resend, HistoryTypeOK, history, session, device
<1>6. FlowShape' /\ LoadingShape'
  BY DEF Resend, ScreenTypeOK, WorkTypeOK, FlowShape, LoadingShape, history, session, device,
     SignedIn, Idle, NoFlow, PushOff
<1>7. FamilyShape' /\ TokensKnown'
  BY DEF Resend, ApiTypeOK, WorkTypeOK, FamilyShape, TokensKnown, Known, history, session,
     device, Refreshing, Idle, NoFlow, PushOff
<1> QED
  BY <1>1, <1>2, <1>3, <1>4, <1>5, <1>6, <1>7

LEMMA GiveUpShape ==
  ASSUME Shape, NEW c \in Calls, GiveUp(c)
  PROVE  Shape'
<1> USE Bounds DEF Shape, TypesOK
<1>1. ApiTypeOK'
  BY DEF GiveUp, Clear, ApiTypeOK, history, session, device
<1>2. ScreenTypeOK'
  BY DEF GiveUp, Clear, ScreenTypeOK, WorkTypeOK, history, session, device, Holder
<1>3. WorkTypeOK'
  BY DEF GiveUp, Clear, ScreenTypeOK, WorkTypeOK, history, session, device, CallStages,
     FlowKinds, FlowStages, Holder, Idle, NoFlow
<1>4. DeviceTypeOK'
  BY DEF GiveUp, Clear, ScreenTypeOK, DeviceTypeOK, history, session, device, PushStages,
     Holder, PushOff
<1>5. HistoryTypeOK'
  BY DEF GiveUp, Clear, HistoryTypeOK, history, session, device
<1>6. FlowShape' /\ LoadingShape'
  BY DEF GiveUp, Clear, ScreenTypeOK, WorkTypeOK, FlowShape, LoadingShape, history, session,
     device, SignedIn, Idle, NoFlow, PushOff
<1>7. FamilyShape' /\ TokensKnown'
  BY DEF GiveUp, Clear, ApiTypeOK, WorkTypeOK, FamilyShape, TokensKnown, Known, history,
     session, device, Refreshing, Idle, NoFlow, PushOff
<1> QED
  BY <1>1, <1>2, <1>3, <1>4, <1>5, <1>6, <1>7

LEMMA LoseRefreshShape ==
  ASSUME Shape, NEW c \in Calls, LoseRefresh(c)
  PROVE  Shape'
<1> USE Bounds DEF Shape, TypesOK
<1>1. ApiTypeOK'
  BY DEF LoseRefresh, Fault, ApiTypeOK, history, session, device
<1>2. ScreenTypeOK'
  BY DEF LoseRefresh, Fault, ScreenTypeOK, WorkTypeOK, history, session, device, Holder
<1>3. WorkTypeOK'
  BY DEF LoseRefresh, Fault, ScreenTypeOK, WorkTypeOK, history, session, device, CallStages,
     FlowKinds, FlowStages, Holder, Idle, NoFlow
<1>4. DeviceTypeOK'
  BY DEF LoseRefresh, Fault, ScreenTypeOK, DeviceTypeOK, history, session, device, PushStages,
     Holder, PushOff
<1>5. HistoryTypeOK'
  <2>1. faults' \in 0 .. MaxFaults
    BY DEF LoseRefresh, Fault, HistoryTypeOK
  <2> QED
    BY <2>1 DEF LoseRefresh, HistoryTypeOK, device, history
<1>6. FlowShape' /\ LoadingShape'
  BY DEF LoseRefresh, Fault, ScreenTypeOK, WorkTypeOK, FlowShape, LoadingShape, history,
     session, device, SignedIn, Idle, NoFlow, PushOff
<1>7. FamilyShape' /\ TokensKnown'
  BY DEF LoseRefresh, Fault, ApiTypeOK, WorkTypeOK, FamilyShape, TokensKnown, Known, history,
     session, device, Refreshing, Idle, NoFlow, PushOff
<1> QED
  BY <1>1, <1>2, <1>3, <1>4, <1>5, <1>6, <1>7

LEMMA ShapeStays == Shape /\ [Next]_vars => Shape'
<1> SUFFICES ASSUME Shape, [Next]_vars PROVE Shape'
  OBVIOUS
<1>1. CASE Next
  <2>1. CASE Age \/ FlowStep
    BY <2>1, AgeShape, BootShape, ServeBootShape, RestoreShape, BootFailsShape, SignInShape,
       LogoutEndsShape, CloseSessionShape, ServeRegisterShape DEF FlowStep
  <2>2. CASE LoseBoot \/ Kill \/ Logout \/ StartPush \/ Foreground
    BY <2>2, LoseBootShape, KillShape, LogoutShape, StartPushShape, ForegroundShape
  <2>3. ASSUME NEW u \in Users, Verify(u) PROVE Shape'
    BY <2>3, VerifyShape
  <2>4. ASSUME NEW c \in Calls, Send(c) \/ CallStep(c) \/ LoseRefresh(c) PROVE Shape'
    BY <2>4, SendShape, AnswerShape, AnswerWithoutStoreShape, BeginRefreshShape,
       ServeRefreshShape, ResendShape, GiveUpShape, LoseRefreshShape DEF CallStep
  <2> QED
    BY <1>1, <2>1, <2>2, <2>3, <2>4 DEF Next
<1>2. CASE UNCHANGED vars
  BY <1>2 DEF vars, session, device, history, Shape, TypesOK, ApiTypeOK, ScreenTypeOK,
     WorkTypeOK,
              DeviceTypeOK, HistoryTypeOK, FlowShape, LoadingShape, FamilyShape, TokensKnown, Known,
              Refreshing
<1> QED
  BY <1>1, <1>2

(***************************************************************************)
(* The phone's state keeps its shape.                                      *)
(***************************************************************************)
THEOREM PhoneIsTyped == Spec => []TypeOK
<1>1. Spec => []Shape
  BY SessionStarts, ShapeStays, PTL DEF Spec
<1>2. Shape => TypeOK
  BY DEF Shape, TypesOK, ApiTypeOK, ScreenTypeOK, WorkTypeOK, DeviceTypeOK, HistoryTypeOK,
     TypeOK,
         CallStages, FlowKinds, FlowStages, PushStages
<1> QED
  BY <1>1, <1>2, PTL

LEMMA ShapeHolds == Spec => []Shape
  BY SessionStarts, ShapeStays, PTL DEF Spec

(***************************************************************************)
(* The push token.  One that was used is not used again, and one that is   *)
(* not in use is registered only if the process ended.                     *)
(***************************************************************************)
PushInvariant ==
  /\ \A n \in 1 .. MaxNatives : n > native => ~row[n].active
  /\ push.stage = "off" => ~row[native].active \/ orphan

LEMMA StopPushFrees ==
  ASSUME DeviceTypeOK, PushInvariant, StopPush
  PROVE  PushInvariant'
<1>1. \A n \in 1 .. MaxNatives : row'[n].active => row[n].active
  <2>1. CASE row' = row
    BY <2>1
  <2>2. CASE row' = [row EXCEPT ![native].active = FALSE]
    BY <2>2 DEF DeviceTypeOK
  <2> QED
    BY <2>1, <2>2 DEF StopPush, Deactivated
<1>2. native' \in 1 .. MaxNatives /\ native' >= native /\ native \in Nat
  BY Bounds DEF StopPush, DeviceTypeOK
<1>3. CASE push.stage = "off"
  BY <1>1, <1>2, <1>3 DEF StopPush, PushInvariant
<1>4. CASE push.stage # "off"
  <2>1. native' > native
    BY <1>4 DEF StopPush, DeviceTypeOK
  <2> QED
    BY <1>1, <1>2, <2>1 DEF PushInvariant
<1> QED
  BY <1>3, <1>4

LEMMA PushStays == Shape /\ PushInvariant /\ [Next]_vars => PushInvariant'
<1> SUFFICES ASSUME Shape, PushInvariant, [Next]_vars PROVE PushInvariant'
  OBVIOUS
<1> USE DEF Shape, TypesOK
<1>1. CASE UNCHANGED device
  BY <1>1 DEF device, PushInvariant
<1>2. CASE CloseSession \/ Logout \/ Foreground
  BY <1>2, StopPushFrees DEF CloseSession, Logout, Foreground
<1>3. CASE Kill
  BY <1>3 DEF Kill, PushInvariant
<1>4. CASE StartPush
  <2>1. push'.stage # "off"
    BY <1>4 DEF StartPush
  <2> QED
    BY <1>4, <2>1 DEF StartPush, PushInvariant
<1>5. CASE ServeRegister
  <2>1. push'.stage # "off"
    BY <1>5 DEF ServeRegister, DeviceTypeOK
  <2>2. \A n \in 1 .. MaxNatives : n # native => row'[n] = row[n]
    BY <1>5 DEF ServeRegister, DeviceTypeOK
  <2>3. native' = native /\ native \in Nat
    BY <1>5 DEF ServeRegister, DeviceTypeOK
  <2> QED
    BY <2>1, <2>2, <2>3 DEF PushInvariant
<1>6. [Next]_vars => \/ UNCHANGED device
                     \/ CloseSession \/ Logout \/ Foreground \/ Kill \/ StartPush \/ ServeRegister
  BY DEF Next, FlowStep, CallStep, vars, Age, Boot, ServeBoot, Restore, BootFails, SignIn,
     LogoutEnds,
         LoseBoot, Verify, Send, Answer, AnswerWithoutStore, BeginRefresh, ServeRefresh, Resend,
         GiveUp, LoseRefresh
<1> QED
  BY <1>1, <1>2, <1>3, <1>4, <1>5, <1>6

(***************************************************************************)
(* The push token of a phone nobody is signed in on belongs to nobody, for *)
(* any users, sessions, requests and failures: whatever order the clear    *)
(* listener, the sign-out, the foreground and the registration's answer    *)
(* come in, only the end of the process leaves it registered.              *)
(***************************************************************************)
THEOREM PushBelongsToNobody == Spec => []PushIsNobodys
<1>1. Init => PushInvariant
  BY Bounds DEF Init, PushInvariant, NoRow
<1>2. PushInvariant => PushIsNobodys
  BY DEF PushInvariant, PushIsNobodys
<1> QED
  BY <1>1, <1>2, PushStays, ShapeHolds, PTL DEF Spec

(***************************************************************************)
(* The screens and the store.  As long as no refresh was cut off by a      *)
(* clearing of the store and nobody signed in before a sign-out was done,  *)
(* everything the phone holds is of the session it shows.                  *)
(***************************************************************************)
FollowInvariant ==
  ~crossed =>
    /\ SignedIn /\ store # NoToken => store[1] = scope
    /\ status = "unauthenticated" \/ closing => store = NoToken /\ \A c \in Calls : ~Refreshing(c)
    /\ SignedIn => \A c \in Calls : Refreshing(c) => call[c].token[1] = scope

\* What clearing leaves behind, if no other request begins a refresh meanwhile.
LEMMA ClearFollows ==
  ASSUME Clear, \A c \in Calls : Refreshing(c)' => Refreshing(c)
  PROVE  FollowInvariant'
  BY DEF Clear, FollowInvariant

\* A request that ends or is sent changes nothing of this.
LEMMA CallFollows ==
  ASSUME FollowInvariant, crossed' = crossed, UNCHANGED <<store, status, scope, closing>>,
         \A c \in Calls : Refreshing(c)' => Refreshing(c) /\ call'[c].token[1] = call[c].token[1]
  PROVE  FollowInvariant'
  BY DEF FollowInvariant, SignedIn

LEMMA FollowStays == Shape /\ FollowInvariant /\ [Next]_vars => FollowInvariant'
<1> SUFFICES ASSUME Shape, FollowInvariant, [Next]_vars PROVE FollowInvariant'
  OBVIOUS
<1> USE DEF Shape, TypesOK
<1>1. CASE UNCHANGED <<session, call, crossed>>
  BY <1>1, CallFollows DEF session, Refreshing
<1>2. CASE Boot
  <2>1. \A c \in Calls : ~Refreshing(c)
    BY <1>2 DEF Boot, LoadingShape, Refreshing, Idle
  <2> QED
    BY <1>2, <2>1 DEF Boot, FollowInvariant, SignedIn, LoadingShape, Refreshing, device, history
<1>3. CASE Restore
  <2>1. status = "loading"
    BY <1>3 DEF Restore, FlowShape
  <2> QED
    BY <1>3, <2>1 DEF Restore, FollowInvariant, SignedIn, LoadingShape, Refreshing, Idle,
       device, history
<1>4. CASE BootFails \/ LogoutEnds
  BY <1>4, ClearFollows DEF BootFails, LogoutEnds, Refreshing
<1>5. CASE SignIn
  <2>1. status = "unauthenticated"
    BY <1>5 DEF SignIn, FlowShape
  <2> QED
    BY <1>5, <2>1 DEF SignIn, FollowInvariant, SignedIn, Refreshing, device
<1>6. CASE CloseSession
  BY <1>6 DEF CloseSession, FollowInvariant, SignedIn, Refreshing, history
<1>7. CASE Kill
  BY <1>7 DEF Kill, FollowInvariant, SignedIn, Refreshing, Idle
<1>8. ASSUME NEW c \in Calls, AnswerWithoutStore(c) \/ GiveUp(c) PROVE FollowInvariant'
  <2>1. \A d \in Calls : Refreshing(d)' => Refreshing(d)
    BY <1>8 DEF AnswerWithoutStore, GiveUp, Refreshing, Idle, WorkTypeOK
  <2> QED
    BY <1>8, <2>1, ClearFollows DEF AnswerWithoutStore, GiveUp
<1>9. ASSUME NEW c \in Calls, BeginRefresh(c) PROVE FollowInvariant'
  <2>1. status # "loading"
    BY <1>9 DEF BeginRefresh, Unauthorized, LoadingShape, Idle
  <2>2. call'[c].token = store /\ \A d \in Calls : d # c => call'[d] = call[d]
    BY <1>9 DEF BeginRefresh, WorkTypeOK
  <2>3. store # NoToken /\ UNCHANGED <<store, status, scope, closing, crossed>>
    BY <1>9 DEF BeginRefresh, session
  <2>4. ASSUME ~crossed
        PROVE  SignedIn /\ store[1] = scope /\ ~closing
    BY <2>1, <2>3, <2>4 DEF FollowInvariant, SignedIn, ScreenTypeOK
  <2> QED
    BY <2>2, <2>3, <2>4 DEF FollowInvariant, SignedIn, Refreshing
<1>10. ASSUME NEW c \in Calls, ServeRefresh(c) PROVE FollowInvariant'
  <2>1. call'[c].token[1] = call[c].token[1] /\ \A d \in Calls : d # c => call'[d] = call[d]
    <3>1. call'[c] = Exchanged(call[c])
      BY <1>10 DEF ServeRefresh, WorkTypeOK
    <3> QED
      BY <1>10, <3>1 DEF ServeRefresh, Exchanged, Rotated, WorkTypeOK
  <2>2. Refreshing(c)
    BY <1>10 DEF ServeRefresh, Refreshing
  <2>3. \A d \in Calls : Refreshing(d)' => Refreshing(d) /\ call'[d].token[1] = call[d].token[1]
    BY <2>1, <2>2 DEF Refreshing
  <2> QED
    BY <1>10, <2>3, CallFollows DEF ServeRefresh, Present, session
<1>11. ASSUME NEW c \in Calls, Resend(c) PROVE FollowInvariant'
  <2>1. Refreshing(c) /\ status # "loading"
    BY <1>11 DEF Resend, Refreshing, LoadingShape, Idle
  <2>2. \A d \in Calls : d # c => call'[d] = call[d]
    BY <1>11 DEF Resend, WorkTypeOK
  <2>3. call'[c] = Idle /\ store' = call[c].token /\ UNCHANGED <<status, scope, closing, crossed>>
    BY <1>11 DEF Resend, WorkTypeOK, history
  <2>4. ~Refreshing(c)'
    BY <2>3 DEF Refreshing, Idle
  <2> QED
    BY <2>1, <2>2, <2>3, <2>4 DEF FollowInvariant, SignedIn, Refreshing, ScreenTypeOK
<1>12. ASSUME NEW c \in Calls, Send(c) \/ Answer(c) \/ LoseRefresh(c) PROVE FollowInvariant'
  <2>1. \A d \in Calls : Refreshing(d)' => Refreshing(d) /\ call'[d].token[1] = call[d].token[1]
    BY <1>12 DEF Send, Answer, LoseRefresh, Refreshing, Idle, WorkTypeOK
  <2> QED
    BY <1>12, <2>1, CallFollows DEF Send, Answer, LoseRefresh, session, history
<1>13. \/ UNCHANGED <<session, call, crossed>>
       \/ Boot \/ Restore \/ BootFails \/ LogoutEnds \/ SignIn \/ CloseSession \/ Kill
       \/ \E c \in Calls : \/ AnswerWithoutStore(c) \/ GiveUp(c) \/ BeginRefresh(c) \/ ServeRefresh(c)
                           \/ Resend(c) \/ Send(c) \/ Answer(c) \/ LoseRefresh(c)
  BY DEF Next, FlowStep, CallStep, vars, history, Age, ServeBoot, Present, LoseBoot, Verify,
     Logout,
         StopPush, StartPush, Foreground, ServeRegister
<1> QED
  BY <1>1, <1>2, <1>3, <1>4, <1>5, <1>6, <1>7, <1>8, <1>9, <1>10, <1>11, <1>12, <1>13

(***************************************************************************)
(* Who is shown as signed in has his own session in the store, and nobody  *)
(* has one after a sign-out, for any number of users, sessions and         *)
(* requests, unless a refresh was under way when the store was cleared or  *)
(* somebody signed in before a sign-out had finished.                      *)
(***************************************************************************)
THEOREM StoreIsTheScreens == Spec => []StoreFollowsScreens
<1>1. Init => FollowInvariant
  BY DEF Init, FollowInvariant, SignedIn
<1>2. Shape /\ FollowInvariant => StoreFollowsScreens
  BY DEF FollowInvariant, StoreFollowsScreens
<1> QED
  BY <1>1, <1>2, FollowStays, ShapeHolds, PTL DEF Spec

(***************************************************************************)
(* Reuse.  As long as no answer was lost and no two refreshes overlapped,  *)
(* every token about to be presented is the one its session accepts.       *)
(***************************************************************************)
Calm == ~lost /\ ~overlap

Current(t) == family[t[1]].gen = t[2]

\* What is presented, was issued a moment ago or was just issued by a sign-in.
HeldAreCurrent ==
  /\ \A c \in Calls : Refreshing(c) => Current(call[c].token)
  /\ flow.stage \in {"refreshing", "rotated", "verified"} => Current(flow.token)

\* The stored token is its session's, or what it was rotated to waits to be stored.
StoreIsCurrent == store # NoToken => Current(store) \/ Superseded(store)

\* No two hold tokens of one session.
SessionsApart ==
  /\ \A c, d \in Calls : c # d /\ Refreshing(c) /\ Refreshing(d) => call[c].token[1] # call[d].token[1]
  /\ \A c \in Calls : call[c].stage = "rotated" => store # call[c].token
  /\ flow.stage = "verified" => /\ store[1] # flow.token[1]
                                /\ \A c \in Calls : Refreshing(c) => call[c].token[1] # flow.token[1]

CalmInvariant == Calm => ~reused /\ HeldAreCurrent /\ StoreIsCurrent /\ SessionsApart

\* A current token is not reused.
LEMMA CurrentIsNotReused ==
  ASSUME NEW t \in Tokens, Current(t)
  PROVE  ~Reuses(family, t)
  BY DEF Current, Reuses, Hashed

\* The store is cleared, the generations stay, and nobody begins a refresh.
LEMMA ClearIsCalm ==
  ASSUME CalmInvariant, Clear, UNCHANGED <<lost, overlap, reused>>,
         \A s \in Sessions : family'[s].gen = family[s].gen,
         flow'.stage \notin {"refreshing", "rotated", "verified"} \/ flow' = flow,
         \A c \in Calls : call'[c] = call[c] \/ ~Refreshing(c)',
         WorkTypeOK, TokensKnown
  PROVE  CalmInvariant'
<1> SUFFICES ASSUME Calm PROVE (~reused /\ HeldAreCurrent /\ StoreIsCurrent /\ SessionsApart)'
  BY DEF Calm, CalmInvariant
<1>1. ~reused' /\ store' = NoToken
  BY DEF Clear, CalmInvariant
<1>2. \A c \in Calls : Refreshing(c)' => Refreshing(c) /\ call'[c] = call[c] /\ call[c].token[1] \in Sessions
  BY HeldToken DEF Refreshing, WorkTypeOK, TokensKnown
<1>3. flow'.stage \in {"refreshing", "rotated", "verified"} => flow' = flow /\ flow.token[1] \in Sessions
  BY HeldToken DEF WorkTypeOK, TokensKnown
<1>4. HeldAreCurrent'
  BY <1>2, <1>3 DEF CalmInvariant, HeldAreCurrent, Current
<1>5. StoreIsCurrent'
  BY <1>1 DEF StoreIsCurrent
<1>6. SessionsApart'
  <2>1. \A c \in Calls : call'[c].stage = "rotated" => call'[c].token # NoToken
    BY <1>2 DEF Refreshing, TokensKnown
  <2>2. flow'.stage = "verified" => flow' = flow /\ store'[1] # flow.token[1]
    BY <1>1, <1>3 DEF Sessions, NoToken
  <2> QED
    BY <1>1, <1>2, <2>1, <2>2 DEF CalmInvariant, SessionsApart
<1> QED
  BY <1>1, <1>4, <1>5, <1>6

\* A call ends, or is sent, or is lost, without a word of its token.
LEMMA CallIsCalm ==
  ASSUME CalmInvariant, UNCHANGED <<family, store, flow, reused>>, Calm' => Calm,
         \A c \in Calls : call'[c] = call[c] \/ (~Refreshing(c)' /\ (call[c].stage = "rotated" => ~Calm'))
  PROVE  CalmInvariant'
<1> SUFFICES ASSUME Calm' PROVE (~reused /\ HeldAreCurrent /\ StoreIsCurrent /\ SessionsApart)'
  BY DEF CalmInvariant
<1>1. \A c \in Calls : Refreshing(c)' => Refreshing(c) /\ call'[c] = call[c]
  BY DEF Refreshing
<1>2. \A c \in Calls : call[c].stage = "rotated" => call'[c] = call[c]
  OBVIOUS
<1>3. HeldAreCurrent' /\ SessionsApart'
  BY <1>1 DEF CalmInvariant, HeldAreCurrent, SessionsApart, Current, Refreshing
<1>4. StoreIsCurrent'
  BY <1>2 DEF CalmInvariant, StoreIsCurrent, Superseded, Current
<1> QED
  BY <1>3, <1>4 DEF CalmInvariant

LEMMA BootIsCalm ==
  ASSUME Shape, CalmInvariant, Boot
  PROVE  CalmInvariant'
<1> USE DEF Shape, TypesOK
<1> SUFFICES ASSUME Calm PROVE (~reused /\ HeldAreCurrent /\ StoreIsCurrent /\ SessionsApart)'
  BY DEF CalmInvariant, Boot, Calm, history
<1>1. /\ ~reused' /\ UNCHANGED <<family, store, call>> /\ flow = NoFlow
      /\ \/ flow' = flow
         \/ flow' = [kind |-> "boot", stage |-> "refreshing", token |-> store] /\ store # NoToken
  BY DEF Boot, CalmInvariant, history
<1>2. \A c \in Calls : call[c] = Idle
  BY DEF Boot, LoadingShape
<1>3. store # NoToken => Current(store)
  BY <1>1, <1>2 DEF CalmInvariant, StoreIsCurrent, Superseded, NoFlow, Idle
<1>4. HeldAreCurrent' /\ SessionsApart'
  BY <1>1, <1>2, <1>3 DEF HeldAreCurrent, SessionsApart, Current, Refreshing, Idle, NoFlow
<1>5. StoreIsCurrent'
  BY <1>1, <1>3 DEF StoreIsCurrent, Current
<1> QED
  BY <1>1, <1>4, <1>5

LEMMA RestoreIsCalm ==
  ASSUME Shape, CalmInvariant, Restore
  PROVE  CalmInvariant'
<1> USE DEF Shape, TypesOK
<1> SUFFICES ASSUME Calm PROVE (~reused /\ HeldAreCurrent /\ StoreIsCurrent /\ SessionsApart)'
  BY DEF CalmInvariant, Restore, Calm, history
<1>1. /\ ~reused' /\ UNCHANGED <<family, call>> /\ flow' = NoFlow
      /\ store' = flow.token /\ Current(flow.token)
  BY DEF Restore, CalmInvariant, HeldAreCurrent, history
<1>2. \A c \in Calls : call[c] = Idle
  BY DEF Restore, FlowShape, LoadingShape
<1> QED
  BY <1>1, <1>2 DEF HeldAreCurrent, StoreIsCurrent, SessionsApart, Current, Refreshing, Idle,
     NoFlow

LEMMA SignInIsCalm ==
  ASSUME Shape, CalmInvariant, SignIn
  PROVE  CalmInvariant'
<1> USE DEF Shape, TypesOK
<1> SUFFICES ASSUME Calm PROVE (~reused /\ HeldAreCurrent /\ StoreIsCurrent /\ SessionsApart)'
  BY DEF CalmInvariant, SignIn, Calm
<1>1. /\ ~reused' /\ UNCHANGED <<family, call>> /\ flow' = NoFlow
      /\ store' = flow.token /\ Current(flow.token)
      /\ \A c \in Calls : Refreshing(c) => call[c].token[1] # flow.token[1]
  BY DEF SignIn, CalmInvariant, HeldAreCurrent, SessionsApart
<1>2. HeldAreCurrent' /\ StoreIsCurrent'
  BY <1>1 DEF CalmInvariant, HeldAreCurrent, StoreIsCurrent, Current, Refreshing, NoFlow
<1>3. SessionsApart'
  BY <1>1 DEF CalmInvariant, SessionsApart, Refreshing, NoFlow
<1> QED
  BY <1>1, <1>2, <1>3

LEMMA KillIsCalm ==
  ASSUME Shape, CalmInvariant, Kill
  PROVE  CalmInvariant'
<1> USE DEF Shape, TypesOK
<1> SUFFICES ASSUME Calm' PROVE (~reused /\ HeldAreCurrent /\ StoreIsCurrent /\ SessionsApart)'
  BY DEF CalmInvariant
<1>1. Calm /\ flow.stage # "rotated" /\ \A c \in Calls : call[c].stage # "rotated"
  BY DEF Kill, Calm
<1>2. store # NoToken => Current(store)
  BY <1>1 DEF CalmInvariant, StoreIsCurrent, Superseded
<1>3. ~reused' /\ UNCHANGED <<family, store>> /\ flow' = NoFlow /\ \A c \in Calls : call'[c] = Idle
  BY <1>1 DEF Kill, CalmInvariant
<1> QED
  BY <1>2, <1>3 DEF HeldAreCurrent, StoreIsCurrent, SessionsApart, Current, Refreshing, Idle,
     NoFlow

LEMMA LogoutIsCalm ==
  ASSUME Shape, CalmInvariant, Logout
  PROVE  CalmInvariant'
<1> SUFFICES ASSUME Calm PROVE (~reused /\ HeldAreCurrent /\ StoreIsCurrent /\ SessionsApart)'
  BY DEF CalmInvariant, Logout, Calm, history
<1>1. /\ ~reused' /\ UNCHANGED <<family, store, call>> /\ flow = NoFlow
      /\ flow'.stage = "signingOut"
  BY DEF Logout, CalmInvariant, history, session
<1>2. HeldAreCurrent' /\ SessionsApart'
  BY <1>1 DEF CalmInvariant, HeldAreCurrent, SessionsApart, Current, Refreshing
<1>3. StoreIsCurrent'
  BY <1>1 DEF CalmInvariant, StoreIsCurrent, Superseded, Current, NoFlow
<1> QED
  BY <1>1, <1>2, <1>3

\* A session of its own: no token of it is anywhere.
LEMMA VerifyIsCalm ==
  ASSUME Shape, CalmInvariant, NEW u \in Users, Verify(u)
  PROVE  CalmInvariant'
<1> USE DEF Shape, TypesOK
<1> SUFFICES ASSUME Calm PROVE (~reused /\ HeldAreCurrent /\ StoreIsCurrent /\ SessionsApart)'
  BY DEF CalmInvariant, Verify, Calm, history
<1>1. PICK s \in Sessions :
        /\ family[s].user = Nobody
        /\ family' = [family EXCEPT ![s] = [user |-> u, gen |-> 1, open |-> TRUE]]
        /\ flow' = [kind |-> "signIn", stage |-> "verified", token |-> <<s, 1>>]
  BY DEF Verify, Unopened, Opened
<1>2. ~reused' /\ UNCHANGED <<store, call>> /\ flow = NoFlow
  BY DEF Verify, CalmInvariant, session, history
<1>3. family[s].gen = 0 /\ family'[s].gen = 1 /\ \A r \in Sessions : r # s => family'[r] = family[r]
  BY <1>1 DEF FamilyShape, ApiTypeOK, Families
<1>4. \A t \in Holder : t # NoToken /\ Known(t) => t[1] \in Sessions /\ t[1] # s
  BY <1>3, HeldToken DEF Known
<1>5. \A c \in Calls : Refreshing(c) => call[c].token[1] \in Sessions /\ call[c].token[1] # s
  BY <1>4 DEF TokensKnown, WorkTypeOK
<1>6. store[1] # s /\ (store # NoToken => store[1] \in Sessions)
  BY <1>4 DEF TokensKnown, ScreenTypeOK, NoToken, Sessions
<1>7. HeldAreCurrent'
  BY <1>1, <1>2, <1>3, <1>5 DEF CalmInvariant, HeldAreCurrent, Current, Refreshing
<1>8. StoreIsCurrent'
  BY <1>2, <1>3, <1>6 DEF CalmInvariant, StoreIsCurrent, Superseded, Current, NoFlow
<1>9. SessionsApart'
  BY <1>1, <1>2, <1>5, <1>6 DEF CalmInvariant, SessionsApart, Refreshing
<1> QED
  BY <1>2, <1>7, <1>8, <1>9

\* What the API answers is the next token of its session, or a refusal.
LEMMA ExchangedShape ==
  ASSUME NEW holder \in [stage: CallStages, token: Holder]
  PROVE  \/ /\ Rotates(family, holder.token)
            /\ Exchanged(holder) = [stage |-> "rotated", token |-> Rotated(holder.token)]
         \/ /\ ~Rotates(family, holder.token)
            /\ Exchanged(holder) = [stage |-> "refused", token |-> holder.token]
  BY DEF Exchanged

\* A presented token that is current is the next generation's afterwards, and
\* the tokens of other sessions are what they were.
LEMMA CurrentAfter ==
  ASSUME ApiTypeOK, NEW t \in Tokens, Current(t), family' = Refreshed(family, t)
  PROVE  /\ Rotates(family, t) => Current(Rotated(t))'
         /\ ~Rotates(family, t) => \A s \in Sessions : family'[s].gen = family[s].gen
         /\ \A s \in Sessions : s # t[1] => family'[s].gen = family[s].gen
<1>1. t \in Holder /\ t[1] \in Sessions
  BY TokenParts DEF Holder
<1>2. \A s \in Sessions : family'[s].gen = IF Rotates(family, t) /\ s = t[1] THEN family[s].gen + 1 ELSE family[s].gen
  BY <1>1, RefreshedShape DEF ApiTypeOK
<1> QED
  BY <1>1, <1>2 DEF Current, Rotated

LEMMA ServeBootIsCalm ==
  ASSUME Shape, CalmInvariant, ServeBoot
  PROVE  CalmInvariant'
<1> USE DEF Shape, TypesOK
<1> SUFFICES ASSUME Calm PROVE (~reused /\ HeldAreCurrent /\ StoreIsCurrent /\ SessionsApart)'
  BY DEF CalmInvariant, ServeBoot, Present, Calm
<1> DEFINE t == flow.token
<1>1. t \in Tokens /\ t \in Holder /\ t[1] \in Sessions /\ Current(t) /\ flow.stage = "refreshing"
  BY HeldToken DEF ServeBoot, WorkTypeOK, TokensKnown, CalmInvariant, HeldAreCurrent
<1>2. family' = Refreshed(family, t) /\ UNCHANGED <<store, call>> /\ ~reused'
  BY <1>1, CurrentIsNotReused DEF ServeBoot, Present, session, CalmInvariant
<1>3. \A c \in Calls : call[c] = Idle
  BY DEF ServeBoot, FlowShape, LoadingShape
<1>4. store # NoToken => Current(store) /\ store[1] \in Sessions /\ store \in Tokens
  BY <1>1, <1>3, HeldToken DEF CalmInvariant, StoreIsCurrent, Superseded, Idle, ScreenTypeOK
<1>5. \/ Rotates(family, t) /\ flow'.stage = "rotated" /\ flow'.token = Rotated(t)
      \/ ~Rotates(family, t) /\ flow'.stage = "refused"
  BY DEF ServeBoot, Exchanged, WorkTypeOK
<1>6. HeldAreCurrent' /\ SessionsApart'
  <2>1. flow'.stage \in {"refreshing", "rotated", "verified"} => Current(flow.token)'
    BY <1>1, <1>2, <1>5, CurrentAfter DEF Current
  <2> QED
    BY <1>2, <1>3, <1>5, <2>1 DEF HeldAreCurrent, SessionsApart, Refreshing, Idle
<1>7. StoreIsCurrent'
  <2> SUFFICES ASSUME store # NoToken PROVE (Current(store) \/ Superseded(store))'
    BY <1>2 DEF StoreIsCurrent
  <2>1. CASE Rotates(family, t) /\ store[1] = t[1]
    <3>1. store = t
      BY <1>1, <1>4, <2>1, TokenParts DEF Current
    <3> QED
      BY <1>2, <1>5, <2>1, <3>1 DEF Superseded
  <2>2. CASE ~(Rotates(family, t) /\ store[1] = t[1])
    BY <1>1, <1>2, <1>4, <2>2, CurrentAfter DEF Current
  <2> QED
    BY <2>1, <2>2
<1> QED
  BY <1>2, <1>6, <1>7

LEMMA LoseBootIsCalm ==
  ASSUME Shape, CalmInvariant, LoseBoot
  PROVE  CalmInvariant'
<1> USE DEF Shape, TypesOK
<1> SUFFICES ASSUME Calm' PROVE (~reused /\ HeldAreCurrent /\ StoreIsCurrent /\ SessionsApart)'
  BY DEF CalmInvariant
<1>1. Calm /\ flow.stage = "refreshing" /\ flow'.stage = "refused"
  BY DEF LoseBoot, Calm, WorkTypeOK
<1>2. ~reused' /\ UNCHANGED <<family, store, call>>
  BY <1>1 DEF LoseBoot, session, CalmInvariant
<1>3. HeldAreCurrent' /\ SessionsApart'
  BY <1>1, <1>2 DEF CalmInvariant, HeldAreCurrent, SessionsApart, Current, Refreshing
<1>4. StoreIsCurrent'
  BY <1>1, <1>2 DEF CalmInvariant, StoreIsCurrent, Superseded, Current
<1> QED
  BY <1>2, <1>3, <1>4

\* No other call holds a token of the session a refresh begins for: that would
\* be the overlap.
LEMMA BeginRefreshIsCalm ==
  ASSUME Shape, CalmInvariant, NEW c \in Calls, BeginRefresh(c)
  PROVE  CalmInvariant'
<1> USE DEF Shape, TypesOK
<1> SUFFICES ASSUME Calm' PROVE (~reused /\ HeldAreCurrent /\ StoreIsCurrent /\ SessionsApart)'
  BY DEF CalmInvariant
<1>1. Calm /\ ~Presenting(store) /\ ~Superseded(store) /\ store # NoToken
  BY DEF BeginRefresh, Calm, HistoryTypeOK
<1>2. /\ ~reused' /\ UNCHANGED <<family, store, flow>>
      /\ call'[c] = [stage |-> "refreshing", token |-> store]
      /\ \A d \in Calls : d # c => call'[d] = call[d]
  BY <1>1 DEF BeginRefresh, session, CalmInvariant, WorkTypeOK
<1>3. Current(store) /\ store \in Tokens
  BY <1>1, HeldToken DEF CalmInvariant, StoreIsCurrent, ScreenTypeOK
<1>4. ASSUME NEW d \in Calls, Refreshing(d)
      PROVE  call[d].token[1] # store[1]
  <2>1. call[d].token \in Tokens /\ Current(call[d].token)
    BY <1>1, <1>4, HeldToken DEF CalmInvariant, HeldAreCurrent, WorkTypeOK, TokensKnown
  <2>2. call[d].token # store
    BY <1>1, <1>4 DEF Presenting, Refreshing, CalmInvariant, SessionsApart
  <2> QED
    BY <1>3, <2>1, <2>2, TokenParts DEF Current
<1>5. flow.stage = "verified" => store[1] # flow.token[1]
  BY <1>1 DEF CalmInvariant, SessionsApart
<1>6. HeldAreCurrent'
  BY <1>1, <1>2, <1>3 DEF CalmInvariant, HeldAreCurrent, Current, Refreshing
<1>7. StoreIsCurrent'
  BY <1>2, <1>3 DEF StoreIsCurrent, Current
<1>8. SessionsApart'
  BY <1>1, <1>2, <1>4, <1>5 DEF CalmInvariant, SessionsApart, Refreshing
<1> QED
  BY <1>2, <1>6, <1>7, <1>8

\* The token presented is current, so it rotates or its session is over; what
\* the others hold is of other sessions.
LEMMA ServeRefreshIsCalm ==
  ASSUME Shape, CalmInvariant, NEW c \in Calls, ServeRefresh(c)
  PROVE  CalmInvariant'
<1> USE DEF Shape, TypesOK
<1> SUFFICES ASSUME Calm PROVE (~reused /\ HeldAreCurrent /\ StoreIsCurrent /\ SessionsApart)'
  BY DEF CalmInvariant, ServeRefresh, Present, Calm
<1> DEFINE t == call[c].token
<1>1. t \in Tokens /\ t \in Holder /\ t[1] \in Sessions /\ Current(t) /\ Refreshing(c)
  BY HeldToken DEF ServeRefresh, WorkTypeOK, TokensKnown, CalmInvariant, HeldAreCurrent,
     Refreshing
<1>2. family' = Refreshed(family, t) /\ UNCHANGED <<store, flow>> /\ ~reused'
  BY <1>1, CurrentIsNotReused DEF ServeRefresh, Present, session, CalmInvariant
<1>3. /\ \A d \in Calls : d # c => call'[d] = call[d]
      /\ \/ Rotates(family, t) /\ call'[c] = [stage |-> "rotated", token |-> Rotated(t)]
         \/ ~Rotates(family, t) /\ call'[c].stage = "refused"
  BY ExchangedShape DEF ServeRefresh, WorkTypeOK
<1>4. Rotates(family, t) => family'[t[1]].gen = Rotated(t)[2] /\ Rotated(t)[1] = t[1] /\ Rotated(t)[2] = family[t[1]].gen + 1
  BY <1>1, <1>2, CurrentAfter DEF Rotated, Current
<1>5. \A s \in Sessions : s # t[1] \/ ~Rotates(family, t) => family'[s].gen = family[s].gen
  BY <1>1, <1>2, CurrentAfter
<1>6. \A d \in Calls : d # c /\ Refreshing(d) => call[d].token[1] \in Sessions /\ call[d].token[1] # t[1]
  BY <1>1, HeldToken DEF CalmInvariant, SessionsApart, WorkTypeOK, TokensKnown
<1>7. status # "loading" /\ flow.stage \notin {"refreshing", "rotated"}
  BY <1>1 DEF LoadingShape, FlowShape, Refreshing, Idle
<1>8. flow.stage = "verified" => flow.token[1] \in Sessions /\ flow.token[1] # t[1] /\ store[1] # flow.token[1]
  BY <1>1, HeldToken DEF CalmInvariant, SessionsApart, WorkTypeOK, TokensKnown
<1>9. HeldAreCurrent'
  <2>1. ASSUME NEW d \in Calls, Refreshing(d)' PROVE Current(call[d].token)'
    <3>1. CASE d = c
      BY <1>3, <1>4, <2>1, <3>1 DEF Refreshing, Current
    <3>2. CASE d # c
      BY <1>3, <1>5, <1>6, <2>1, <3>2 DEF Refreshing, Current, CalmInvariant, HeldAreCurrent
    <3> QED
      BY <3>1, <3>2
  <2> QED
    BY <1>2, <1>5, <1>7, <1>8, <2>1 DEF CalmInvariant, HeldAreCurrent, Current
<1>10. StoreIsCurrent'
  <2> SUFFICES ASSUME store # NoToken PROVE (Current(store) \/ Superseded(store))'
    BY <1>2 DEF StoreIsCurrent
  <2>1. store \in Tokens /\ store[1] \in Sessions
    BY HeldToken DEF ScreenTypeOK
  <2>2. CASE Superseded(store)
    <3>1. PICK d \in Calls : call[d].stage = "rotated" /\ call[d].token = Rotated(store)
      BY <1>7, <2>2 DEF Superseded
    <3>2. d # c
      BY <3>1 DEF ServeRefresh
    <3> QED
      BY <1>2, <1>3, <3>1, <3>2 DEF Superseded
  <2>3. CASE Current(store) /\ Rotates(family, t) /\ store[1] = t[1]
    <3>1. store = t
      BY <1>1, <2>1, <2>3, TokenParts DEF Current
    <3> QED
      BY <1>2, <1>3, <2>3, <3>1 DEF Superseded
  <2>4. CASE Current(store) /\ ~(Rotates(family, t) /\ store[1] = t[1])
    BY <1>2, <1>5, <2>1, <2>4 DEF Current
  <2> QED
    BY <2>2, <2>3, <2>4 DEF CalmInvariant, StoreIsCurrent
<1>11. SessionsApart'
  <2>1. \A d \in Calls : Refreshing(d)' => Refreshing(d) /\ call'[d].token[1] = call[d].token[1]
    BY <1>1, <1>3, <1>4 DEF Refreshing
  <2>2. call'[c].stage = "rotated" => store # call'[c].token
    <3>1. ASSUME call'[c].stage = "rotated", store = Rotated(t) PROVE FALSE
      <4>1. store[1] = t[1] /\ store[2] = family[t[1]].gen + 1 /\ family[t[1]].gen \in Nat
        BY <1>1, <1>3, <1>4, <3>1 DEF ApiTypeOK, Families
      <4>2. Known(store) /\ store # NoToken
        BY <1>1, <4>1 DEF TokensKnown, NoToken, Sessions
      <4> QED
        BY <4>1, <4>2 DEF Known
    <3> QED
      BY <1>3, <3>1
  <2>3. \A d \in Calls : call'[d].stage = "rotated" => store' # call'[d].token
    BY <1>2, <1>3, <2>2 DEF CalmInvariant, SessionsApart
  <2> QED
    BY <1>2, <2>1, <2>3 DEF CalmInvariant, SessionsApart
<1> QED
  BY <1>2, <1>9, <1>10, <1>11

\* The pair is stored, and its request holds it no more.
LEMMA ResendIsCalm ==
  ASSUME Shape, CalmInvariant, NEW c \in Calls, Resend(c)
  PROVE  CalmInvariant'
<1> USE DEF Shape, TypesOK
<1> SUFFICES ASSUME Calm PROVE (~reused /\ HeldAreCurrent /\ StoreIsCurrent /\ SessionsApart)'
  BY DEF CalmInvariant, Resend, Calm, history
<1>1. Refreshing(c) /\ Current(call[c].token)
  BY DEF Resend, CalmInvariant, HeldAreCurrent, Refreshing
<1>2. /\ ~reused' /\ UNCHANGED <<family, flow>> /\ store' = call[c].token
      /\ call'[c] = Idle /\ \A d \in Calls : d # c => call'[d] = call[d]
  BY DEF Resend, CalmInvariant, history, WorkTypeOK
<1>3. \A d \in Calls : Refreshing(d)' => d # c /\ Refreshing(d) /\ call'[d] = call[d]
  BY <1>2 DEF Refreshing, Idle
<1>4. HeldAreCurrent'
  BY <1>2, <1>3 DEF CalmInvariant, HeldAreCurrent, Current
<1>5. StoreIsCurrent'
  BY <1>1, <1>2 DEF StoreIsCurrent, Current
<1>6. SessionsApart'
  <2>1. ASSUME NEW d \in Calls, call'[d].stage = "rotated" PROVE store' # call'[d].token
    <3>1. Refreshing(d)'
      BY <2>1 DEF Refreshing
    <3> QED
      BY <1>1, <1>2, <1>3, <3>1 DEF CalmInvariant, SessionsApart
  <2> QED
    BY <1>1, <1>2, <1>3, <2>1 DEF CalmInvariant, SessionsApart
<1> QED
  BY <1>2, <1>4, <1>5, <1>6

LEMMA CalmStays == Shape /\ CalmInvariant /\ [Next]_vars => CalmInvariant'
<1> SUFFICES ASSUME Shape, CalmInvariant, [Next]_vars PROVE CalmInvariant'
  OBVIOUS
<1> USE DEF Shape, TypesOK
<1>1. CASE UNCHANGED <<family, store, call, flow, lost, overlap, reused>>
  BY <1>1 DEF CalmInvariant, Calm, HeldAreCurrent, StoreIsCurrent, SessionsApart, Current,
     Superseded, Refreshing
<1>2. CASE BootFails \/ LogoutEnds
  <2>1. flow' = NoFlow /\ Clear /\ UNCHANGED <<call, lost, overlap, reused>>
    BY <1>2 DEF BootFails, LogoutEnds
  <2>2. \A s \in Sessions : family'[s].gen = family[s].gen
    BY <1>2, LoggedOutShape DEF BootFails, LogoutEnds, ApiTypeOK, WorkTypeOK
  <2> QED
    BY <2>1, <2>2, ClearIsCalm DEF NoFlow
<1>3. ASSUME NEW c \in Calls, AnswerWithoutStore(c) \/ GiveUp(c) PROVE CalmInvariant'
  <2>1. Clear /\ UNCHANGED <<family, flow, lost, overlap, reused>>
    BY <1>3 DEF AnswerWithoutStore, GiveUp
  <2>2. \A d \in Calls : call'[d] = call[d] \/ ~Refreshing(d)'
    BY <1>3 DEF AnswerWithoutStore, GiveUp, Refreshing, Idle, WorkTypeOK
  <2> QED
    BY <2>1, <2>2, ClearIsCalm
<1>4. ASSUME NEW c \in Calls, Send(c) \/ Answer(c) PROVE CalmInvariant'
  <2>1. UNCHANGED <<family, store, flow, reused>> /\ (Calm' => Calm)
    BY <1>4 DEF Send, Answer, session, history, Calm
  <2>2. \A d \in Calls : call'[d] = call[d] \/ (~Refreshing(d)' /\ call[d].stage # "rotated")
    BY <1>4 DEF Send, Answer, Refreshing, Idle, WorkTypeOK
  <2> QED
    BY <2>1, <2>2, CallIsCalm
<1>5. ASSUME NEW c \in Calls, LoseRefresh(c) PROVE CalmInvariant'
  <2>1. UNCHANGED <<family, store, flow, reused>> /\ (Calm' => Calm)
    BY <1>5 DEF LoseRefresh, session, Calm
  <2>2. \A d \in Calls : call'[d] = call[d] \/ (~Refreshing(d)' /\ (call[d].stage = "rotated" => ~Calm'))
    BY <1>5 DEF LoseRefresh, Refreshing, Calm, WorkTypeOK
  <2> QED
    BY <2>1, <2>2, CallIsCalm
<1>6. \/ UNCHANGED <<family, store, call, flow, lost, overlap, reused>>
      \/ Boot \/ ServeBoot \/ LoseBoot \/ Restore \/ BootFails \/ LogoutEnds \/ SignIn \/ Kill \/ Logout
      \/ \E u \in Users : Verify(u)
      \/ \E c \in Calls : \/ AnswerWithoutStore(c) \/ GiveUp(c) \/ BeginRefresh(c) \/ ServeRefresh(c)
                          \/ Resend(c) \/ Send(c) \/ Answer(c) \/ LoseRefresh(c)
  BY DEF Next, FlowStep, CallStep, vars, session, history, Age, CloseSession, StartPush,
     Foreground, ServeRegister
<1> QED
  BY <1>1, <1>2, <1>3, <1>4, <1>5, <1>6, BootIsCalm, ServeBootIsCalm, LoseBootIsCalm,
     RestoreIsCalm,
     SignInIsCalm, KillIsCalm, LogoutIsCalm, VerifyIsCalm, BeginRefreshIsCalm, ServeRefreshIsCalm, ResendIsCalm

(***************************************************************************)
(* The API revokes a session for reuse only if an answer to a refresh was  *)
(* lost or two refreshes of it overlapped, for any number of requests      *)
(* under way, of users and of sessions.                                    *)
(***************************************************************************)
THEOREM ReuseNeedsACause == Spec => []ReuseHasACause
<1>1. Init => CalmInvariant
  BY DEF Init, CalmInvariant, HeldAreCurrent, StoreIsCurrent, SessionsApart, Refreshing, Idle,
     NoFlow
<1>2. Shape /\ CalmInvariant => ReuseHasACause
  BY DEF CalmInvariant, Calm, ReuseHasACause
<1> QED
  BY <1>1, <1>2, CalmStays, ShapeHolds, PTL DEF Spec

-----------------------------------------------------------------------------
(***************************************************************************)
(* Signing in with a code: calls counted, answers that belong to a screen, *)
(* and the countdown                                                       *)
(***************************************************************************)
Stages == {"idle", "asked", "sent", "failed", "refused"}

\* The shape of what the argument is about.
CodeTypeOK ==
  /\ view \in {"phone", "code", "home"}
  /\ ask \in [Askers -> [stage: Stages, mine: BOOLEAN]]
  /\ wait \in Nat /\ hold \in Nat
  /\ window \in [Kinds -> Nat] /\ tries \in [Kinds -> Nat] /\ spent \in [Kinds -> Nat]
  /\ excused \in BOOLEAN

\* Every call of the service was counted, and within the limit.
Counts == \A a \in Kinds : spent[a] <= tries[a] /\ spent[a] <= Limit(a)

\* Whose answers may still come to which screen.
AnswersBelong ==
  /\ ask["phone"] # NoAsk => view # "code"
  /\ ask["code"].mine => view # "phone"
  /\ ask["code"].stage = "sent" /\ ~ask["code"].mine => excused

\* The countdown is not ahead of the cooldown, unless an answer is yet to start it anew.
CountdownCovers ==
  /\ hold <= Cooldown
  /\ view = "code" /\ ~excused /\ ask["code"].stage # "sent" => hold <= wait

CodeInvariant == CodeTypeOK /\ Counts /\ AnswersBelong /\ CountdownCovers

LEMMA LimitsAreNumbers == RequestLimit \in Nat /\ VerifyLimit \in Nat /\ Cooldown \in Nat /\ Window \in Nat
  BY CodeAssumption

LEMMA CodeStarts == CodeInit => CodeInvariant
<1> SUFFICES ASSUME CodeInit PROVE CodeInvariant
  OBVIOUS
<1>1. NoAsk \in [stage: Stages, mine: BOOLEAN]
  BY DEF NoAsk, Stages
<1>2. CodeTypeOK
  BY <1>1 DEF CodeInit, CodeTypeOK
<1>3. Counts
  BY LimitsAreNumbers DEF CodeInit, Counts, Kinds, Limit
<1>4. AnswersBelong /\ CountdownCovers
  BY LimitsAreNumbers DEF CodeInit, AnswersBelong, CountdownCovers, Askers, NoAsk
<1> QED
  BY <1>2, <1>3, <1>4 DEF CodeInvariant

(***************************************************************************)
(* What an attempt does to the counters.                                   *)
(***************************************************************************)
LEMMA CountedIsNumber ==
  ASSUME CodeTypeOK, NEW a \in Kinds, Counted(a)
  PROVE  /\ tries' \in [Kinds -> Nat] /\ window' \in [Kinds -> Nat]
         /\ \A b \in Kinds : tries'[b] >= tries[b]
         /\ Allowed(a) => tries'[a] = tries[a] + 1
<1>1. Limit(a) \in Nat
  BY LimitsAreNumbers DEF Limit
<1> QED
  BY <1>1, LimitsAreNumbers DEF CodeTypeOK, Counted, Allowed, Kinds

LEMMA OtpIsCounted ==
  ASSUME CodeInvariant, NEW outcome, RequestOtp(outcome)
  PROVE  /\ tries' \in [Kinds -> Nat] /\ window' \in [Kinds -> Nat] /\ spent' \in [Kinds -> Nat]
         /\ Counts'
         /\ hold' \in Nat /\ hold' <= Cooldown
         /\ outcome = "refused" => hold' = hold
<1> USE DEF CodeInvariant
<1>1. Counted("request") /\ "request" \in Kinds
  BY DEF RequestOtp, Kinds
<1>2. /\ tries' \in [Kinds -> Nat] /\ window' \in [Kinds -> Nat]
      /\ \A b \in Kinds : tries'[b] >= tries[b]
      /\ Allowed("request") => tries'["request"] = tries["request"] + 1
  BY <1>1, CountedIsNumber
<1>3. CASE ~Allowed("request") \/ hold > 0
  BY <1>2, <1>3 DEF RequestOtp, CodeTypeOK, Counts, CountdownCovers, Limit
<1>4. CASE Allowed("request") /\ ~(hold > 0)
  <2>1. /\ outcome \in {"sent", "failed"} /\ hold' = Cooldown
        /\ spent' = [spent EXCEPT !["request"] = @ + 1]
    BY <1>4 DEF RequestOtp
  <2>2. tries'["request"] <= RequestLimit
    BY <1>4 DEF Allowed, Limit
  <2>3. Counts'
    BY <1>2, <1>4, <2>1, <2>2, LimitsAreNumbers DEF Counts, CodeTypeOK, Kinds, Limit
  <2>4. spent' \in [Kinds -> Nat]
    BY <1>1, <2>1 DEF CodeTypeOK
  <2>5. hold' \in Nat /\ hold' <= Cooldown
    BY <2>1, LimitsAreNumbers
  <2>6. outcome # "refused"
    BY <2>1
  <2> QED
    BY <1>2, <2>3, <2>4, <2>5, <2>6
<1> QED
  BY <1>3, <1>4

(***************************************************************************)
(* The invariant is inductive.                                             *)
(***************************************************************************)
LEMMA SecondKeeps == CodeInvariant /\ Second => CodeInvariant'
<1> SUFFICES ASSUME CodeInvariant, Second PROVE CodeInvariant'
  OBVIOUS
<1> USE DEF CodeInvariant
<1>1. \A n \in Nat : Less(n) \in Nat /\ Less(n) <= n
  BY DEF Less
<1>2. \A m, n \in Nat : m <= n => Less(m) <= Less(n) /\ Less(m) <= n
  BY DEF Less
<1>3. CodeTypeOK'
  BY <1>1 DEF Second, CodeTypeOK
<1>4. Counts'
  BY LimitsAreNumbers DEF Second, Counts, CodeTypeOK, Kinds, Limit
<1>5. AnswersBelong'
  BY DEF Second, AnswersBelong
<1>6. CountdownCovers'
  BY <1>1, <1>2, LimitsAreNumbers DEF Second, CountdownCovers, CodeTypeOK
<1> QED
  BY <1>3, <1>4, <1>5, <1>6

LEMMA ServeAskKeeps ==
  ASSUME CodeInvariant, NEW s \in Askers, ServeAsk(s)
  PROVE  CodeInvariant'
<1> USE DEF CodeInvariant
<1>1. PICK outcome \in {"sent", "failed", "refused"} :
        /\ RequestOtp(outcome)
        /\ ask' = [ask EXCEPT ![s].stage = outcome]
        /\ excused' = (excused \/ outcome = "failed" \/ (outcome = "sent" /\ ~ask[s].mine))
  BY DEF ServeAsk
<1>2. /\ tries' \in [Kinds -> Nat] /\ window' \in [Kinds -> Nat] /\ spent' \in [Kinds -> Nat]
      /\ Counts'
      /\ hold' \in Nat /\ hold' <= Cooldown
      /\ outcome = "refused" => hold' = hold
  BY <1>1, OtpIsCounted
<1>3. ask[s].stage = "asked" /\ UNCHANGED <<view, wait>>
  BY DEF ServeAsk
<1>4. CodeTypeOK'
  BY <1>1, <1>2, <1>3 DEF CodeTypeOK, Stages
<1>5. AnswersBelong'
  <2>1. ask[s] # NoAsk /\ \A r \in Askers : ask'[r].mine = ask[r].mine
    BY <1>1, <1>3 DEF CodeTypeOK, NoAsk
  <2>2. "phone" \in Askers /\ "code" \in Askers
    BY DEF Askers
  <2>3. ask'["phone"] # NoAsk => view' # "code"
    BY <1>1, <1>3, <2>1, <2>2 DEF AnswersBelong, CodeTypeOK
  <2>4. ask'["code"].mine => view' # "phone"
    BY <1>3, <2>1, <2>2 DEF AnswersBelong
  <2>5. ask'["code"].stage = "sent" /\ ~ask'["code"].mine => excused'
    <3>1. CASE s = "code"
      BY ZenonT(30), <1>1, <2>1, <2>2, <3>1 DEF CodeTypeOK
    <3>2. CASE s # "code"
      <4>1. ask'["code"] = ask["code"]
        BY <1>1, <2>2, <3>2 DEF CodeTypeOK
      <4> QED
        BY <1>1, <4>1 DEF AnswersBelong
    <3> QED
      BY <3>1, <3>2
  <2> QED
    BY <2>3, <2>4, <2>5 DEF AnswersBelong
<1>6. CountdownCovers'
  <2>1. ask[s] # NoAsk
    BY <1>3 DEF NoAsk
  <2>2. CASE outcome = "refused"
    BY <1>1, <1>2, <1>3, <2>2 DEF CountdownCovers, CodeTypeOK, Askers
  <2>3. CASE outcome = "failed"
    BY <1>1, <1>2, <1>3, <2>3 DEF CountdownCovers, CodeTypeOK
  <2>4. CASE outcome = "sent"
    BY <1>1, <1>2, <1>3, <2>1, <2>4 DEF CountdownCovers, AnswersBelong, CodeTypeOK, Askers
  <2> QED
    BY <2>2, <2>3, <2>4
<1> QED
  BY <1>2, <1>4, <1>5, <1>6

LEMMA AnswerKeeps ==
  ASSUME CodeInvariant, NEW s \in Askers, CodeSent(s) \/ CodeNotSent(s)
  PROVE  CodeInvariant'
<1> USE DEF CodeInvariant
<1>1. CASE CodeSent(s)
  <2>1. CASE view = "home" \/ ~ask[s].mine
    BY <1>1, <2>1 DEF CodeSent, CodeTypeOK, Counts, AnswersBelong, CountdownCovers, Askers,
                      NoAsk, Stages
  <2>2. CASE view # "home" /\ ask[s].mine
    BY <1>1, <2>2, LimitsAreNumbers
    DEF CodeSent, CodeShown, CodeTypeOK, Counts, AnswersBelong, CountdownCovers, Askers,
        NoAsk, Stages
  <2> QED
    BY <2>1, <2>2
<1>2. CASE CodeNotSent(s)
  BY <1>2 DEF CodeNotSent, CodeTypeOK, Counts, AnswersBelong, CountdownCovers, Askers, NoAsk,
     Stages
<1> QED
  BY <1>1, <1>2

LEMMA ScreenKeeps ==
  ASSUME CodeInvariant,
         \/ \E s \in Askers : RequestCode(s)
         \/ BackToPhone \/ CodeAccepted \/ CodeNotAccepted
         \/ \E right \in BOOLEAN : SubmitCode(right)
  PROVE  CodeInvariant'
<1> USE DEF CodeInvariant
<1>1. ASSUME NEW s \in Askers, RequestCode(s) PROVE CodeInvariant'
  BY <1>1 DEF RequestCode, CodeTypeOK, Counts, AnswersBelong, CountdownCovers, Askers, NoAsk,
     Stages
<1>2. CASE BackToPhone
  BY <1>2 DEF BackToPhone, CodeTypeOK, Counts, AnswersBelong, CountdownCovers, Askers, NoAsk,
     Stages
<1>3. CASE CodeAccepted
  BY <1>3 DEF CodeAccepted, CodeTypeOK, Counts, AnswersBelong, CountdownCovers
<1>4. CASE CodeNotAccepted \/ \E right \in BOOLEAN : SubmitCode(right)
  BY <1>4 DEF CodeNotAccepted, SubmitCode, CodeTypeOK, Counts, AnswersBelong, CountdownCovers
<1> QED
  BY <1>1, <1>2, <1>3, <1>4

LEMMA OthersKeep ==
  ASSUME CodeInvariant, OtherAsks \/ VerifyOtp
  PROVE  CodeInvariant'
<1> USE DEF CodeInvariant
<1>1. CASE OtherAsks
  <2>1. RequestOtp("sent") /\ excused' = TRUE /\ UNCHANGED <<view, ask, wait>>
    BY <1>1 DEF OtherAsks
  <2>2. /\ tries' \in [Kinds -> Nat] /\ window' \in [Kinds -> Nat] /\ spent' \in [Kinds -> Nat]
        /\ Counts'
        /\ hold' \in Nat /\ hold' <= Cooldown
    BY <2>1, OtpIsCounted
  <2> QED
    BY <2>1, <2>2 DEF CodeTypeOK, AnswersBelong, CountdownCovers
<1>2. CASE VerifyOtp
  <2>1. Counted("verify") /\ "verify" \in Kinds
    BY <1>2 DEF VerifyOtp, Kinds
  <2>2. /\ tries' \in [Kinds -> Nat] /\ window' \in [Kinds -> Nat]
        /\ \A b \in Kinds : tries'[b] >= tries[b]
        /\ Allowed("verify") => tries'["verify"] = tries["verify"] + 1
    BY <2>1, CountedIsNumber
  <2>3. UNCHANGED <<view, ask, wait, hold, excused>>
    BY <1>2 DEF VerifyOtp
  <2>4. spent' \in [Kinds -> Nat] /\ Counts'
    <3>1. CASE ~Allowed("verify")
      BY <1>2, <2>2, <3>1 DEF VerifyOtp, Counts, CodeTypeOK, Limit
    <3>2. CASE Allowed("verify")
      <4>1. spent' = [spent EXCEPT !["verify"] = @ + 1] /\ tries'["verify"] <= VerifyLimit
        BY <1>2, <3>2 DEF VerifyOtp, Allowed, Limit
      <4> QED
        BY <2>2, <3>2, <4>1, LimitsAreNumbers DEF Counts, CodeTypeOK, Kinds, Limit
    <3> QED
      BY <3>1, <3>2
  <2> QED
    BY <2>2, <2>3, <2>4 DEF CodeTypeOK, AnswersBelong, CountdownCovers
<1> QED
  BY <1>1, <1>2

LEMMA CodeInvariantHolds == CodeSpec => []CodeInvariant
<1>1. CodeInvariant /\ [CodeNext]_codeVars => CodeInvariant'
  <2> SUFFICES ASSUME CodeInvariant, [CodeNext]_codeVars PROVE CodeInvariant'
    OBVIOUS
  <2>1. CASE UNCHANGED codeVars
    BY <2>1 DEF codeVars, CodeInvariant, CodeTypeOK, Counts, AnswersBelong, CountdownCovers
  <2>2. CASE CodeNext
    BY <2>2, SecondKeeps, ServeAskKeeps, AnswerKeeps, ScreenKeeps, OthersKeep DEF CodeNext
  <2> QED
    BY <2>1, <2>2
<1> QED
  BY <1>1, CodeStarts, PTL DEF CodeSpec

(***************************************************************************)
(* The screen of the code and the limits of the API agree, for any         *)
(* cooldown, window and limits: however requests, their answers and the    *)
(* way back to the number cross, an enabled button for another code is not *)
(* refused for the cooldown without one of the named causes, and no window *)
(* sends or checks more codes than its limit.                              *)
(***************************************************************************)
THEOREM SigningInIsFair == CodeSpec => []SignInIsFair
<1>1. CodeInvariant => SignInIsFair
  BY DEF CodeInvariant, CodeTypeOK, Counts, CountdownCovers, SignInIsFair, ResendIsTaken,
         AttemptsAreFew, NoAsk
<1> QED
  BY <1>1, CodeInvariantHolds, PTL

-----------------------------------------------------------------------------
(***************************************************************************)
(* The saved addresses                                                     *)
(***************************************************************************)
\* No address twice.
Once(list) == \A i, j \in DOMAIN list : list[i] = list[j] => i = j

\* A list of distinct addresses has as many as it has rows.
LEMMA OnceCounts ==
  ASSUME NEW S, NEW list \in Seq(S), Once(list)
  PROVE  Cardinality(IdsOf(list)) = Len(list)
<1>1. DOMAIN list = 1 .. Len(list) /\ Len(list) \in Nat
  OBVIOUS
<1>2. list \in Bijection(1 .. Len(list), IdsOf(list))
  <2>1. list \in [1 .. Len(list) -> IdsOf(list)]
    BY <1>1 DEF IdsOf
  <2>2. \A i, j \in 1 .. Len(list) : list[i] = list[j] => i = j
    BY <1>1 DEF Once
  <2>3. \A x \in IdsOf(list) : \E i \in 1 .. Len(list) : list[i] = x
    BY <1>1 DEF IdsOf
  <2> QED
    BY <2>1, <2>2, <2>3 DEF Bijection, Injection, IsInjective, Surjection
<1>3. ExistsBijection(1 .. Len(list), IdsOf(list))
  BY <1>2 DEF ExistsBijection
<1>4. IsFiniteSet(1 .. Len(list)) /\ Cardinality(1 .. Len(list)) = Len(list)
  BY <1>1, FS_Interval
<1> QED
  BY <1>3, <1>4, FS_Bijection

\* The places of what is kept are all the places of the filtered list, one each.
LEMMA PlacesFill ==
  ASSUME NEW n \in Nat, NEW kept \in SUBSET (1 .. n)
  PROVE  LET place(i) == Cardinality({j \in kept : j < i}) + 1 IN
         /\ Cardinality(kept) \in Nat
         /\ \A i \in kept : place(i) \in 1 .. Cardinality(kept)
         /\ \A i, j \in kept : place(i) = place(j) => i = j
         /\ \A k \in 1 .. Cardinality(kept) : \E i \in kept : place(i) = k
<1> DEFINE lower(i) == {j \in kept : j < i}
           place(i) == Cardinality(lower(i)) + 1
           size == Cardinality(kept)
<1>1. IsFiniteSet(kept) /\ size \in Nat
  <2>1. IsFiniteSet(1 .. n)
    BY FS_Interval
  <2> QED
    BY <2>1, FS_Subset, FS_CardinalityType
<1>2. \A i \in kept : IsFiniteSet(lower(i)) /\ Cardinality(lower(i)) \in Nat
  <2> TAKE i \in kept
  <2>1. lower(i) \in SUBSET kept
    OBVIOUS
  <2> HIDE DEF lower
  <2> QED
    BY <1>1, <2>1, FS_Subset, FS_CardinalityType
<1>3. \A i \in kept : Cardinality(lower(i)) < size
  <2> TAKE i \in kept
  <2>1. lower(i) \in SUBSET kept /\ i \notin lower(i)
    OBVIOUS
  <2> HIDE DEF lower
  <2>2. Cardinality(lower(i)) <= size /\ (size = Cardinality(lower(i)) => kept = lower(i))
    BY <1>1, <2>1, FS_Subset
  <2> QED
    BY <1>1, <1>2, <2>1, <2>2
<1>4. ASSUME NEW i \in kept, NEW j \in kept, i < j
      PROVE  Cardinality(lower(i)) < Cardinality(lower(j))
  <2>1. lower(i) \in SUBSET lower(j) /\ i \in lower(j) /\ i \notin lower(i)
    <3>1. \A k \in kept : k \in Nat
      OBVIOUS
    <3>2. \A k \in kept : k < i => k < j
      BY <1>4, <3>1
    <3>3. ~(i < i)
      BY <3>1
    <3> QED
      BY <1>4, <3>2, <3>3
  <2>2. IsFiniteSet(lower(j)) /\ Cardinality(lower(i)) \in Nat /\ Cardinality(lower(j)) \in Nat
    BY <1>2
  <2> HIDE DEF lower
  <2>3. /\ Cardinality(lower(i)) <= Cardinality(lower(j))
        /\ Cardinality(lower(j)) = Cardinality(lower(i)) => lower(j) = lower(i)
    BY <2>1, <2>2, FS_Subset
  <2> QED
    BY <2>1, <2>2, <2>3
<1>5. \A i \in kept : place(i) \in 1 .. size
  BY <1>1, <1>2, <1>3
<1>6. \A i, j \in kept : place(i) = place(j) => i = j
  <2> SUFFICES ASSUME NEW i \in kept, NEW j \in kept, place(i) = place(j)
               PROVE  i = j
    OBVIOUS
  <2>1. Cardinality(lower(i)) = Cardinality(lower(j))
    BY <1>2
  <2>2. i \in Nat /\ j \in Nat
    OBVIOUS
  <2> HIDE DEF lower
  <2> QED
    BY <1>2, <1>4, <2>1, <2>2
<1>7. \A k \in 1 .. size : \E i \in kept : place(i) = k
  <2> DEFINE places == [i \in kept |-> place(i)]
  <2> HIDE DEF lower
  <2>1. places \in Injection(kept, 1 .. size)
    <3>1. places \in [kept -> 1 .. size]
      BY <1>5
    <3>2. \A i, j \in kept : places[i] = places[j] => i = j
      BY <1>6
    <3> QED
      BY <3>1, <3>2 DEF Injection, IsInjective
  <2>2. IsFiniteSet(1 .. size) /\ Cardinality(1 .. size) = size
    BY <1>1, FS_Interval
  <2>3. places \in Surjection(kept, 1 .. size)
    BY <2>1, <2>2, FS_Injection
  <2> QED
    BY <2>3 DEF Surjection
<1> QED
  BY <1>1, <1>5, <1>6, <1>7

\* Filtering an address out takes it and nothing else, and repeats none.
LEMMA WithoutFilters ==
  ASSUME NEW S, NEW list \in Seq(S), NEW id
  PROVE  /\ Without(list, id) \in Seq(S)
         /\ IdsOf(Without(list, id)) = IdsOf(list) \ {id}
         /\ Once(list) => Once(Without(list, id))
<1> DEFINE kept == {i \in DOMAIN list : list[i] # id}
           size == Cardinality(kept)
           place(i) == Cardinality({j \in kept : j < i}) + 1
           source(k) == CHOOSE i \in kept : place(i) = k
           short == [k \in 1 .. size |-> list[source(k)]]
<1>1. DOMAIN list = 1 .. Len(list) /\ Len(list) \in Nat /\ \A i \in DOMAIN list : list[i] \in S
  OBVIOUS
<1>2. /\ size \in Nat
      /\ \A i \in kept : place(i) \in 1 .. size
      /\ \A i, j \in kept : place(i) = place(j) => i = j
      /\ \A k \in 1 .. size : \E i \in kept : place(i) = k
  <2>1. kept \in SUBSET (1 .. Len(list))
    BY <1>1
  <2> HIDE DEF kept
  <2> QED
    BY <1>1, <2>1, PlacesFill
<1>3. Without(list, id) = short
  BY DEF Without
<1> HIDE DEF place
<1>4. \A k \in 1 .. size : source(k) \in kept /\ place(source(k)) = k
  BY <1>2
<1>5. \A i \in kept : source(place(i)) = i
  BY <1>2, <1>4
<1>6. \A k \in 1 .. size : /\ source(k) \in DOMAIN list
                           /\ short[k] = list[source(k)] /\ short[k] # id
  BY <1>4
<1> HIDE DEF source, size
<1>7. short \in Seq(S)
  BY <1>1, <1>2, <1>6
<1>8. DOMAIN short = 1 .. size
  OBVIOUS
<1>9. IdsOf(short) = IdsOf(list) \ {id}
  <2>1. ASSUME NEW x \in IdsOf(short)
        PROVE  x \in IdsOf(list) \ {id}
    BY <1>6, <1>8 DEF IdsOf
  <2>2. ASSUME NEW x \in IdsOf(list) \ {id}
        PROVE  x \in IdsOf(short)
    <3>1. PICK i \in DOMAIN list : x = list[i]
      BY DEF IdsOf
    <3>2. i \in kept
      BY <3>1
    <3>3. place(i) \in 1 .. size /\ short[place(i)] = list[i]
      BY <1>2, <1>5, <3>2
    <3> QED
      BY <1>8, <3>1, <3>3 DEF IdsOf
  <2> QED
    BY <2>1, <2>2
<1>10. ASSUME Once(list), NEW k \in 1 .. size, NEW m \in 1 .. size, short[k] = short[m]
       PROVE  k = m
  <2>1. source(k) = source(m)
    BY <1>6, <1>10 DEF Once
  <2> QED
    BY <1>4, <2>1
<1> QED
  BY <1>3, <1>7, <1>8, <1>9, <1>10 DEF Once

Edits == [stage: {"idle", "sent", "done"}, verb: {"none", "create", "remove"}, id: 0 .. rows,
          seen: Seq(1 .. rows), selected: BOOLEAN, mine: BOOLEAN]

\* Only ids the API has given out stand on any list; the API repeats none.
BookTyped ==
  /\ rows \in Nat
  /\ book \in Seq(1 .. rows) /\ Once(book)
  /\ listed \in [known: BOOLEAN, failed: BOOLEAN, rows: Seq(1 .. rows)]
  /\ load \in [stage: {"idle", "sent", "served"}, rows: Seq(1 .. rows)] /\ Once(load.rows)
  /\ edit \in [Parts -> Edits]
  /\ till \in [open: BOOLEAN, chosen: 0 .. rows]
  /\ mixed \in BOOLEAN

\* What a part has asked for and what has become of it at the API.
EditsAreServed ==
  /\ edit["add"].stage # "idle" => edit["add"].verb = "create" /\ listed.known
  /\ edit["remove"].stage # "idle" => edit["remove"].verb = "remove" /\ listed.known
  /\ edit["pickup"].stage # "idle" => edit["pickup"].verb = "create"
  /\ \A s \in Parts : edit[s].stage = "done" =>
       edit[s].id # 0 /\ (edit[s].verb = "remove" => edit[s].id \notin IdsOf(book))
  /\ edit["pickup"].stage = "done" => edit["pickup"].id \notin IdsOf(edit["pickup"].seen)

\* The list on the phone and the API's differ by what is not answered yet.
ListAgrees ==
  ~mixed /\ listed.known /\ ~listed.failed /\ load.stage = "idle" =>
    Apart(listed.rows, book) \subseteq Unanswered /\ Once(listed.rows)

BookInvariant == BookTyped /\ EditsAreServed /\ ListAgrees

LEMMA WiderSeq ==
  ASSUME NEW n \in Nat, NEW list \in Seq(1 .. n)
  PROVE  list \in Seq(1 .. (n + 1)) /\ \A i \in DOMAIN list : list[i] \in 1 .. n
<1>1. \A i \in DOMAIN list : list[i] \in 1 .. n
  OBVIOUS
<1>2. \A i \in DOMAIN list : list[i] \in 1 .. (n + 1)
  BY <1>1
<1>3. DOMAIN list = 1 .. Len(list) /\ Len(list) \in Nat /\ list = [i \in 1 .. Len(list) |-> list[i]]
  OBVIOUS
<1> QED
  BY <1>1, <1>2, <1>3

LEMMA IdsAppended ==
  ASSUME NEW S, NEW list \in Seq(S), NEW id \in S
  PROVE  /\ Append(list, id) \in Seq(S)
         /\ IdsOf(Append(list, id)) = IdsOf(list) \union {id}
         /\ Once(list) /\ id \notin IdsOf(list) => Once(Append(list, id))
<1> DEFINE long == Append(list, id)
<1>1. /\ long \in Seq(S) /\ Len(long) = Len(list) + 1 /\ Len(list) \in Nat
      /\ \A i \in 1 .. Len(list) : long[i] = list[i]
      /\ long[Len(list) + 1] = id
  OBVIOUS
<1>2. DOMAIN long = 1 .. (Len(list) + 1) /\ DOMAIN list = 1 .. Len(list)
  BY <1>1
<1> HIDE DEF long
<1>3. IdsOf(long) = IdsOf(list) \union {id}
  <2>1. ASSUME NEW x \in IdsOf(long)
        PROVE  x \in IdsOf(list) \union {id}
    <3>1. PICK i \in 1 .. (Len(list) + 1) : x = long[i]
      BY <1>2 DEF IdsOf
    <3>2. CASE i = Len(list) + 1
      BY <1>1, <3>1, <3>2
    <3>3. CASE i # Len(list) + 1
      BY <1>1, <1>2, <3>1, <3>3 DEF IdsOf
    <3> QED
      BY <3>2, <3>3
  <2>2. id \in IdsOf(long)
    BY <1>1, <1>2 DEF IdsOf
  <2>3. ASSUME NEW x \in IdsOf(list)
        PROVE  x \in IdsOf(long)
    <3>1. PICK i \in 1 .. Len(list) : x = list[i]
      BY <1>2 DEF IdsOf
    <3>2. i \in 1 .. (Len(list) + 1)
      BY <1>1
    <3> QED
      BY <1>1, <1>2, <3>1, <3>2 DEF IdsOf
  <2> QED
    BY <2>1, <2>2, <2>3
<1>4. ASSUME Once(list), id \notin IdsOf(list)
      PROVE  Once(long)
  <2> SUFFICES ASSUME NEW i \in 1 .. (Len(list) + 1), NEW j \in 1 .. (Len(list) + 1),
                      long[i] = long[j]
               PROVE  i = j
    BY <1>2 DEF Once
  <2>1. \A k \in 1 .. Len(list) : long[k] # id
    BY <1>1, <1>2, <1>4 DEF IdsOf
  <2>2. CASE i = Len(list) + 1 \/ j = Len(list) + 1
    BY <1>1, <2>1, <2>2
  <2>3. CASE i # Len(list) + 1 /\ j # Len(list) + 1
    <3>1. i \in 1 .. Len(list) /\ j \in 1 .. Len(list)
      BY <1>1, <2>3
    <3> QED
      BY <1>1, <1>2, <1>4, <3>1 DEF Once
  <2> QED
    BY <2>2, <2>3
<1> QED
  BY <1>1, <1>3, <1>4 DEF long

LEMMA ListedIds ==
  ASSUME NEW S, NEW list \in Seq(S)
  PROVE  IdsOf(list) \subseteq S
BY DEF IdsOf

\* What is asked for.
LEMMA AskedEdit ==
  ASSUME BookTyped, NEW s \in Parts, NEW verb \in {"create", "remove"}, NEW id \in 0 .. rows,
         AskChange(s, verb, id)
  PROVE  /\ edit' \in [Parts -> Edits] /\ UNCHANGED <<book, rows, listed, load, till, mixed>>
         /\ edit[s].stage = "idle" /\ edit'[s].stage = "sent" /\ edit'[s].verb = verb
         /\ \A p \in Parts \ {s} : edit'[p] = edit[p]
<1> DEFINE e == [stage |-> "sent", verb |-> verb, id |-> id,
                 seen |-> IF s \in {"remove", "pickup"} THEN listed.rows ELSE <<>>,
                 selected |-> s = "remove" /\ id = Selected, mine |-> TRUE]
<1>1. edit' = [edit EXCEPT ![s] = e] /\ edit[s].stage = "idle"
      /\ UNCHANGED <<book, rows, listed, load, till, mixed>>
  BY DEF AskChange
<1>2. (IF s \in {"remove", "pickup"} THEN listed.rows ELSE <<>>) \in Seq(1 .. rows)
  <2>1. listed.rows \in Seq(1 .. rows)
    BY DEF BookTyped
  <2>2. <<>> \in Seq(1 .. rows)
    OBVIOUS
  <2> QED
    BY <2>1, <2>2
<1>3. e \in Edits
  BY <1>2 DEF Edits
<1>4. Edits' = Edits
  BY <1>1 DEF Edits
<1>5. e.stage = "sent" /\ e.verb = verb
  OBVIOUS
<1> HIDE DEF e
<1> QED
  BY <1>1, <1>3, <1>4, <1>5 DEF BookTyped

\* The actions that ask for a change: who asks for what.
LEMMA WhoAsks ==
  ASSUME BookTyped,
         \/ SaveAddress \/ PickupSaves \/ \E id \in 1 .. MaxRows : RemoveAddress(id)
         \/ \E verb \in {"create", "remove"}, id \in 0 .. MaxRows : ProfileChanges(verb, id)
  PROVE  \E s \in Parts, verb \in {"create", "remove"}, id \in 0 .. rows :
           /\ AskChange(s, verb, id)
           /\ s = "add" => verb = "create" /\ listed.known
           /\ s = "remove" => verb = "remove" /\ listed.known
           /\ s = "pickup" => verb = "create"
<1>1. IdsOf(listed.rows) \subseteq 0 .. rows /\ 0 \in 0 .. rows
  <2>1. listed.rows \in Seq(1 .. rows) /\ rows \in Nat
    BY DEF BookTyped
  <2>2. IdsOf(listed.rows) \subseteq 1 .. rows
    BY <2>1, ListedIds
  <2> QED
    BY <2>1, <2>2
<1>2. CASE SaveAddress
  BY <1>1, <1>2 DEF SaveAddress, Ready, Parts
<1>3. CASE PickupSaves
  BY <1>1, <1>3 DEF PickupSaves, Parts
<1>4. ASSUME NEW id \in 1 .. MaxRows, RemoveAddress(id)
      PROVE  AskChange("remove", "remove", id) /\ id \in 0 .. rows /\ listed.known
  BY <1>1, <1>4 DEF RemoveAddress, Ready
<1>5. ASSUME NEW verb \in {"create", "remove"}, NEW id \in 0 .. MaxRows, ProfileChanges(verb, id)
      PROVE  AskChange("profile", verb, id) /\ id \in 0 .. rows
  BY <1>1, <1>5 DEF ProfileChanges
<1>6. "remove" \in Parts /\ "profile" \in Parts
  BY DEF Parts
<1> QED
  BY <1>2, <1>3, <1>4, <1>5, <1>6

\* Leaving a screen: its answers are no more of a screen's concern.
LEMMA LeavingKeeps ==
  ASSUME BookTyped, LeaveTill \/ LeaveProfile \/ LeavePickup
  PROVE  /\ edit' \in [Parts -> Edits] /\ UNCHANGED <<book, rows, listed, load, mixed>>
         /\ till' \in [open: BOOLEAN, chosen: 0 .. rows]
         /\ \A p \in Parts : /\ edit'[p].stage = edit[p].stage /\ edit'[p].verb = edit[p].verb
                             /\ edit'[p].id = edit[p].id /\ edit'[p].seen = edit[p].seen
<1>1. \A p \in Parts : edit[p] \in Edits
  BY DEF BookTyped
<1>2. UNCHANGED <<book, rows, listed, load, mixed>> /\ Edits' = Edits
  BY DEF LeaveTill, LeaveProfile, LeavePickup, Edits
<1>3. till' \in [open: BOOLEAN, chosen: 0 .. rows]
  <2>1. NoTill \in [open: BOOLEAN, chosen: 0 .. rows]
    BY DEF BookTyped, NoTill
  <2> QED
    BY <2>1 DEF LeaveTill, LeaveProfile, LeavePickup, BookTyped
<1>4. \A p \in Parts : /\ edit'[p] \in Edits
                       /\ edit'[p].stage = edit[p].stage /\ edit'[p].verb = edit[p].verb
                       /\ edit'[p].id = edit[p].id /\ edit'[p].seen = edit[p].seen
  <2>1. \A p \in Parts : /\ [edit[p] EXCEPT !.mine = FALSE] \in Edits
                         /\ [edit[p] EXCEPT !.mine = FALSE].stage = edit[p].stage
                         /\ [edit[p] EXCEPT !.mine = FALSE].verb = edit[p].verb
                         /\ [edit[p] EXCEPT !.mine = FALSE].id = edit[p].id
                         /\ [edit[p] EXCEPT !.mine = FALSE].seen = edit[p].seen
    BY <1>1 DEF Edits
  <2>2. \A p \in Parts : edit'[p] \in {edit[p], [edit[p] EXCEPT !.mine = FALSE]}
    <3>1. CASE LeaveTill
      BY <3>1 DEF LeaveTill, BookTyped, Parts
    <3>2. CASE LeaveProfile
      BY <3>2 DEF LeaveProfile, BookTyped
    <3>3. CASE LeavePickup
      BY <3>3 DEF LeavePickup, BookTyped
    <3> QED
      BY <3>1, <3>2, <3>3
  <2> QED
    BY <1>1, <2>1, <2>2
<1>5. edit' \in [Parts -> Edits]
  <2>1. edit' = [p \in Parts |-> edit'[p]]
    BY DEF LeaveTill, LeaveProfile, LeavePickup, BookTyped
  <2> QED
    BY <1>4, <2>1
<1> QED
  BY <1>2, <1>3, <1>4, <1>5

LEMMA FreedEdit ==
  ASSUME BookTyped, NEW s \in Parts, edit' = [edit EXCEPT ![s] = NoEdit], UNCHANGED rows
  PROVE  /\ edit' \in [Parts -> Edits] /\ edit'[s].stage = "idle"
         /\ \A p \in Parts \ {s} : edit'[p] = edit[p]
         /\ Edits' = Edits
         /\ Unanswered \ {edit[s].id} \subseteq Unanswered'
         /\ edit[s].stage # "done" => Unanswered \subseteq Unanswered'
<1>1. NoEdit \in Edits /\ NoEdit.stage = "idle"
  BY DEF NoEdit, Edits, BookTyped
<1>2. edit' \in [Parts -> Edits] /\ edit'[s].stage = "idle" /\ \A p \in Parts \ {s} : edit'[p] = edit[p]
  BY <1>1 DEF BookTyped
<1> QED
  BY <1>2 DEF Edits, Unanswered


LEMMA LoadStep ==
  ASSUME BookInvariant, BeginLoad \/ ServeLoad \/ LoadShown \/ BookFails
  PROVE  BookInvariant'
<1> USE DEF BookInvariant
<1>0. UNCHANGED <<book, rows, edit, till>>
  BY DEF BeginLoad, ServeLoad, LoadShown, BookFails
<1>1. <<>> \in Seq(1 .. rows) /\ Once(<<>>)
  BY DEF Once
<1>2. listed' \in [known: BOOLEAN, failed: BOOLEAN, rows: Seq(1 .. rows)]
  <2>1. CASE BeginLoad \/ ServeLoad
    BY <2>1 DEF BeginLoad, ServeLoad, BookTyped
  <2>2. CASE LoadShown
    BY <2>2 DEF LoadShown, Shows, BookTyped
  <2>3. CASE BookFails
    BY <2>3 DEF BookFails, BookTyped
  <2> QED
    BY <2>1, <2>2, <2>3
<1>3. load' \in [stage: {"idle", "sent", "served"}, rows: Seq(1 .. rows)] /\ Once(load'.rows)
  <2>1. CASE BeginLoad
    BY <1>1, <2>1 DEF BeginLoad
  <2>2. CASE ServeLoad
    BY <2>2 DEF ServeLoad, BookTyped
  <2>3. CASE LoadShown \/ BookFails
    <3>1. load' = NoLoad
      BY <2>3 DEF LoadShown, BookFails
    <3>2. NoLoad.rows = <<>>
      BY DEF NoLoad
    <3>3. NoLoad \in [stage: {"idle", "sent", "served"}, rows: Seq(1 .. rows)]
      BY <1>1 DEF NoLoad
    <3> QED
      BY <1>1, <3>1, <3>2, <3>3
  <2> QED
    BY <2>1, <2>2, <2>3
<1>4. mixed' \in BOOLEAN /\ (listed.known => listed'.known)
  <2>1. CASE LoadShown
    BY <2>1 DEF LoadShown, Shows
  <2>2. CASE BeginLoad \/ ServeLoad \/ BookFails
    BY <2>2 DEF BeginLoad, ServeLoad, BookFails, BookTyped
  <2> QED
    BY <2>1, <2>2
<1>5. BookTyped'
  BY <1>0, <1>2, <1>3, <1>4 DEF BookTyped, Edits, Once
<1>6. EditsAreServed'
  BY <1>0, <1>4 DEF EditsAreServed
<1>7. ListAgrees'
  <2>1. CASE BeginLoad \/ ServeLoad
    <3>1. load'.stage # "idle"
      BY <2>1 DEF BeginLoad, ServeLoad
    <3> QED
      BY <3>1 DEF ListAgrees
  <2>2. CASE LoadShown
    <3>1. listed'.rows = load.rows /\ Once(load.rows)
      BY <2>2 DEF LoadShown, Shows, BookTyped
    <3>2. ~mixed' => Apart(load.rows, book) \subseteq Unanswered
      BY <2>2 DEF LoadShown
    <3> QED
      BY <1>0, <3>1, <3>2 DEF ListAgrees, Apart, IdsOf, Unanswered, Once
  <2>3. CASE BookFails
    <3>1. listed'.failed
      BY <2>3 DEF BookFails, BookTyped
    <3> QED
      BY <3>1 DEF ListAgrees
  <2> QED
    BY <2>1, <2>2, <2>3
<1> QED
  BY <1>5, <1>6, <1>7

LEMMA ScreenStep ==
  ASSUME BookInvariant,
         \/ OpenTill \/ LeaveTill \/ LeaveProfile \/ LeavePickup
         \/ \E id \in 1 .. MaxRows : SelectAddress(id)
         \/ UNCHANGED bookVars
  PROVE  BookInvariant'
<1> USE DEF BookInvariant
<1>1. /\ edit' \in [Parts -> Edits] /\ UNCHANGED <<book, rows, listed, load, mixed>>
      /\ till' \in [open: BOOLEAN, chosen: 0 .. rows]
      /\ \A p \in Parts : /\ edit'[p].stage = edit[p].stage /\ edit'[p].verb = edit[p].verb
                          /\ edit'[p].id = edit[p].id /\ edit'[p].seen = edit[p].seen
  <2>1. CASE OpenTill
    <3>1. till' \in [open: BOOLEAN, chosen: 0 .. rows]
      <4>1. NoTill \in [open: BOOLEAN, chosen: 0 .. rows]
        BY DEF BookTyped, NoTill
      <4> QED
        BY <2>1, <4>1 DEF OpenTill
    <3> QED
      BY <2>1, <3>1 DEF OpenTill, BookTyped
  <2>2. CASE LeaveTill \/ LeaveProfile \/ LeavePickup
    BY <2>2, LeavingKeeps
  <2>3. ASSUME NEW id \in 1 .. MaxRows, SelectAddress(id)
        PROVE  /\ UNCHANGED <<book, rows, listed, load, mixed, edit>>
               /\ till' \in [open: BOOLEAN, chosen: 0 .. rows]
    <3>1. IdsOf(listed.rows) \subseteq 1 .. rows /\ rows \in Nat
      BY ListedIds DEF BookTyped
    <3>2. id \in 0 .. rows
      BY <2>3, <3>1 DEF SelectAddress
    <3> QED
      BY <2>3, <3>2 DEF SelectAddress, BookTyped
  <2>4. CASE UNCHANGED bookVars
    BY <2>4 DEF bookVars, BookTyped
  <2>5. CASE \E id \in 1 .. MaxRows : SelectAddress(id)
    <3>1. /\ UNCHANGED <<book, rows, listed, load, mixed, edit>>
          /\ till' \in [open: BOOLEAN, chosen: 0 .. rows]
      BY <2>3, <2>5
    <3> QED
      BY <3>1 DEF BookTyped
  <2> QED
    BY <2>1, <2>2, <2>4, <2>5
<1>2. BookTyped'
  BY <1>1 DEF BookTyped, Edits, Once
<1>3. EditsAreServed'
  <2>1. {"add", "remove", "pickup"} \subseteq Parts
    BY DEF Parts
  <2> QED
    BY <1>1, <2>1 DEF EditsAreServed
<1>4. Unanswered' = Unanswered
  BY <1>1 DEF Unanswered
<1> QED
  BY <1>1, <1>2, <1>3, <1>4 DEF ListAgrees, Apart, IdsOf, Once

LEMMA AskStep ==
  ASSUME BookInvariant,
         \/ SaveAddress \/ PickupSaves \/ \E id \in 1 .. MaxRows : RemoveAddress(id)
         \/ \E verb \in {"create", "remove"}, id \in 0 .. MaxRows : ProfileChanges(verb, id)
  PROVE  BookInvariant'
<1> USE DEF BookInvariant
<1>1. PICK s \in Parts, verb \in {"create", "remove"}, id \in 0 .. rows :
        /\ AskChange(s, verb, id)
        /\ s = "add" => verb = "create" /\ listed.known
        /\ s = "remove" => verb = "remove" /\ listed.known
        /\ s = "pickup" => verb = "create"
  BY WhoAsks
<1>2. /\ edit' \in [Parts -> Edits] /\ UNCHANGED <<book, rows, listed, load, till, mixed>>
      /\ edit[s].stage = "idle" /\ edit'[s].stage = "sent" /\ edit'[s].verb = verb
      /\ \A p \in Parts \ {s} : edit'[p] = edit[p]
  BY <1>1, AskedEdit
<1>3. BookTyped'
  BY <1>2 DEF BookTyped, Edits, Once
<1>4. EditsAreServed'
  BY <1>1, <1>2 DEF EditsAreServed, Parts
<1>5. Unanswered' = Unanswered
  BY <1>2 DEF Unanswered
<1> QED
  BY <1>2, <1>3, <1>4, <1>5 DEF ListAgrees, Apart, IdsOf, Once

LEMMA AddressSavedStep == BookInvariant /\ AddressSaved => BookInvariant'
<1> SUFFICES ASSUME BookInvariant, AddressSaved PROVE BookInvariant'
  OBVIOUS
<1> USE DEF BookInvariant
<1> DEFINE new == edit["add"].id
<1>1. /\ "add" \in Parts /\ UNCHANGED <<book, rows, load>> /\ edit["add"].stage = "done"
      /\ listed' = [known |-> TRUE, failed |-> FALSE, rows |-> Append(listed.rows, new)]
      /\ edit' = [edit EXCEPT !["add"] = NoEdit]
      /\ till' \in {till, [till EXCEPT !.chosen = new]}
      /\ mixed' = (mixed \/ listed.failed \/ new \in IdsOf(listed.rows) \/ new \notin IdsOf(book))
  BY DEF AddressSaved, Shows, Parts
<1>2. /\ edit' \in [Parts -> Edits] /\ edit'["add"].stage = "idle"
      /\ \A p \in Parts \ {"add"} : edit'[p] = edit[p]
      /\ Edits' = Edits /\ Unanswered \ {new} \subseteq Unanswered'
  BY <1>1, FreedEdit
<1>3. new \in 1 .. rows
  <2>1. new \in 0 .. rows /\ rows \in Nat
    BY <1>1 DEF BookTyped, Edits
  <2>2. new # 0
    BY <1>1 DEF EditsAreServed
  <2> QED
    BY <2>1, <2>2
<1>4. listed.known
  BY <1>1 DEF EditsAreServed
<1>5. /\ Append(listed.rows, new) \in Seq(1 .. rows)
      /\ IdsOf(Append(listed.rows, new)) = IdsOf(listed.rows) \union {new}
      /\ Once(listed.rows) /\ new \notin IdsOf(listed.rows) => Once(Append(listed.rows, new))
  <2>1. listed.rows \in Seq(1 .. rows)
    BY DEF BookTyped
  <2> QED
    BY <1>3, <2>1, IdsAppended
<1> HIDE DEF new
<1>6. BookTyped'
  <2>1. listed' \in [known: BOOLEAN, failed: BOOLEAN, rows: Seq(1 .. rows)]
    BY <1>1, <1>5
  <2>2. till' \in [open: BOOLEAN, chosen: 0 .. rows]
    <3>1. new \in 0 .. rows
      BY <1>3 DEF BookTyped
    <3> QED
      BY <1>1, <3>1 DEF BookTyped
  <2>3. mixed' \in BOOLEAN
    BY <1>1
  <2> QED
    BY <1>1, <1>2, <2>1, <2>2, <2>3 DEF BookTyped, Once
<1>7. EditsAreServed'
  BY <1>1, <1>2, <1>4 DEF EditsAreServed, Parts, IdsOf
<1>8. ListAgrees'
  <2> SUFFICES ASSUME ~mixed', load'.stage = "idle"
               PROVE  Apart(listed'.rows, book') \subseteq Unanswered' /\ Once(listed'.rows)
    BY <1>1 DEF ListAgrees, Apart, IdsOf, Once
  <2>1. ~mixed /\ ~listed.failed /\ new \notin IdsOf(listed.rows) /\ new \in IdsOf(book)
        /\ load.stage = "idle"
    BY <1>1
  <2>2. Apart(listed.rows, book) \subseteq Unanswered /\ Once(listed.rows)
    BY <1>4, <2>1 DEF ListAgrees
  <2>3. listed'.rows = Append(listed.rows, new) /\ book' = book
    BY <1>1
  <2> QED
    BY <1>2, <1>5, <2>1, <2>2, <2>3 DEF Apart
<1> QED
  BY <1>6, <1>7, <1>8

LEMMA AddressRemovedStep == BookInvariant /\ AddressRemoved => BookInvariant'
<1> SUFFICES ASSUME BookInvariant, AddressRemoved PROVE BookInvariant'
  OBVIOUS
<1> USE DEF BookInvariant
<1> DEFINE id == edit["remove"].id
           asked == edit["remove"].seen
<1>1. /\ "remove" \in Parts /\ UNCHANGED <<book, rows, load>> /\ edit["remove"].stage = "done"
      /\ listed' = [known |-> TRUE, failed |-> FALSE, rows |-> Without(asked, id)]
      /\ edit' = [edit EXCEPT !["remove"] = NoEdit]
      /\ mixed' = (mixed \/ listed.failed \/ asked # listed.rows)
  BY DEF AddressRemoved, Shows, Parts, Remaining
<1>2. /\ edit' \in [Parts -> Edits] /\ edit'["remove"].stage = "idle"
      /\ \A p \in Parts \ {"remove"} : edit'[p] = edit[p]
      /\ Edits' = Edits /\ Unanswered \ {id} \subseteq Unanswered'
  BY <1>1, FreedEdit
<1>3. listed.known /\ id \notin IdsOf(book)
  BY <1>1 DEF EditsAreServed
<1>4. rows \in Nat /\ asked \in Seq(1 .. rows)
  BY <1>1 DEF BookTyped, Edits
<1>5. /\ Without(asked, id) \in Seq(1 .. rows)
      /\ IdsOf(Without(asked, id)) = IdsOf(asked) \ {id}
      /\ Once(asked) => Once(Without(asked, id))
  BY <1>4, WithoutFilters
<1>6. till' \in [open: BOOLEAN, chosen: 0 .. rows]
  <2>1. CASE edit["remove"].mine /\ edit["remove"].selected
    <3>1. PICK chosen \in Preferred(Without(asked, id)) : till' = [till EXCEPT !.chosen = chosen]
      BY <2>1 DEF AddressRemoved, Remaining
    <3>2. IdsOf(Without(asked, id)) \subseteq 1 .. rows
      BY <1>5, ListedIds
    <3>3. chosen \in 0 .. rows
      BY <1>4, <3>1, <3>2 DEF Preferred
    <3> QED
      BY <3>1, <3>3 DEF BookTyped
  <2>2. CASE ~(edit["remove"].mine /\ edit["remove"].selected)
    BY <2>2 DEF AddressRemoved, BookTyped
  <2> QED
    BY <2>1, <2>2
<1> HIDE DEF id, asked
<1>7. BookTyped'
  <2>1. listed' \in [known: BOOLEAN, failed: BOOLEAN, rows: Seq(1 .. rows)]
    BY <1>1, <1>5
  <2>2. mixed' \in BOOLEAN
    BY <1>1
  <2> QED
    BY <1>1, <1>2, <1>6, <2>1, <2>2 DEF BookTyped, Once
<1>8. EditsAreServed'
  BY <1>1, <1>2, <1>3 DEF EditsAreServed, Parts, IdsOf
<1>9. ListAgrees'
  <2> SUFFICES ASSUME ~mixed', load'.stage = "idle"
               PROVE  Apart(listed'.rows, book') \subseteq Unanswered' /\ Once(listed'.rows)
    BY <1>1 DEF ListAgrees, Apart, IdsOf, Once
  <2>1. ~mixed /\ ~listed.failed /\ asked = listed.rows /\ load.stage = "idle"
    BY <1>1
  <2>2. Apart(listed.rows, book) \subseteq Unanswered /\ Once(listed.rows)
    BY <1>3, <2>1 DEF ListAgrees
  <2>3. listed'.rows = Without(asked, id) /\ book' = book
    BY <1>1
  <2> QED
    BY <1>2, <1>3, <1>5, <2>1, <2>2, <2>3 DEF Apart
<1> QED
  BY <1>7, <1>8, <1>9

LEMMA ProfileChangedStep == BookInvariant /\ ProfileChanged => BookInvariant'
<1> SUFFICES ASSUME BookInvariant, ProfileChanged PROVE BookInvariant'
  OBVIOUS
<1> USE DEF BookInvariant
<1>1. /\ "profile" \in Parts /\ UNCHANGED <<book, rows, listed, till>>
      /\ edit' = [edit EXCEPT !["profile"] = NoEdit]
      /\ \/ load' = [stage |-> "sent", rows |-> <<>>] /\ UNCHANGED mixed
         \/ UNCHANGED load /\ mixed'
  BY DEF ProfileChanged, Reloaded, Parts
<1>2. /\ edit' \in [Parts -> Edits] /\ edit'["profile"].stage = "idle"
      /\ \A p \in Parts \ {"profile"} : edit'[p] = edit[p]
      /\ Edits' = Edits
  BY <1>1, FreedEdit
<1>3. load' \in [stage: {"idle", "sent", "served"}, rows: Seq(1 .. rows)] /\ Once(load'.rows)
      /\ mixed' \in BOOLEAN
  <2>1. <<>> \in Seq(1 .. rows) /\ Once(<<>>)
    BY DEF Once
  <2>2. mixed' \in BOOLEAN
    BY DEF ProfileChanged, BookTyped
  <2>3. CASE load' = [stage |-> "sent", rows |-> <<>>]
    BY <2>1, <2>2, <2>3
  <2>4. CASE UNCHANGED load
    BY <2>2, <2>4 DEF BookTyped
  <2> QED
    BY <1>1, <2>3, <2>4
<1>4. BookTyped'
  BY <1>1, <1>2, <1>3 DEF BookTyped, Once
<1>5. EditsAreServed'
  BY <1>1, <1>2 DEF EditsAreServed, Parts, IdsOf
<1>6. ListAgrees'
  BY <1>1 DEF ListAgrees
<1> QED
  BY <1>4, <1>5, <1>6

LEMMA PickupSavedStep == BookInvariant /\ PickupSaved => BookInvariant'
<1> SUFFICES ASSUME BookInvariant, PickupSaved PROVE BookInvariant'
  OBVIOUS
<1> USE DEF BookInvariant
<1> DEFINE new == edit["pickup"].id
           asked == edit["pickup"].seen
<1>1. /\ "pickup" \in Parts /\ UNCHANGED <<book, rows, load, till>>
      /\ edit["pickup"].stage = "done"
      /\ edit' = [edit EXCEPT !["pickup"] = NoEdit]
  BY DEF PickupSaved, Parts
<1>2. \/ /\ listed' = [known |-> TRUE, failed |-> FALSE, rows |-> Append(asked, new)]
         /\ mixed' = (mixed \/ listed.failed \/ ~listed.known \/ new \notin IdsOf(book)
                            \/ asked # listed.rows)
      \/ UNCHANGED listed /\ mixed' = TRUE
  BY DEF PickupSaved, Shows
<1>3. /\ edit' \in [Parts -> Edits] /\ edit'["pickup"].stage = "idle"
      /\ \A p \in Parts \ {"pickup"} : edit'[p] = edit[p]
      /\ Edits' = Edits /\ Unanswered \ {new} \subseteq Unanswered'
  BY <1>1, FreedEdit
<1>4. new \in 1 .. rows /\ new \notin IdsOf(asked)
  <2>1. new \in 0 .. rows /\ rows \in Nat
    BY <1>1 DEF BookTyped, Edits
  <2>2. new # 0 /\ new \notin IdsOf(asked)
    BY <1>1 DEF EditsAreServed
  <2> QED
    BY <2>1, <2>2
<1>5. /\ Append(asked, new) \in Seq(1 .. rows)
      /\ IdsOf(Append(asked, new)) = IdsOf(asked) \union {new}
      /\ Once(asked) => Once(Append(asked, new))
  <2>1. asked \in Seq(1 .. rows)
    BY <1>1 DEF BookTyped, Edits
  <2>2. new \in 1 .. rows /\ new \notin IdsOf(asked)
    BY <1>4
  <2> HIDE DEF new, asked
  <2>3. /\ Append(asked, new) \in Seq(1 .. rows)
        /\ IdsOf(Append(asked, new)) = IdsOf(asked) \union {new}
        /\ Once(asked) /\ new \notin IdsOf(asked) => Once(Append(asked, new))
    BY <2>1, <2>2, IdsAppended
  <2> QED
    BY <2>2, <2>3
<1> HIDE DEF new, asked
<1>6. BookTyped'
  <2>1. listed' \in [known: BOOLEAN, failed: BOOLEAN, rows: Seq(1 .. rows)]
    <3>1. CASE UNCHANGED listed
      BY <3>1 DEF BookTyped
    <3>2. CASE listed' = [known |-> TRUE, failed |-> FALSE, rows |-> Append(asked, new)]
      BY <1>5, <3>2
    <3> QED
      BY <1>2, <3>1, <3>2
  <2>2. mixed' \in BOOLEAN
    BY <1>2
  <2> QED
    BY <1>1, <1>3, <2>1, <2>2 DEF BookTyped, Once
<1>7. listed.known => listed'.known
  BY <1>2
<1>8. EditsAreServed'
  BY <1>1, <1>3, <1>7 DEF EditsAreServed, Parts, IdsOf
<1>9. ListAgrees'
  <2> SUFFICES ASSUME ~mixed', load'.stage = "idle"
               PROVE  Apart(listed'.rows, book') \subseteq Unanswered' /\ Once(listed'.rows)
    BY <1>1 DEF ListAgrees, Apart, IdsOf, Once
  <2>1. /\ ~mixed /\ ~listed.failed /\ listed.known /\ asked = listed.rows /\ load.stage = "idle"
        /\ new \in IdsOf(book) /\ listed'.rows = Append(asked, new) /\ book' = book
    <3>1. /\ listed' = [known |-> TRUE, failed |-> FALSE, rows |-> Append(asked, new)]
          /\ mixed' = (mixed \/ listed.failed \/ ~listed.known \/ new \notin IdsOf(book)
                             \/ asked # listed.rows)
      BY <1>2
    <3>2. listed'.rows = Append(asked, new)
      BY <3>1
    <3>3. ~(mixed \/ listed.failed \/ ~listed.known \/ new \notin IdsOf(book) \/ asked # listed.rows)
      BY <3>1
    <3> QED
      BY <1>1, <3>2, <3>3
  <2>2. Apart(listed.rows, book) \subseteq Unanswered /\ Once(listed.rows)
    BY <2>1 DEF ListAgrees
  <2> QED
    BY <1>3, <1>5, <2>1, <2>2 DEF Apart
<1> QED
  BY <1>6, <1>8, <1>9

\* A change the API has made is the one thing more that is not answered.
LEMMA ServedEdit ==
  ASSUME BookTyped, NEW s \in Parts, NEW id \in 0 .. rows', rows' \in {rows, rows + 1},
         edit[s].stage = "sent", Served(s, id)
  PROVE  /\ edit' \in [Parts -> Edits'] /\ edit'[s].stage = "done" /\ edit'[s].id = id
         /\ edit'[s].verb = edit[s].verb /\ edit'[s].seen = edit[s].seen
         /\ \A p \in Parts \ {s} : edit'[p] = edit[p]
         /\ Unanswered' = Unanswered \union {id}
<1>1. edit' = [edit EXCEPT ![s] = [edit[s] EXCEPT !.stage = "done", !.id = id]]
  BY DEF Served, BookTyped
<1>2. rows \in Nat /\ \A list \in Seq(1 .. rows) : list \in Seq(1 .. rows')
  BY WiderSeq DEF BookTyped
<1>3. \A e \in Edits : e \in Edits'
  BY <1>2 DEF Edits
<1>4. edit[s] \in Edits'
  BY <1>3 DEF BookTyped
<1> DEFINE e == [edit[s] EXCEPT !.stage = "done", !.id = id]
<1>5. /\ e \in Edits' /\ e.stage = "done" /\ e.id = id
      /\ e.verb = edit[s].verb /\ e.seen = edit[s].seen
  BY <1>4 DEF Edits
<1> HIDE DEF e
<1>6. /\ edit' \in [Parts -> Edits'] /\ edit'[s] = e
      /\ \A p \in Parts \ {s} : edit'[p] = edit[p]
  BY <1>1, <1>3, <1>5 DEF BookTyped, e
<1>7. Unanswered' = Unanswered \union {id}
  <2>1. \A p \in Parts : edit'[p].stage = "done" <=> p = s \/ edit[p].stage = "done"
    BY <1>5, <1>6
  <2>2. \A p \in Parts : edit[p].stage = "done" => p # s
    OBVIOUS
  <2> QED
    BY <1>5, <1>6, <2>1, <2>2 DEF Unanswered
<1> QED
  BY <1>5, <1>6, <1>7

LEMMA ServeCreateStep ==
  ASSUME BookInvariant, NEW s \in Parts, ServeCreate(s)
  PROVE  BookInvariant'
<1> USE DEF BookInvariant
<1>0. rows \in Nat /\ book \in Seq(1 .. rows) /\ listed.rows \in Seq(1 .. rows)
      /\ load.rows \in Seq(1 .. rows) /\ edit[s].seen \in Seq(1 .. rows)
  BY DEF BookTyped, Edits
<1>1. /\ rows' = rows + 1 /\ book' = Append(book, rows + 1) /\ Served(s, rows + 1)
      /\ edit[s].stage = "sent" /\ edit[s].verb = "create"
      /\ UNCHANGED <<listed, load, till, mixed>>
  BY DEF ServeCreate
<1>2. /\ edit' \in [Parts -> Edits'] /\ edit'[s].stage = "done" /\ edit'[s].id = rows + 1
      /\ edit'[s].verb = "create" /\ edit'[s].seen = edit[s].seen
      /\ \A p \in Parts \ {s} : edit'[p] = edit[p]
      /\ Unanswered' = Unanswered \union {rows + 1}
  <2>1. rows + 1 \in 0 .. rows'
    BY <1>0, <1>1
  <2> QED
    BY <1>1, <2>1, ServedEdit
<1>3. \A list \in Seq(1 .. rows) :
        list \in Seq(1 .. rows') /\ IdsOf(list) \subseteq 1 .. rows /\ rows + 1 \notin IdsOf(list)
  <2> SUFFICES ASSUME NEW list \in Seq(1 .. rows)
               PROVE  list \in Seq(1 .. rows') /\ IdsOf(list) \subseteq 1 .. rows
    BY <1>0
  <2> QED
    BY <1>0, <1>1, WiderSeq, ListedIds
<1>4. /\ book' \in Seq(1 .. rows') /\ IdsOf(book') = IdsOf(book) \union {rows + 1}
      /\ Once(book')
  <2>1. book \in Seq(1 .. rows') /\ rows + 1 \in 1 .. rows' /\ rows + 1 \notin IdsOf(book)
    BY <1>0, <1>1, <1>3
  <2>2. Once(book)
    BY DEF BookTyped
  <2> QED
    BY <1>1, <2>1, <2>2, IdsAppended
<1>5. BookTyped'
  <2>1. rows' \in Nat /\ 0 .. rows \subseteq 0 .. rows'
    BY <1>0, <1>1
  <2>2. listed' \in [known: BOOLEAN, failed: BOOLEAN, rows: Seq(1 .. rows')]
    BY <1>0, <1>1, <1>3 DEF BookTyped
  <2>3. load' \in [stage: {"idle", "sent", "served"}, rows: Seq(1 .. rows')] /\ Once(load'.rows)
    BY <1>0, <1>1, <1>3 DEF BookTyped
  <2>4. till' \in [open: BOOLEAN, chosen: 0 .. rows']
    BY <1>1, <2>1 DEF BookTyped
  <2> QED
    BY <1>1, <1>2, <1>4, <2>1, <2>2, <2>3, <2>4 DEF BookTyped, Once
<1>6. EditsAreServed'
  <2>1. \A p \in Parts : edit'[p].stage = "done" => edit'[p].id # 0
    <3> SUFFICES ASSUME NEW p \in Parts, edit'[p].stage = "done"
                 PROVE  edit'[p].id # 0
      OBVIOUS
    <3>1. CASE p = s
      BY <1>0, <1>2, <3>1
    <3>2. CASE p # s
      BY <1>2, <3>2 DEF EditsAreServed
    <3> QED
      BY <3>1, <3>2
  <2>2. ASSUME NEW p \in Parts, edit'[p].stage = "done", edit'[p].verb = "remove"
        PROVE  edit'[p].id \notin IdsOf(book')
    <3>1. p # s /\ edit'[p] = edit[p] /\ edit[p].id \in 0 .. rows
      BY <1>2, <2>2 DEF BookTyped, Edits
    <3>2. edit[p].id \notin IdsOf(book) /\ edit[p].id # rows + 1
      BY <1>0, <2>2, <3>1 DEF EditsAreServed
    <3> QED
      BY <1>4, <3>1, <3>2
  <2>3. edit'["pickup"].stage = "done" => edit'["pickup"].id \notin IdsOf(edit'["pickup"].seen)
    <3>1. CASE s = "pickup"
      BY <1>0, <1>2, <1>3, <3>1
    <3>2. CASE s # "pickup"
      BY <1>2, <3>2 DEF EditsAreServed, Parts
    <3> QED
      BY <3>1, <3>2
  <2>4. \A p \in Parts : edit'[p].stage # "idle" =>
                           edit[p].stage # "idle" /\ edit'[p].verb = edit[p].verb
    BY <1>1, <1>2
  <2>5. {"add", "remove", "pickup"} \subseteq Parts
    BY DEF Parts
  <2>6. /\ edit'["add"].stage # "idle" => edit'["add"].verb = "create" /\ listed'.known
        /\ edit'["remove"].stage # "idle" => edit'["remove"].verb = "remove" /\ listed'.known
        /\ edit'["pickup"].stage # "idle" => edit'["pickup"].verb = "create"
    BY <1>1, <2>4, <2>5 DEF EditsAreServed
  <2> QED
    BY <2>1, <2>2, <2>3, <2>6 DEF EditsAreServed, IdsOf
<1>7. ListAgrees'
  <2>1. Apart(listed'.rows, book') \subseteq Apart(listed.rows, book) \union {rows + 1}
    BY <1>1, <1>4 DEF Apart
  <2> QED
    BY <1>1, <1>2, <2>1 DEF ListAgrees, Apart, IdsOf, Once
<1> QED
  BY <1>5, <1>6, <1>7

LEMMA ServeRemoveStep ==
  ASSUME BookInvariant, NEW s \in Parts, ServeRemove(s)
  PROVE  BookInvariant'
<1> USE DEF BookInvariant
<1> DEFINE id == edit[s].id
<1>0. rows \in Nat /\ book \in Seq(1 .. rows)
  BY DEF BookTyped
<1>1. /\ book' = Without(book, id) /\ Served(s, id) /\ id \in IdsOf(book)
      /\ edit[s].stage = "sent" /\ edit[s].verb = "remove"
      /\ UNCHANGED <<rows, listed, load, till, mixed>>
  BY DEF ServeRemove
<1>2. id \in 1 .. rows /\ id \in 0 .. rows'
  <2>1. IdsOf(book) \subseteq 1 .. rows
    BY <1>0, ListedIds
  <2> QED
    BY <1>0, <1>1, <2>1
<1>3. /\ edit' \in [Parts -> Edits'] /\ edit'[s].stage = "done" /\ edit'[s].id = id
      /\ edit'[s].verb = "remove" /\ edit'[s].seen = edit[s].seen
      /\ \A p \in Parts \ {s} : edit'[p] = edit[p]
      /\ Unanswered' = Unanswered \union {id}
  BY <1>1, <1>2, ServedEdit
<1>4. /\ book' \in Seq(1 .. rows) /\ IdsOf(book') = IdsOf(book) \ {id} /\ Once(book')
  <2>1. Once(book)
    BY DEF BookTyped
  <2> QED
    BY <1>0, <1>1, <2>1, WithoutFilters
<1> HIDE DEF id
<1>5. BookTyped'
  BY <1>1, <1>3, <1>4 DEF BookTyped, Once
<1>6. EditsAreServed'
  <2>1. ASSUME NEW p \in Parts, edit'[p].stage = "done"
        PROVE  /\ edit'[p].id # 0
               /\ edit'[p].verb = "remove" => edit'[p].id \notin IdsOf(book')
    <3>1. CASE p = s
      BY <1>0, <1>2, <1>3, <1>4, <3>1
    <3>2. CASE p # s
      BY <1>3, <1>4, <2>1, <3>2 DEF EditsAreServed
    <3> QED
      BY <3>1, <3>2
  <2>2. \A p \in Parts : edit'[p].stage # "idle" =>
                           edit[p].stage # "idle" /\ edit'[p].verb = edit[p].verb
    BY <1>1, <1>3
  <2>3. {"add", "remove", "pickup"} \subseteq Parts
    BY DEF Parts
  <2>4. /\ edit'["add"].stage # "idle" => edit'["add"].verb = "create" /\ listed'.known
        /\ edit'["remove"].stage # "idle" => edit'["remove"].verb = "remove" /\ listed'.known
        /\ edit'["pickup"].stage # "idle" => edit'["pickup"].verb = "create"
    BY <1>1, <2>2, <2>3 DEF EditsAreServed
  <2>5. s # "pickup"
    BY <1>1 DEF EditsAreServed
  <2>6. edit'["pickup"].stage = "done" => edit'["pickup"].id \notin IdsOf(edit'["pickup"].seen)
    BY <1>3, <2>3, <2>5 DEF EditsAreServed
  <2> QED
    BY <2>1, <2>4, <2>6 DEF EditsAreServed, IdsOf
<1>7. ListAgrees'
  <2>1. Apart(listed'.rows, book') \subseteq Apart(listed.rows, book) \union {id}
    BY <1>1, <1>4 DEF Apart
  <2> QED
    BY <1>1, <1>3, <2>1 DEF ListAgrees, Apart, IdsOf, Once
<1> QED
  BY <1>5, <1>6, <1>7

LEMMA EditFailsStep ==
  ASSUME BookInvariant, NEW s \in Parts, EditFails(s)
  PROVE  BookInvariant'
<1> USE DEF BookInvariant
<1>1. /\ UNCHANGED <<book, rows, listed, load, till>>
      /\ edit' = [edit EXCEPT ![s] = NoEdit]
      /\ mixed' = mixed \/ mixed' = (mixed \/ edit[s].stage = "done")
      /\ ~mixed' => ~mixed /\ edit[s].stage # "done"
  BY DEF EditFails, BookTyped
<1>2. /\ edit' \in [Parts -> Edits] /\ edit'[s].stage = "idle"
      /\ \A p \in Parts \ {s} : edit'[p] = edit[p]
      /\ Edits' = Edits
      /\ edit[s].stage # "done" => Unanswered \subseteq Unanswered'
  BY <1>1, FreedEdit
<1>3. mixed' \in BOOLEAN
  BY <1>1 DEF BookTyped
<1>4. BookTyped'
  BY <1>1, <1>2, <1>3 DEF BookTyped, Once
<1>5. EditsAreServed'
  BY <1>1, <1>2 DEF EditsAreServed, Parts, IdsOf
<1>6. ListAgrees'
  BY <1>1, <1>2 DEF ListAgrees, Apart, IdsOf, Once
<1> QED
  BY <1>4, <1>5, <1>6

LEMMA BookStep == BookInvariant /\ BookNext => BookInvariant'
<1> SUFFICES ASSUME BookInvariant, BookNext PROVE BookInvariant'
  OBVIOUS
<1>1. CASE BeginLoad \/ ServeLoad \/ LoadShown \/ BookFails
  BY <1>1, LoadStep
<1>2. CASE OpenTill \/ LeaveTill \/ LeaveProfile \/ LeavePickup
  BY <1>2, ScreenStep
<1>3. CASE AddressSaved
  BY <1>3, AddressSavedStep
<1>4. CASE AddressRemoved
  BY <1>4, AddressRemovedStep
<1>5. CASE ProfileChanged
  BY <1>5, ProfileChangedStep
<1>6. CASE PickupSaved
  BY <1>6, PickupSavedStep
<1>7. CASE \E id \in 1 .. MaxRows : SelectAddress(id)
  BY <1>7, ScreenStep
<1>8. CASE \/ SaveAddress \/ PickupSaves \/ \E id \in 1 .. MaxRows : RemoveAddress(id)
           \/ \E verb \in {"create", "remove"}, id \in 0 .. MaxRows : ProfileChanges(verb, id)
  BY <1>8, AskStep
<1>9. ASSUME NEW s \in Parts, ServeCreate(s) \/ ServeRemove(s) \/ EditFails(s)
      PROVE  BookInvariant'
  BY <1>9, ServeCreateStep, ServeRemoveStep, EditFailsStep
<1> QED
  BY <1>1, <1>2, <1>3, <1>4, <1>5, <1>6, <1>7, <1>8, <1>9 DEF BookNext

LEMMA BookStarts == BookInit => BookInvariant
<1> SUFFICES ASSUME BookInit PROVE BookInvariant
  OBVIOUS
<1> USE DEF BookInit
<1>1. book \in Seq(1 .. rows) /\ Once(book) /\ rows = 1
  <2>1. Len(book) = 1 /\ book[1] = 1 /\ book \in Seq(1 .. 1)
    OBVIOUS
  <2> QED
    BY <2>1 DEF Once
<1>2. <<>> \in Seq(1 .. rows) /\ Once(<<>>)
  BY DEF Once
<1>3. NoEdit \in Edits /\ NoEdit.stage = "idle"
  BY <1>1, <1>2 DEF NoEdit, Edits
<1>4. NoTill \in [open: BOOLEAN, chosen: 0 .. rows]
  BY <1>1 DEF NoTill
<1>5. NoLoad \in [stage: {"idle", "sent", "served"}, rows: Seq(1 .. rows)] /\ Once(NoLoad.rows)
  BY <1>2 DEF NoLoad
<1>6. BookTyped
  <2>1. listed \in [known: BOOLEAN, failed: BOOLEAN, rows: Seq(1 .. rows)]
    BY <1>2
  <2>2. edit \in [Parts -> Edits]
    BY <1>3
  <2>3. /\ load \in [stage: {"idle", "sent", "served"}, rows: Seq(1 .. rows)] /\ Once(load.rows)
        /\ till \in [open: BOOLEAN, chosen: 0 .. rows]
    BY <1>4, <1>5
  <2>4. rows \in Nat
    BY <1>1
  <2>5. mixed \in BOOLEAN
    OBVIOUS
  <2> HIDE DEF BookInit
  <2> QED
    BY <1>1, <2>1, <2>2, <2>3, <2>4, <2>5 DEF BookTyped
<1>7. \A s \in Parts : edit[s].stage = "idle"
  BY <1>3
<1>8. EditsAreServed
  BY <1>7 DEF EditsAreServed, Parts
<1> QED
  BY <1>6, <1>8 DEF BookInvariant, ListAgrees

LEMMA BookAgrees == BookInvariant => AddressesAgree
<1> SUFFICES ASSUME BookInvariant, ~mixed, listed.known, ~listed.failed, load.stage = "idle"
             PROVE  /\ Apart(listed.rows, book) \subseteq Unanswered
                    /\ Cardinality(IdsOf(listed.rows)) = Len(listed.rows)
                    /\ till.chosen \in IdsOf(book) \ Unanswered => Selected = till.chosen
  BY DEF AddressesAgree
<1>1. Apart(listed.rows, book) \subseteq Unanswered /\ Once(listed.rows)
  BY DEF BookInvariant, ListAgrees
<1>2. listed.rows \in Seq(1 .. rows)
  BY DEF BookInvariant, BookTyped
<1>3. Cardinality(IdsOf(listed.rows)) = Len(listed.rows)
  BY <1>1, <1>2, OnceCounts
<1>4. till.chosen \in IdsOf(book) \ Unanswered => Selected = till.chosen
  BY <1>1 DEF Apart, Selected
<1> QED
  BY <1>1, <1>3, <1>4

LEMMA BookInvariantHolds == BookSpec => []BookInvariant
<1>1. BookInvariant /\ UNCHANGED bookVars => BookInvariant'
  BY ScreenStep
<1> QED
  BY <1>1, BookStarts, BookStep, PTL DEF BookSpec

(***************************************************************************)
(* For any number of addresses, of changes on their way and of lost        *)
(* answers: between changes the list three screens of the phone share has  *)
(* the saved addresses, each once, but for those whose answer is still to  *)
(* be written into it, and an order goes to the address the customer chose *)
(* as long as it is saved, unless one of the named overlaps happened.      *)
(***************************************************************************)
THEOREM SavedAddressesAgree == BookSpec => []AddressesAgree
BY BookAgrees, BookInvariantHolds, PTL

-----------------------------------------------------------------------------
(***************************************************************************)
(* The notifications                                                       *)
(***************************************************************************)
\* A set of numbers has a least one.
LEMMA LeastNumber ==
  ASSUME NEW S \in SUBSET Nat, S # {}
  PROVE  \E n \in S : \A m \in S : n <= m
<1> DEFINE less == StrictSubsetOrdering(Nat)
           upTo == {0 .. n : n \in S}
<1>1. IsWellFoundedOn(less, FiniteSubsetsOf(Nat))
  BY FS_StrictSubsetOrderingWellFounded
<1>2. upTo \subseteq FiniteSubsetsOf(Nat) /\ upTo # {}
  <2>1. ASSUME NEW n \in S
        PROVE  0 .. n \in FiniteSubsetsOf(Nat)
    <3>1. IsFiniteSet(0 .. n)
      BY FS_Interval
    <3>2. 0 .. n \in SUBSET Nat
      OBVIOUS
    <3> QED
      BY <3>1, <3>2 DEF FiniteSubsetsOf
  <2> QED
    BY <2>1
<1> HIDE DEF less
<1>3. PICK least \in upTo : \A other \in upTo : ~(<<other, least>> \in less)
  <2> HIDE DEF upTo
  <2> QED
    BY <1>1, <1>2, WFMin
<1>4. PICK n \in S : least = 0 .. n
  OBVIOUS
<1>5. ASSUME NEW m \in S
      PROVE  n <= m
  <2> SUFFICES ASSUME m < n
               PROVE  FALSE
    OBVIOUS
  <2>1. 0 .. m \in SUBSET Nat /\ 0 .. n \in SUBSET Nat /\ 0 .. m \subseteq 0 .. n /\ 0 .. m # 0 .. n
    <3>1. m \in Nat /\ n \in Nat
      OBVIOUS
    <3>2. n \in 0 .. n /\ n \notin 0 .. m
      BY <3>1
    <3>3. 0 .. m \subseteq 0 .. n
      BY <3>1
    <3> QED
      BY <3>1, <3>2, <3>3
  <2>2. <<0 .. m, 0 .. n>> \in less
    BY <2>1 DEF less, StrictSubsetOrdering
  <2> QED
    BY <1>3, <1>4, <2>2
<1> QED
  BY <1>5

\* A list with something new at a place, and the rest in its order.
IsInserted(longer, list, at, new) ==
  /\ Len(longer) = Len(list) + 1 /\ longer[at] = new
  /\ \A i \in 1 .. Len(list) : IF i < at THEN longer[i] = list[i] ELSE longer[i + 1] = list[i]
  /\ \A i \in 1 .. Len(longer) :
       i # at => IF i < at THEN longer[i] = list[i] ELSE longer[i] = list[i - 1]

LEMMA InsertedList ==
  ASSUME NEW S, NEW list \in Seq(S), NEW at \in 1 .. Len(list) + 1, NEW new \in S
  PROVE  /\ InsertAt(list, at, new) \in Seq(S)
         /\ IsInserted(InsertAt(list, at, new), list, at, new)
<1> DEFINE above == SubSeq(list, 1, at - 1)
           below == SubSeq(list, at, Len(list))
           longer == (above \o <<new>>) \o below
<1>0. Len(list) \in Nat /\ at \in Nat /\ at >= 1 /\ at <= Len(list) + 1
  OBVIOUS
<1>1. /\ above \in Seq(S) /\ Len(above) = at - 1
      /\ \A i \in 1 .. at - 1 : above[i] = list[i]
  BY <1>0
<1>2. /\ below \in Seq(S) /\ Len(below) = Len(list) - at + 1
      /\ \A i \in 1 .. Len(list) - at + 1 : below[i] = list[at + i - 1]
  BY <1>0
<1> HIDE DEF above, below
<1> DEFINE start == above \o <<new>>
<1>3. /\ start \in Seq(S) /\ Len(start) = at
      /\ \A i \in 1 .. at - 1 : start[i] = list[i]
      /\ start[at] = new
  BY <1>0, <1>1
<1> HIDE DEF start
<1>4. /\ start \o below \in Seq(S) /\ Len(start \o below) = Len(list) + 1
      /\ \A i \in 1 .. at : (start \o below)[i] = start[i]
      /\ \A i \in at + 1 .. Len(list) + 1 : (start \o below)[i] = below[i - at]
  <2>1. start \o below \in Seq(S) /\ Len(start \o below) = Len(start) + Len(below)
    <3>1. start \in Seq(S) /\ below \in Seq(S)
      BY <1>2, <1>3
    <3>2. start \o below \in Seq(S)
      BY <3>1
    <3> QED
      BY <3>1, <3>2
  <2>2. Len(start \o below) = Len(list) + 1
    BY <1>0, <1>2, <1>3, <2>1
  <2>3. ASSUME NEW i \in 1 .. at
        PROVE  (start \o below)[i] = start[i]
    <3>1. i \in 1 .. Len(start) + Len(below) /\ i <= Len(start)
      BY <1>0, <1>2, <1>3
    <3> QED
      BY <1>2, <1>3, <3>1
  <2>4. ASSUME NEW i \in at + 1 .. Len(list) + 1
        PROVE  (start \o below)[i] = below[i - at]
    <3>1. i \in 1 .. Len(start) + Len(below) /\ ~(i <= Len(start)) /\ i - Len(start) = i - at
      BY <1>0, <1>2, <1>3
    <3> QED
      BY <1>2, <1>3, <3>1
  <2> QED
    BY <2>1, <2>2, <2>3, <2>4
<1>5. longer = start \o below
  BY DEF start
<1> HIDE DEF longer
<1>6. \A i \in 1 .. Len(list) : IF i < at THEN longer[i] = list[i] ELSE longer[i + 1] = list[i]
  <2> TAKE i \in 1 .. Len(list)
  <2>1. CASE i < at
    BY <1>0, <1>3, <1>4, <1>5, <2>1
  <2>2. CASE ~(i < at)
    <3>1. /\ i + 1 \in at + 1 .. Len(list) + 1 /\ i + 1 - at \in 1 .. Len(list) - at + 1
          /\ at + (i + 1 - at) - 1 = i
      BY <1>0, <2>2
    <3> QED
      BY <1>2, <1>4, <1>5, <2>2, <3>1
  <2> QED
    BY <2>1, <2>2
<1>7. \A i \in 1 .. Len(list) + 1 :
        i # at => IF i < at THEN longer[i] = list[i] ELSE longer[i] = list[i - 1]
  <2> SUFFICES ASSUME NEW i \in 1 .. Len(list) + 1, i # at
               PROVE  IF i < at THEN longer[i] = list[i] ELSE longer[i] = list[i - 1]
    OBVIOUS
  <2>1. CASE i < at
    <3>1. i \in 1 .. at - 1 /\ i \in 1 .. at
      BY <1>0, <2>1
    <3> QED
      BY <1>3, <1>4, <1>5, <2>1, <3>1
  <2>2. CASE ~(i < at)
    <3>1. /\ i \in at + 1 .. Len(list) + 1 /\ i - at \in 1 .. Len(list) - at + 1
          /\ at + (i - at) - 1 = i - 1
      BY <1>0, <2>2
    <3> QED
      BY <1>2, <1>4, <1>5, <2>2, <3>1
  <2> QED
    BY <2>1, <2>2
<1>8. longer = InsertAt(list, at, new)
  BY DEF longer, above, below, InsertAt
<1>9. longer[at] = new
  BY <1>0, <1>3, <1>4, <1>5
<1> QED
  BY <1>4, <1>5, <1>6, <1>7, <1>8, <1>9 DEF IsInserted

PageRows == [id: Nat, read: BOOLEAN]

InboxTyped ==
  /\ inbox \in Seq(Nat) /\ Once(inbox)
  /\ \A i \in DOMAIN inbox : inbox[i] \in 1 .. Len(inbox)
  /\ pages \in Seq(Seq(PageRows))
  /\ loading \in [stage: {"idle", "asked", "served"}, more: BOOLEAN,
                  pages: Seq(Seq(PageRows)), whole: SUBSET Nat]
  /\ walk \in [stage: {"idle", "list", "page", "open"}, offset: Nat, page: Seq(PageRows),
               live: BOOLEAN]

\* A row of notification id is above row k of page p.
HasAbove(list, id, p, k) ==
  \E q \in DOMAIN list : \E m \in DOMAIN list[q] :
    list[q][m].id = id /\ (q < p \/ (q = p /\ m < k))

Has(list, id) == \E q \in DOMAIN list : \E m \in DOMAIN list[q] : list[q][m].id = id

\* What pages read from the list `box', which may have grown since, tell of those
\* that were there at the first page, `all'.
NoGap(box, marked, list, all) ==
  /\ all \subseteq IdsOf(box)
  /\ \A p \in DOMAIN list : \A k \in DOMAIN list[p] :
       /\ list[p][k].id \in IdsOf(box)
       /\ list[p][k].read => list[p][k].id \in marked
       /\ \A i, j \in DOMAIN box :
            i < j /\ box[i] \in all /\ box[j] = list[p][k].id => HasAbove(list, box[i], p, k)
  /\ \A i \in DOMAIN box : i <= Len(list) * PageSize /\ box[i] \in all => Has(list, box[i])

\* Of what the walk has to mark, the unmarked is ahead of it.
WalkIsAhead ==
  /\ before \subseteq IdsOf(inbox)
  /\ \A i \in DOMAIN inbox : inbox[i] \in before \ seen =>
       /\ walk.stage = "list" => i > walk.offset
       /\ walk.stage = "page" =>
            \/ \E m \in Unread(walk.page) : walk.page[m].id = inbox[i]
            \/ Len(walk.page) = PageSize /\ i > walk.offset + PageSize

InboxInvariant ==
  /\ InboxTyped /\ WalkIsAhead
  /\ NoGap(inbox, seen, pages, whole) /\ NoGap(inbox, seen, loading.pages, loading.whole)

\* A page has what the list has at its offset.
LEMMA PageIsListed ==
  ASSUME InboxTyped, NEW offset \in Nat
  PROVE  /\ Listed(offset) \in Seq(PageRows) /\ Len(Listed(offset)) <= PageSize
         /\ \A k \in DOMAIN Listed(offset) :
              /\ offset + k \in DOMAIN inbox /\ Listed(offset)[k].id = inbox[offset + k]
              /\ Listed(offset)[k].read => inbox[offset + k] \in seen
         /\ \A i \in DOMAIN inbox : offset < i =>
              IF i <= offset + PageSize THEN i - offset \in DOMAIN Listed(offset)
              ELSE Len(Listed(offset)) = PageSize
<1> DEFINE last == IF Len(inbox) < offset + PageSize THEN Len(inbox) ELSE offset + PageSize
           size == IF offset < last THEN last - offset ELSE 0
           entry(k) == [id |-> inbox[offset + k], read |-> inbox[offset + k] \in seen]
           page == Listed(offset)
<1>1. page = [k \in 1 .. size |-> entry(k)]
  BY DEF Listed, PageOf
<1>2. /\ PageSize \in Nat \ {0} /\ Len(inbox) \in Nat /\ DOMAIN inbox = 1 .. Len(inbox)
      /\ \A i \in DOMAIN inbox : inbox[i] \in Nat
  BY InboxAssumption DEF InboxTyped
<1>3. size \in 0 .. PageSize /\ \A k \in 1 .. size : offset + k \in DOMAIN inbox
  BY <1>2
<1>4. \A i \in DOMAIN inbox : offset < i =>
        IF i <= offset + PageSize THEN i - offset \in 1 .. size ELSE size = PageSize
  <2> SUFFICES ASSUME NEW i \in DOMAIN inbox, offset < i
               PROVE  IF i <= offset + PageSize THEN i - offset \in 1 .. size ELSE size = PageSize
    OBVIOUS
  <2>1. i \in Nat /\ i <= Len(inbox) /\ PageSize \in Nat /\ Len(inbox) \in Nat
    BY <1>2
  <2>2. CASE i <= offset + PageSize
    <3>1. i <= last /\ offset < last /\ last \in Nat
      BY <2>1, <2>2
    <3> QED
      BY <2>1, <2>2, <3>1
  <2>3. CASE ~(i <= offset + PageSize)
    <3>1. last = offset + PageSize /\ offset < last
      BY <1>2, <2>1, <2>3
    <3> QED
      BY <2>1, <2>3, <3>1
  <2> QED
    BY <2>2, <2>3
<1> HIDE DEF size
<1>5. \A k \in 1 .. size : entry(k) \in PageRows
  BY <1>2, <1>3 DEF PageRows
<1>6. page \in Seq(PageRows) /\ Len(page) = size /\ DOMAIN page = 1 .. size
  <2> HIDE DEF entry, page
  <2> QED
    BY <1>1, <1>3, <1>5
<1>7. \A k \in 1 .. size :
        /\ page[k].id = inbox[offset + k]
        /\ page[k].read => inbox[offset + k] \in seen
  <2> HIDE DEF page
  <2> QED
    BY <1>1
<1> HIDE DEF page
<1>8. size \in Nat /\ size <= PageSize
  BY <1>2, <1>3
<1>9. \A i \in DOMAIN inbox : offset < i =>
        IF i <= offset + PageSize THEN i - offset \in DOMAIN page ELSE Len(page) = PageSize
  BY <1>4, <1>6
<1>10. \A k \in DOMAIN page :
         /\ offset + k \in DOMAIN inbox /\ page[k].id = inbox[offset + k]
         /\ page[k].read => inbox[offset + k] \in seen
  BY <1>3, <1>6, <1>7
<1>11. page \in Seq(PageRows) /\ Len(page) <= PageSize
  BY <1>6, <1>8
<1> QED
  BY <1>9, <1>10, <1>11 DEF page

\* The first page of all has not been read.
LEMMA NoPagesNoGap ==
  ASSUME InboxTyped, NEW all \in SUBSET IdsOf(inbox), NEW marked
  PROVE  NoGap(inbox, marked, <<>>, all)
<1>1. Len(<<>>) = 0 /\ DOMAIN <<>> = {} /\ PageSize \in Nat
  BY InboxAssumption
<1>2. \A i \in DOMAIN inbox : ~(i <= 0 * PageSize)
  BY <1>1 DEF InboxTyped
<1> QED
  BY <1>1, <1>2 DEF NoGap

\* More is marked as read.
LEMMA MarkedKeepsGap ==
  ASSUME NEW box, NEW marked, NEW more, marked \subseteq more, NEW list, NEW all,
         NoGap(box, marked, list, all)
  PROVE  NoGap(box, more, list, all)
BY DEF NoGap

\* The next page is read.
LEMMA PageKeepsGap ==
  ASSUME InboxTyped, NEW list \in Seq(Seq(PageRows)), NEW all, NoGap(inbox, seen, list, all)
  PROVE  LET longer == Append(list, Listed(Len(list) * PageSize)) IN
         longer \in Seq(Seq(PageRows)) /\ NoGap(inbox, seen, longer, all)
<1> DEFINE offset == Len(list) * PageSize
           page == Listed(offset)
           longer == Append(list, page)
           last == Len(list) + 1
<1>0. /\ PageSize \in Nat \ {0} /\ Len(list) \in Nat /\ offset \in Nat
      /\ (Len(list) + 1) * PageSize = offset + PageSize
  BY InboxAssumption
<1> HIDE DEF offset
<1>1. /\ page \in Seq(PageRows) /\ Len(page) <= PageSize
      /\ \A k \in DOMAIN page :
           /\ offset + k \in DOMAIN inbox /\ page[k].id = inbox[offset + k]
           /\ page[k].read => inbox[offset + k] \in seen
      /\ \A i \in DOMAIN inbox : offset < i /\ i <= offset + PageSize => i - offset \in DOMAIN page
  BY <1>0, PageIsListed
<1> HIDE DEF page
<1>2. /\ longer \in Seq(Seq(PageRows)) /\ DOMAIN longer = 1 .. last /\ Len(longer) = last
      /\ \A q \in 1 .. Len(list) : longer[q] = list[q]
      /\ longer[last] = page /\ DOMAIN list = 1 .. Len(list)
  BY <1>0, <1>1
<1> HIDE DEF longer
<1>3. DOMAIN inbox = 1 .. Len(inbox) /\ Len(inbox) \in Nat
  BY DEF InboxTyped
<1>4. ASSUME NEW i \in DOMAIN inbox, i <= offset + PageSize, inbox[i] \in all
      PROVE  IF i <= offset THEN Has(list, inbox[i])
             ELSE i - offset \in DOMAIN page /\ page[i - offset].id = inbox[i]
  <2>1. CASE i <= offset
    BY <1>4, <2>1 DEF NoGap, offset
  <2>2. CASE ~(i <= offset)
    <3>1. i - offset \in DOMAIN page
      BY <1>0, <1>1, <1>3, <1>4, <2>2
    <3>2. offset + (i - offset) = i
      BY <1>0, <1>3
    <3> QED
      BY <1>1, <2>2, <3>1, <3>2
  <2> QED
    BY <2>1, <2>2
<1>5. \A id : Has(list, id) => \E q \in 1 .. Len(list) : \E m \in DOMAIN longer[q] : longer[q][m].id = id
  BY <1>2 DEF Has
<1>6. \A q \in 1 .. Len(list) : q \in 1 .. last /\ q < last
  BY <1>0
<1>7. ASSUME NEW p \in DOMAIN longer, NEW k \in DOMAIN longer[p]
      PROVE  /\ longer[p][k].id \in IdsOf(inbox)
             /\ longer[p][k].read => longer[p][k].id \in seen
             /\ \A i, j \in DOMAIN inbox :
                  i < j /\ inbox[i] \in all /\ inbox[j] = longer[p][k].id =>
                    HasAbove(longer, inbox[i], p, k)
  <2>1. CASE p \in 1 .. Len(list)
    <3>1. longer[p] = list[p] /\ p \in DOMAIN list
      BY <1>2, <2>1
    <3>2. \A id : HasAbove(list, id, p, k) => HasAbove(longer, id, p, k)
      BY <1>2, <1>6 DEF HasAbove
    <3> QED
      BY <3>1, <3>2 DEF NoGap
  <2>2. CASE p = last
    <3>1. longer[p] = page /\ k \in DOMAIN page
      BY <1>2, <2>2
    <3>2. offset + k \in DOMAIN inbox /\ page[k].id = inbox[offset + k]
      BY <1>1, <3>1
    <3>3. k \in Nat /\ k <= PageSize
      <4>1. DOMAIN page = 1 .. Len(page) /\ Len(page) \in Nat
        BY <1>1
      <4> QED
        BY <1>0, <1>1, <3>1, <4>1
    <3>4. ASSUME NEW i \in DOMAIN inbox, NEW j \in DOMAIN inbox,
                 i < j, inbox[i] \in all, inbox[j] = longer[p][k].id
          PROVE  HasAbove(longer, inbox[i], p, k)
      <4>1. j = offset + k
        BY <3>1, <3>2, <3>4 DEF InboxTyped, Once
      <4>2. i < offset + k /\ i <= offset + PageSize
        BY <1>0, <1>3, <3>3, <3>4, <4>1
      <4>3. CASE i <= offset
        <5>1. Has(list, inbox[i])
          BY <1>4, <3>4, <4>2, <4>3
        <5>2. PICK q \in 1 .. Len(list) : \E m \in DOMAIN longer[q] : longer[q][m].id = inbox[i]
          BY <1>5, <5>1
        <5> QED
          BY <1>2, <1>6, <2>2, <5>2 DEF HasAbove
      <4>4. CASE ~(i <= offset)
        <5>1. i - offset \in DOMAIN page /\ page[i - offset].id = inbox[i]
          BY <1>4, <3>4, <4>2, <4>4
        <5>2. i - offset < k
          BY <1>0, <1>3, <3>3, <4>2
        <5> QED
          BY <1>2, <2>2, <3>1, <5>1, <5>2 DEF HasAbove
      <4> QED
        BY <4>3, <4>4
    <3>5. longer[p][k].id \in IdsOf(inbox) /\ (longer[p][k].read => longer[p][k].id \in seen)
      BY <1>1, <3>1, <3>2 DEF IdsOf
    <3> QED
      BY <3>4, <3>5
  <2> QED
    BY <1>0, <1>2, <2>1, <2>2
<1>8. ASSUME NEW i \in DOMAIN inbox, i <= Len(longer) * PageSize, inbox[i] \in all
      PROVE  Has(longer, inbox[i])
  <2>1. i <= offset + PageSize
    BY <1>0, <1>2, <1>8
  <2>2. CASE i <= offset
    <3>1. Has(list, inbox[i])
      BY <1>4, <1>8, <2>1, <2>2
    <3> QED
      BY <1>2, <1>5, <1>6, <3>1 DEF Has
  <2>3. CASE ~(i <= offset)
    <3>1. i - offset \in DOMAIN page /\ page[i - offset].id = inbox[i]
      BY <1>4, <1>8, <2>1, <2>3
    <3>2. last \in DOMAIN longer
      BY <1>0, <1>2
    <3> QED
      BY <1>2, <3>1, <3>2 DEF Has
  <2> QED
    BY <2>2, <2>3
<1>9. all \subseteq IdsOf(inbox)
  BY DEF NoGap
<1>10. NoGap(inbox, seen, longer, all)
  BY <1>7, <1>8, <1>9 DEF NoGap
<1>11. longer = Append(list, Listed(Len(list) * PageSize))
  BY DEF longer, page, offset
<1> QED
  BY <1>2, <1>10, <1>11

\* The place a notification had before one came in at place `at'.
Earlier(i, at) == IF i < at THEN i ELSE i - 1

\* A notification that comes in leaves the others in their order.
LEMMA ArrivedList ==
  ASSUME InboxTyped, NEW at \in 1 .. Len(inbox) + 1
  PROVE  LET box == InsertAt(inbox, at, Len(inbox) + 1) IN
         /\ box \in Seq(Nat) /\ Once(box) /\ \A i \in DOMAIN box : box[i] \in 1 .. Len(box)
         /\ IdsOf(inbox) \subseteq IdsOf(box) /\ DOMAIN box \subseteq Nat
         /\ \A i \in DOMAIN box : box[i] \in IdsOf(inbox) =>
              /\ Earlier(i, at) \in DOMAIN inbox /\ Earlier(i, at) <= i
              /\ inbox[Earlier(i, at)] = box[i]
         /\ \A i, j \in DOMAIN box : box[i] \in IdsOf(inbox) /\ box[j] \in IdsOf(inbox) /\ i < j =>
              Earlier(i, at) < Earlier(j, at)
<1> DEFINE new == Len(inbox) + 1
           box == InsertAt(inbox, at, new)
<1>1. /\ inbox \in Seq(Nat) /\ Len(inbox) \in Nat /\ DOMAIN inbox = 1 .. Len(inbox)
      /\ at \in Nat /\ at >= 1 /\ new \in Nat
  BY DEF InboxTyped
<1>2. /\ box \in Seq(Nat) /\ Len(box) = Len(inbox) + 1 /\ box[at] = new
      /\ \A i \in 1 .. Len(inbox) : IF i < at THEN box[i] = inbox[i] ELSE box[i + 1] = inbox[i]
      /\ \A i \in 1 .. Len(box) :
           i # at => IF i < at THEN box[i] = inbox[i] ELSE box[i] = inbox[i - 1]
  <2>1. inbox \in Seq(Nat) /\ at \in 1 .. Len(inbox) + 1 /\ new \in Nat
    BY <1>1
  <2> HIDE DEF new
  <2>2. box \in Seq(Nat) /\ IsInserted(box, inbox, at, new)
    BY <2>1, InsertedList
  <2> QED
    BY <2>2 DEF IsInserted
<1> HIDE DEF box
<1>3. DOMAIN box = 1 .. Len(inbox) + 1
  BY <1>1, <1>2
<1>4. new \notin IdsOf(inbox)
  BY <1>1 DEF IdsOf, InboxTyped
<1>5. \A i \in DOMAIN box : i # at =>
        /\ Earlier(i, at) \in DOMAIN inbox /\ Earlier(i, at) <= i
        /\ inbox[Earlier(i, at)] = box[i]
  <2> SUFFICES ASSUME NEW i \in DOMAIN box, i # at
               PROVE  /\ Earlier(i, at) \in DOMAIN inbox /\ Earlier(i, at) <= i
                      /\ inbox[Earlier(i, at)] = box[i]
    OBVIOUS
  <2>1. box[i] = inbox[Earlier(i, at)]
    BY <1>2, <1>3 DEF Earlier
  <2>2. Earlier(i, at) \in DOMAIN inbox /\ Earlier(i, at) <= i
    BY <1>1, <1>3 DEF Earlier
  <2> QED
    BY <2>1, <2>2
<1>6. \A i \in DOMAIN box : box[i] \in IdsOf(inbox) => i # at
  BY <1>2, <1>4
<1>7. \A i, j \in DOMAIN box : i # at /\ j # at /\ i < j => Earlier(i, at) < Earlier(j, at)
  BY <1>1, <1>3 DEF Earlier
<1>8. \A i, j \in DOMAIN box : i # at /\ j # at /\ Earlier(i, at) = Earlier(j, at) => i = j
  BY <1>1, <1>3 DEF Earlier
<1>9. \A i \in DOMAIN box : i # at => box[i] \in 1 .. Len(inbox)
  BY <1>5 DEF InboxTyped
<1>10. \A i \in DOMAIN box : box[i] \in 1 .. Len(box)
  <2> SUFFICES ASSUME NEW i \in DOMAIN box
               PROVE  box[i] \in 1 .. Len(box)
    OBVIOUS
  <2>1. CASE i = at
    BY <1>1, <1>2, <2>1
  <2>2. CASE i # at
    BY <1>1, <1>2, <1>9, <2>2
  <2> QED
    BY <2>1, <2>2
<1>11. Once(box)
  <2> SUFFICES ASSUME NEW i \in DOMAIN box, NEW j \in DOMAIN box, box[i] = box[j]
               PROVE  i = j
    BY DEF Once
  <2>1. \A k \in DOMAIN box : k # at => box[k] # new
    BY <1>1, <1>9
  <2>2. CASE i = at \/ j = at
    BY <1>2, <2>1, <2>2
  <2>3. CASE i # at /\ j # at
    <3>1. Earlier(i, at) = Earlier(j, at)
      BY <1>5, <2>3 DEF InboxTyped, Once
    <3> QED
      BY <1>8, <2>3, <3>1
  <2> QED
    BY <2>2, <2>3
<1>12. IdsOf(inbox) \subseteq IdsOf(box)
  <2> SUFFICES ASSUME NEW i \in DOMAIN inbox
               PROVE  \E j \in DOMAIN box : box[j] = inbox[i]
    BY DEF IdsOf
  <2> DEFINE j == IF i < at THEN i ELSE i + 1
  <2>1. j \in DOMAIN box
    BY <1>1, <1>3
  <2>2. box[j] = inbox[i]
    BY <1>1, <1>2
  <2> QED
    BY <2>1, <2>2
<1>13. DOMAIN box \subseteq Nat
  BY <1>1, <1>3
<1>14. box = InsertAt(inbox, at, Len(inbox) + 1)
  BY DEF box
<1> QED
  BY <1>2, <1>5, <1>6, <1>7, <1>10, <1>11, <1>12, <1>13, <1>14

\* What was above a row still is, and what comes in was not there before.
LEMMA ArrivalKeepsGap ==
  ASSUME InboxTyped, NEW at \in 1 .. Len(inbox) + 1,
         NEW list \in Seq(Seq(PageRows)), NEW marked, NEW all, NoGap(inbox, marked, list, all)
  PROVE  NoGap(InsertAt(inbox, at, Len(inbox) + 1), marked, list, all)
<1> DEFINE box == InsertAt(inbox, at, Len(inbox) + 1)
           reach == Len(list) * PageSize
<1>1. /\ IdsOf(inbox) \subseteq IdsOf(box) /\ DOMAIN box \subseteq Nat
      /\ \A i \in DOMAIN box : box[i] \in IdsOf(inbox) =>
           /\ Earlier(i, at) \in DOMAIN inbox /\ Earlier(i, at) <= i
           /\ inbox[Earlier(i, at)] = box[i]
      /\ \A i, j \in DOMAIN box : box[i] \in IdsOf(inbox) /\ box[j] \in IdsOf(inbox) /\ i < j =>
           Earlier(i, at) < Earlier(j, at)
  BY ArrivedList
<1> HIDE DEF box
<1>2. /\ all \subseteq IdsOf(inbox)
      /\ \A p \in DOMAIN list : \A k \in DOMAIN list[p] :
           /\ list[p][k].id \in IdsOf(inbox)
           /\ list[p][k].read => list[p][k].id \in marked
           /\ \A i, j \in DOMAIN inbox :
                i < j /\ inbox[i] \in all /\ inbox[j] = list[p][k].id => HasAbove(list, inbox[i], p, k)
      /\ \A i \in DOMAIN inbox : i <= reach /\ inbox[i] \in all => Has(list, inbox[i])
  BY DEF NoGap
<1>3. ASSUME NEW p \in DOMAIN list, NEW k \in DOMAIN list[p], NEW i \in DOMAIN box,
             NEW j \in DOMAIN box, i < j, box[i] \in all, box[j] = list[p][k].id
      PROVE  HasAbove(list, box[i], p, k)
  <2>1. box[i] \in IdsOf(inbox) /\ box[j] \in IdsOf(inbox)
    BY <1>2, <1>3
  <2>2. /\ Earlier(i, at) \in DOMAIN inbox /\ inbox[Earlier(i, at)] = box[i]
        /\ Earlier(j, at) \in DOMAIN inbox /\ inbox[Earlier(j, at)] = box[j]
        /\ Earlier(i, at) < Earlier(j, at)
    BY <1>1, <1>3, <2>1
  <2> QED
    BY <1>2, <1>3, <2>2
<1>4. ASSUME NEW i \in DOMAIN box, i <= reach, box[i] \in all
      PROVE  Has(list, box[i])
  <2>1. box[i] \in IdsOf(inbox)
    BY <1>2, <1>4
  <2>2. /\ Earlier(i, at) \in DOMAIN inbox /\ inbox[Earlier(i, at)] = box[i]
        /\ Earlier(i, at) <= i
    BY <1>1, <2>1
  <2>3. Earlier(i, at) \in Nat /\ i \in Nat /\ reach \in Nat
    <3>1. Len(list) \in Nat /\ PageSize \in Nat /\ DOMAIN inbox \subseteq Nat
      BY InboxAssumption DEF InboxTyped
    <3>2. reach \in Nat
      BY <3>1
    <3> QED
      BY <1>1, <2>2, <3>1, <3>2
  <2> HIDE DEF reach
  <2>4. Earlier(i, at) <= reach
    BY <1>4, <2>2, <2>3
  <2> QED
    BY <1>2, <1>4, <2>2, <2>4
<1>5. NoGap(box, marked, list, all)
  BY <1>1, <1>2, <1>3, <1>4 DEF NoGap
<1> QED
  BY <1>5 DEF box

LEMMA ArriveStep == InboxInvariant /\ Arrive => InboxInvariant'
<1> SUFFICES ASSUME InboxInvariant, Arrive PROVE InboxInvariant'
  OBVIOUS
<1> USE DEF InboxInvariant
<1>1. PICK at \in 1 .. Len(inbox) + 1 : inbox' = InsertAt(inbox, at, Len(inbox) + 1)
  <2>1. PICK at \in 1 .. MaxLate + 1 :
          at <= Len(inbox) + 1 /\ inbox' = InsertAt(inbox, at, Len(inbox) + 1)
    BY DEF Arrive
  <2>2. Len(inbox) \in Nat /\ MaxLate \in Nat
    BY InboxAssumption DEF InboxTyped
  <2>3. at \in 1 .. Len(inbox) + 1
    BY <2>1, <2>2
  <2> QED
    BY <2>1, <2>3
<1>2. UNCHANGED <<seen, pages, whole, loading, walk, before>>
  BY DEF Arrive
<1>3. /\ inbox' \in Seq(Nat) /\ Once(inbox') /\ \A i \in DOMAIN inbox' : inbox'[i] \in 1 .. Len(inbox')
      /\ IdsOf(inbox) \subseteq IdsOf(inbox') /\ DOMAIN inbox' \subseteq Nat
      /\ \A i \in DOMAIN inbox' : inbox'[i] \in IdsOf(inbox) =>
           /\ Earlier(i, at) \in DOMAIN inbox /\ Earlier(i, at) <= i
           /\ inbox[Earlier(i, at)] = inbox'[i]
  BY <1>1, ArrivedList
<1>4. InboxTyped'
  BY <1>2, <1>3 DEF InboxTyped, Once
<1>5. NoGap(inbox, seen, pages, whole)' /\ NoGap(inbox, seen, loading.pages, loading.whole)'
  <2>1. pages \in Seq(Seq(PageRows)) /\ loading.pages \in Seq(Seq(PageRows))
    BY DEF InboxTyped
  <2>2. NoGap(inbox', seen, pages, whole)
    BY <1>1, <2>1, ArrivalKeepsGap
  <2>3. NoGap(inbox', seen, loading.pages, loading.whole)
    BY <1>1, <2>1, ArrivalKeepsGap
  <2> QED
    BY <1>2, <2>2, <2>3 DEF NoGap, Has, HasAbove, IdsOf
<1>6. WalkIsAhead'
  <2>1. before' \subseteq IdsOf(inbox')
    BY <1>2, <1>3 DEF WalkIsAhead
  <2>2. ASSUME NEW i \in DOMAIN inbox', inbox'[i] \in before \ seen
        PROVE  /\ walk.stage = "list" => i > walk.offset
               /\ walk.stage = "page" =>
                    \/ \E m \in Unread(walk.page) : walk.page[m].id = inbox'[i]
                    \/ Len(walk.page) = PageSize /\ i > walk.offset + PageSize
    <3> DEFINE j == Earlier(i, at)
    <3>1. inbox'[i] \in IdsOf(inbox)
      BY <2>2 DEF WalkIsAhead
    <3>2. j \in DOMAIN inbox /\ inbox[j] = inbox'[i] /\ j <= i
      BY <1>3, <3>1
    <3> HIDE DEF j
    <3>3. i \in Nat /\ j \in Nat /\ walk.offset \in Nat /\ PageSize \in Nat
      <4>1. DOMAIN inbox \subseteq Nat /\ walk.offset \in Nat
        BY DEF InboxTyped
      <4> QED
        BY <1>3, <2>2, <3>2, <4>1, InboxAssumption
    <3>4. /\ walk.stage = "list" => j > walk.offset
          /\ walk.stage = "page" =>
               \/ \E m \in Unread(walk.page) : walk.page[m].id = inbox[j]
               \/ Len(walk.page) = PageSize /\ j > walk.offset + PageSize
      BY <2>2, <3>2 DEF WalkIsAhead
    <3>5. /\ j > walk.offset => i > walk.offset
          /\ j > walk.offset + PageSize => i > walk.offset + PageSize
      BY <3>2, <3>3
    <3> QED
      BY <3>2, <3>4, <3>5
  <2> QED
    BY <1>2, <2>1, <2>2 DEF WalkIsAhead, IdsOf, Unread
<1> QED
  BY <1>4, <1>5, <1>6

Loads == [stage: {"idle", "asked", "served"}, more: BOOLEAN,
          pages: Seq(Seq(PageRows)), whole: SUBSET Nat]

\* A load that begins has no page, unless the first load of all goes on.
LEMMA ReloadingStarts ==
  ASSUME InboxInvariant
  PROVE  /\ Reloading \in Loads
         /\ NoGap(inbox, seen, Reloading.pages, Reloading.whole)
<1> DEFINE again == [NotLoading EXCEPT !.stage = "asked"]
<1>1. NotLoading \in Loads /\ NotLoading.pages = <<>> /\ NotLoading.whole = {}
  <2>1. <<>> \in Seq(Seq(PageRows))
    OBVIOUS
  <2> QED
    BY <2>1 DEF NotLoading, Loads
<1>2. again \in Loads /\ again.pages = <<>> /\ again.whole = {}
  BY <1>1 DEF Loads
<1>3. loading \in Loads
  BY DEF InboxInvariant, InboxTyped, Loads
<1>4. NoGap(inbox, seen, <<>>, {}) /\ NoGap(inbox, seen, loading.pages, loading.whole)
  <2>1. InboxTyped /\ {} \in SUBSET IdsOf(inbox)
    BY DEF InboxInvariant
  <2> QED
    BY <2>1, NoPagesNoGap DEF InboxInvariant
<1>5. Reloading = loading \/ Reloading = again
  BY DEF Reloading
<1> HIDE DEF again
<1> QED
  BY <1>2, <1>3, <1>4, <1>5

\* A step of the list's load leaves the inbox and the commands alone.
LEMMA LoadKeeps ==
  ASSUME InboxInvariant, UNCHANGED <<inbox, seen, walk, before>>,
         loading' \in Loads, NoGap(inbox, seen, loading'.pages, loading'.whole),
         \/ UNCHANGED <<pages, whole>>
         \/ pages' = loading.pages /\ whole' = loading.whole
  PROVE  InboxInvariant'
<1>1. pages' \in Seq(Seq(PageRows)) /\ NoGap(inbox, seen, pages', whole')
  BY DEF InboxInvariant, InboxTyped
<1>2. InboxTyped'
  BY <1>1 DEF InboxInvariant, InboxTyped, Loads, Once
<1>3. WalkIsAhead'
  BY DEF InboxInvariant, WalkIsAhead, IdsOf, Unread
<1>4. NoGap(inbox, seen, pages, whole)' /\ NoGap(inbox, seen, loading.pages, loading.whole)'
  BY <1>1 DEF NoGap, Has, HasAbove, IdsOf
<1> QED
  BY <1>2, <1>3, <1>4 DEF InboxInvariant

\* A step of a command marks what it marks.
LEMMA WalkKeeps ==
  ASSUME InboxInvariant, UNCHANGED <<inbox, pages, whole>>, seen \subseteq seen',
         UNCHANGED loading \/ loading' = Reloading,
         walk' \in [stage: {"idle", "list", "page", "open"}, offset: Nat, page: Seq(PageRows),
                    live: BOOLEAN],
         WalkIsAhead'
  PROVE  InboxInvariant'
<1>1. loading' \in Loads /\ NoGap(inbox, seen, loading'.pages, loading'.whole)
  BY ReloadingStarts DEF InboxInvariant, InboxTyped, Loads
<1>2. InboxTyped'
  BY <1>1 DEF InboxInvariant, InboxTyped, Loads, Once
<1>3. NoGap(inbox, seen', pages, whole) /\ NoGap(inbox, seen', loading'.pages, loading'.whole)
  BY <1>1, MarkedKeepsGap DEF InboxInvariant
<1>4. NoGap(inbox, seen, pages, whole)' /\ NoGap(inbox, seen, loading.pages, loading.whole)'
  BY <1>3 DEF NoGap, Has, HasAbove, IdsOf
<1> QED
  BY <1>2, <1>4 DEF InboxInvariant

LEMMA ListStep ==
  ASSUME InboxInvariant, Visit \/ Refresh \/ LoadMore \/ PagesShown \/ LoadFails
  PROVE  InboxInvariant'
<1>1. CASE Visit \/ Refresh
  <2>1. UNCHANGED <<inbox, seen, walk, before, pages, whole>> /\ loading' = Reloading
    BY <1>1 DEF Visit, Refresh
  <2> QED
    BY <2>1, ReloadingStarts, LoadKeeps
<1>2. CASE LoadMore
  <2>1. UNCHANGED <<inbox, seen, walk, before, pages, whole>>
    BY <1>2 DEF LoadMore
  <2>2. loading' = [stage |-> "asked", more |-> TRUE, pages |-> pages, whole |-> whole]
    BY <1>2 DEF LoadMore
  <2>3. pages \in Seq(Seq(PageRows)) /\ whole \in SUBSET Nat /\ NoGap(inbox, seen, pages, whole)
    <3>1. IdsOf(inbox) \subseteq Nat
      BY DEF InboxInvariant, InboxTyped, IdsOf
    <3> QED
      BY <3>1 DEF InboxInvariant, InboxTyped, NoGap
  <2>4. loading' \in Loads /\ loading'.pages = pages /\ loading'.whole = whole
    BY <2>2, <2>3 DEF Loads
  <2> QED
    BY <2>1, <2>3, <2>4, LoadKeeps
<1>3. CASE PagesShown \/ LoadFails
  <2>1. /\ UNCHANGED <<inbox, seen, walk, before>> /\ loading' = NotLoading
        /\ \/ UNCHANGED <<pages, whole>>
           \/ pages' = loading.pages /\ whole' = loading.whole
    BY <1>3 DEF PagesShown, LoadFails
  <2>2. NotLoading \in Loads /\ NotLoading.pages = <<>> /\ NotLoading.whole = {}
    <3>1. <<>> \in Seq(Seq(PageRows))
      OBVIOUS
    <3> QED
      BY <3>1 DEF NotLoading, Loads
  <2>3. NoGap(inbox, seen, <<>>, {})
    <3>1. InboxTyped /\ {} \in SUBSET IdsOf(inbox)
      BY DEF InboxInvariant
    <3> QED
      BY <3>1, NoPagesNoGap
  <2> QED
    BY <2>1, <2>2, <2>3, LoadKeeps
<1> QED
  BY <1>1, <1>2, <1>3

LEMMA ServePageStep == InboxInvariant /\ ServePage => InboxInvariant'
<1> SUFFICES ASSUME InboxInvariant, ServePage PROVE InboxInvariant'
  OBVIOUS
<1> DEFINE list == loading.pages
           next == Append(list, Listed(Len(list) * PageSize))
           all == IF list = <<>> THEN ToSet(inbox) ELSE loading.whole
           done == loading.more \/ Len(next) >= Len(pages) \/ ~HasNext(next)
           stage == IF done THEN "served" ELSE "asked"
<1>1. /\ loading' = [loading EXCEPT !.pages = next, !.stage = stage, !.whole = all]
      /\ UNCHANGED <<inbox, seen, walk, before, pages, whole>>
  BY DEF ServePage, NextOffset
<1>2. /\ loading \in Loads /\ list \in Seq(Seq(PageRows)) /\ InboxTyped
      /\ NoGap(inbox, seen, list, loading.whole)
  BY DEF InboxInvariant, InboxTyped, Loads
<1>3. ToSet(inbox) = IdsOf(inbox) /\ IdsOf(inbox) \subseteq Nat
  BY DEF InboxInvariant, InboxTyped, ToSet, IdsOf
<1>4. all \in SUBSET Nat /\ NoGap(inbox, seen, list, all)
  <2>1. CASE list = <<>>
    <3>1. all = IdsOf(inbox) /\ all \in SUBSET IdsOf(inbox)
      BY <1>3, <2>1
    <3> HIDE DEF all
    <3>2. NoGap(inbox, seen, <<>>, all)
      BY <1>2, <3>1, NoPagesNoGap
    <3> QED
      BY <1>3, <2>1, <3>1, <3>2
  <2>2. CASE list # <<>>
    BY <1>2, <2>2 DEF Loads
  <2> QED
    BY <2>1, <2>2
<1>5. stage \in {"idle", "asked", "served"}
  OBVIOUS
<1> HIDE DEF all, done, stage
<1>6. next \in Seq(Seq(PageRows)) /\ NoGap(inbox, seen, next, all)
  <2> HIDE DEF list
  <2> QED
    BY <1>2, <1>4, PageKeepsGap
<1> HIDE DEF next
<1>7. loading' \in Loads /\ loading'.pages = next /\ loading'.whole = all
  BY <1>1, <1>2, <1>4, <1>5, <1>6 DEF Loads
<1> QED
  BY <1>1, <1>6, <1>7, LoadKeeps

\* A command that is over leaves nothing to mark.
LEMMA OverStep ==
  ASSUME InboxInvariant, WalkEnds \/ ServeOpen \/ CommandFails
  PROVE  InboxInvariant'
<1>1. /\ walk' = NoWalk /\ before' = {} /\ UNCHANGED <<inbox, pages, whole>>
      /\ UNCHANGED loading \/ loading' = Reloading
  BY DEF WalkEnds, ServeOpen, CommandFails, Unlocked
<1>2. seen \subseteq seen'
  BY DEF WalkEnds, ServeOpen, CommandFails
<1>3. walk' \in [stage: {"idle", "list", "page", "open"}, offset: Nat, page: Seq(PageRows),
                 live: BOOLEAN]
  <2>1. <<>> \in Seq(PageRows)
    OBVIOUS
  <2> QED
    BY <1>1, <2>1 DEF NoWalk
<1>4. WalkIsAhead'
  BY <1>1 DEF WalkIsAhead
<1> QED
  BY <1>1, <1>2, <1>3, <1>4, WalkKeeps

LEMMA StartStep ==
  ASSUME InboxInvariant, Leave \/ MarkAll \/ \E id \in 1 .. MaxNotices : Open(id)
  PROVE  InboxInvariant'
<1> DEFINE Walks == [stage: {"idle", "list", "page", "open"}, offset: Nat, page: Seq(PageRows),
                     live: BOOLEAN]
<1>0. UNCHANGED <<inbox, pages, whole, seen, loading>>
  BY DEF Leave, MarkAll, Open
<1>1. walk \in Walks /\ <<>> \in Seq(PageRows) /\ DOMAIN inbox = 1 .. Len(inbox)
  BY DEF InboxInvariant, InboxTyped
<1>2. CASE Leave
  <2>1. walk' = [walk EXCEPT !.live = FALSE] /\ before' = before
    BY <1>2 DEF Leave
  <2>2. /\ walk' \in Walks /\ walk'.stage = walk.stage /\ walk'.offset = walk.offset
        /\ walk'.page = walk.page
    BY <1>1, <2>1
  <2>3. WalkIsAhead'
    BY <1>0, <2>1, <2>2 DEF InboxInvariant, WalkIsAhead, IdsOf, Unread
  <2> QED
    BY <1>0, <2>2, <2>3, WalkKeeps
<1>3. CASE MarkAll
  <2>1. /\ walk' = [stage |-> "list", offset |-> 0, page |-> <<>>, live |-> TRUE]
        /\ before' = ToSet(inbox)
    BY <1>3 DEF MarkAll
  <2>2. walk' \in Walks /\ walk'.stage = "list" /\ walk'.offset = 0
    BY <1>1, <2>1
  <2>3. before' \subseteq IdsOf(inbox) /\ \A i \in DOMAIN inbox : i > 0
    BY <1>1, <2>1 DEF ToSet, IdsOf
  <2>4. WalkIsAhead'
    BY <1>0, <2>2, <2>3 DEF WalkIsAhead, IdsOf
  <2> QED
    BY <1>0, <2>2, <2>4, WalkKeeps
<1>4. ASSUME NEW id \in 1 .. MaxNotices, Open(id)
      PROVE  InboxInvariant'
  <2>1. /\ walk' = [stage |-> "open", offset |-> id, page |-> <<>>, live |-> TRUE]
        /\ before' = before
    BY <1>4 DEF Open
  <2>2. walk' \in Walks /\ walk'.stage = "open"
    BY <1>1, <2>1
  <2>3. WalkIsAhead'
    BY <1>0, <2>1, <2>2 DEF InboxInvariant, WalkIsAhead, IdsOf
  <2> QED
    BY <1>0, <2>2, <2>3, WalkKeeps
<1> QED
  BY <1>2, <1>3, <1>4

LEMMA ServeWalkStep == InboxInvariant /\ ServeWalk => InboxInvariant'
<1> SUFFICES ASSUME InboxInvariant, ServeWalk PROVE InboxInvariant'
  OBVIOUS
<1> DEFINE list == Listed(walk.offset)
<1>0. /\ UNCHANGED <<inbox, pages, whole, seen, loading, before>> /\ walk.stage = "list"
      /\ walk' = [walk EXCEPT !.stage = "page", !.page = list]
  BY DEF ServeWalk
<1>1. /\ list \in Seq(PageRows)
      /\ \A k \in DOMAIN list : list[k].id = inbox[walk.offset + k]
                                /\ (list[k].read => inbox[walk.offset + k] \in seen)
      /\ \A i \in DOMAIN inbox : walk.offset < i =>
           IF i <= walk.offset + PageSize THEN i - walk.offset \in DOMAIN list
           ELSE Len(list) = PageSize
  <2>1. InboxTyped /\ walk.offset \in Nat
    BY DEF InboxInvariant, InboxTyped
  <2> QED
    BY <2>1, PageIsListed
<1> HIDE DEF list
<1>2. walk \in [stage: {"idle", "list", "page", "open"}, offset: Nat, page: Seq(PageRows),
                live: BOOLEAN]
  BY DEF InboxInvariant, InboxTyped
<1>3. /\ walk' \in [stage: {"idle", "list", "page", "open"}, offset: Nat, page: Seq(PageRows),
                    live: BOOLEAN]
      /\ walk'.stage = "page" /\ walk'.offset = walk.offset /\ walk'.page = list
  BY <1>0, <1>1, <1>2
<1>4. ASSUME NEW i \in DOMAIN inbox, inbox[i] \in before \ seen
      PROVE  \/ \E m \in Unread(list) : list[m].id = inbox[i]
             \/ Len(list) = PageSize /\ i > walk.offset + PageSize
  <2>1. i > walk.offset /\ i \in Nat /\ walk.offset \in Nat /\ PageSize \in Nat
    BY <1>0, <1>4, InboxAssumption DEF InboxInvariant, WalkIsAhead, InboxTyped
  <2>2. CASE i <= walk.offset + PageSize
    <3>1. i - walk.offset \in DOMAIN list /\ walk.offset + (i - walk.offset) = i
      BY <1>1, <1>4, <2>1, <2>2
    <3>2. list[i - walk.offset].id = inbox[i] /\ ~list[i - walk.offset].read
      BY <1>1, <1>4, <3>1
    <3> QED
      BY <3>1, <3>2 DEF Unread
  <2>3. CASE ~(i <= walk.offset + PageSize)
    BY <1>1, <1>4, <2>1, <2>3
  <2> QED
    BY <2>2, <2>3
<1>5. WalkIsAhead'
  BY <1>0, <1>3, <1>4 DEF InboxInvariant, WalkIsAhead, IdsOf, Unread
<1> QED
  BY <1>0, <1>3, <1>5, WalkKeeps

LEMMA ServeMarkStep == InboxInvariant /\ ServeMark => InboxInvariant'
<1> SUFFICES ASSUME InboxInvariant, ServeMark PROVE InboxInvariant'
  OBVIOUS
<1> DEFINE next == First(Unread(walk.page))
           id == walk.page[next].id
           marked == [walk.page EXCEPT ![next] = [walk.page[next] EXCEPT !.read = TRUE]]
<1>0. /\ UNCHANGED <<inbox, pages, whole, loading, before>> /\ walk.stage = "page"
      /\ seen' = seen \union {id} /\ Unread(walk.page) # {}
  BY DEF ServeMark
<1>1. walk \in [stage: {"idle", "list", "page", "open"}, offset: Nat, page: Seq(PageRows),
                live: BOOLEAN]
  BY DEF InboxInvariant, InboxTyped
<1>2. next \in Unread(walk.page)
  <2>1. Unread(walk.page) \in SUBSET Nat
    BY <1>1 DEF Unread
  <2>2. \E n \in Unread(walk.page) : \A m \in Unread(walk.page) : n <= m
    BY <1>0, <2>1, LeastNumber
  <2> QED
    BY <2>2 DEF First
<1>3. walk' = [walk EXCEPT !.page = marked]
  BY <1>1 DEF ServeMark
<1> HIDE DEF next
<1>4. next \in DOMAIN walk.page /\ walk.page[next] \in PageRows
  BY <1>1, <1>2 DEF Unread
<1>5. /\ marked \in Seq(PageRows) /\ Len(marked) = Len(walk.page)
      /\ DOMAIN marked = DOMAIN walk.page
      /\ \A m \in DOMAIN walk.page : m # next => marked[m] = walk.page[m]
  <2> DEFINE e == [walk.page[next] EXCEPT !.read = TRUE]
  <2>1. e \in PageRows /\ walk.page \in Seq(PageRows)
    BY <1>1, <1>4 DEF PageRows
  <2> HIDE DEF e
  <2>2. marked = [walk.page EXCEPT ![next] = e]
    BY DEF e
  <2>3. marked \in Seq(PageRows) /\ Len(marked) = Len(walk.page)
    <3> DEFINE size == Len(walk.page)
    <3>1. size \in Nat /\ walk.page \in [1 .. size -> PageRows] /\ next \in 1 .. size
      BY <1>4, <2>1
    <3> HIDE DEF size
    <3>2. marked \in [1 .. size -> PageRows]
      BY <2>1, <2>2, <3>1
    <3> HIDE DEF marked
    <3>3. marked \in Seq(PageRows) /\ Len(marked) = size
      BY <3>1, <3>2
    <3> QED
      BY <3>3 DEF size
  <2>4. DOMAIN marked = DOMAIN walk.page
    BY <2>2
  <2>5. \A m \in DOMAIN walk.page : m # next => marked[m] = walk.page[m]
    BY <2>2
  <2> QED
    BY <2>3, <2>4, <2>5
<1> HIDE DEF marked
<1>6. /\ walk' \in [stage: {"idle", "list", "page", "open"}, offset: Nat, page: Seq(PageRows),
                    live: BOOLEAN]
      /\ walk'.stage = "page" /\ walk'.offset = walk.offset /\ walk'.page = marked
  BY <1>0, <1>1, <1>3, <1>5
<1>7. ASSUME NEW i \in DOMAIN inbox, inbox[i] \in before \ seen'
      PROVE  \/ \E m \in Unread(marked) : marked[m].id = inbox[i]
             \/ Len(marked) = PageSize /\ i > walk.offset + PageSize
  <2>1. inbox[i] \in before \ seen /\ inbox[i] # id
    BY <1>0, <1>7
  <2>2. \/ \E m \in Unread(walk.page) : walk.page[m].id = inbox[i]
        \/ Len(walk.page) = PageSize /\ i > walk.offset + PageSize
    BY <1>0, <2>1 DEF InboxInvariant, WalkIsAhead
  <2>3. ASSUME NEW m \in Unread(walk.page), walk.page[m].id = inbox[i]
        PROVE  m \in Unread(marked) /\ marked[m].id = inbox[i]
    <3>1. m # next
      BY <2>1, <2>3
    <3> QED
      BY <1>5, <2>3, <3>1 DEF Unread
  <2> QED
    BY <1>5, <2>2, <2>3
<1>8. WalkIsAhead'
  <2>1. before \subseteq IdsOf(inbox)
    BY DEF InboxInvariant, WalkIsAhead
  <2> QED
    BY <1>0, <1>6, <1>7, <2>1 DEF WalkIsAhead, IdsOf, Unread
<1>9. seen \subseteq seen'
  BY <1>0
<1> QED
  BY <1>0, <1>6, <1>8, <1>9, WalkKeeps

LEMMA WalkOnStep == InboxInvariant /\ WalkOn => InboxInvariant'
<1> SUFFICES ASSUME InboxInvariant, WalkOn PROVE InboxInvariant'
  OBVIOUS
<1> DEFINE further == walk.offset + PageSize
<1>0. /\ UNCHANGED <<inbox, pages, whole, seen, loading, before>> /\ walk.stage = "page"
      /\ Unread(walk.page) = {}
      /\ walk' = [walk EXCEPT !.stage = "list", !.offset = further, !.page = <<>>]
  BY DEF WalkOn
<1>1. /\ walk \in [stage: {"idle", "list", "page", "open"}, offset: Nat, page: Seq(PageRows),
                   live: BOOLEAN]
      /\ <<>> \in Seq(PageRows)
  BY DEF InboxInvariant, InboxTyped
<1>2. further \in Nat
  BY <1>1, InboxAssumption
<1>3. \A i \in DOMAIN inbox : inbox[i] \in before \ seen => i > further
  BY <1>0 DEF InboxInvariant, WalkIsAhead
<1> HIDE DEF further
<1>4. /\ walk' \in [stage: {"idle", "list", "page", "open"}, offset: Nat, page: Seq(PageRows),
                    live: BOOLEAN]
      /\ walk'.stage = "list" /\ walk'.offset = further
  BY <1>0, <1>1, <1>2
<1>5. WalkIsAhead'
  BY <1>0, <1>3, <1>4 DEF InboxInvariant, WalkIsAhead, IdsOf
<1> QED
  BY <1>0, <1>4, <1>5, WalkKeeps

LEMMA InboxStep == InboxInvariant /\ InboxNext => InboxInvariant'
BY ArriveStep, ListStep, ServePageStep, StartStep, ServeWalkStep, ServeMarkStep, WalkOnStep,
   OverStep DEF InboxNext

LEMMA InboxStutters == InboxInvariant /\ UNCHANGED inboxVars => InboxInvariant'
<1> SUFFICES ASSUME InboxInvariant, UNCHANGED inboxVars PROVE InboxInvariant'
  OBVIOUS
<1>1. UNCHANGED <<inbox, seen, walk, before, pages, whole, loading>>
  BY DEF inboxVars
<1>2. loading' \in Loads /\ NoGap(inbox, seen, loading'.pages, loading'.whole)
  BY <1>1 DEF InboxInvariant, InboxTyped, Loads
<1> QED
  BY <1>1, <1>2, LoadKeeps

LEMMA InboxStarts == InboxInit => InboxInvariant
<1> SUFFICES ASSUME InboxInit PROVE InboxInvariant
  OBVIOUS
<1>1. PICK n \in 0 .. MaxNotices - 1 : inbox = [i \in 1 .. n |-> n + 1 - i]
  BY DEF InboxInit
<1>2. n \in Nat
  BY <1>1, InboxAssumption
<1>3. inbox \in Seq(Nat) /\ Len(inbox) = n /\ DOMAIN inbox = 1 .. n
  BY <1>1, <1>2
<1>4. /\ \A i, j \in 1 .. n : inbox[i] = inbox[j] => i = j
      /\ \A i \in 1 .. n : inbox[i] \in 1 .. n
  BY <1>1, <1>2
<1>5. /\ seen = {} /\ pages = <<>> /\ whole = {} /\ loading = NotLoading /\ walk = NoWalk
      /\ before = {}
  BY DEF InboxInit
<1>6. NotLoading \in Loads /\ NotLoading.pages = <<>> /\ NotLoading.whole = {}
  <2>1. <<>> \in Seq(Seq(PageRows))
    OBVIOUS
  <2> QED
    BY <2>1 DEF NotLoading, Loads
<1>7. NoWalk \in [stage: {"idle", "list", "page", "open"}, offset: Nat, page: Seq(PageRows),
                  live: BOOLEAN]
  <2>1. <<>> \in Seq(PageRows)
    OBVIOUS
  <2> QED
    BY <2>1 DEF NoWalk
<1>8. InboxTyped
  <2>1. pages \in Seq(Seq(PageRows))
    BY <1>5
  <2> QED
    BY <1>3, <1>4, <1>5, <1>6, <1>7, <2>1 DEF InboxTyped, Once, Loads
<1>9. NoGap(inbox, seen, <<>>, {})
  <2>1. {} \in SUBSET IdsOf(inbox)
    OBVIOUS
  <2> QED
    BY <1>8, <2>1, NoPagesNoGap
<1>10. WalkIsAhead
  BY <1>5 DEF WalkIsAhead
<1> QED
  BY <1>5, <1>6, <1>8, <1>9, <1>10 DEF InboxInvariant

\* What is shown somewhere is shown first somewhere, above everywhere else.
LEMMA FirstSpot ==
  ASSUME InboxInvariant, NEW s \in Spots
  PROVE  \E f \in Firsts(RowAt(s).id) : f = s \/ Above(f, s)
<1> DEFINE id == RowAt(s).id
           onPage(p) == {k \in DOMAIN pages[p] : pages[p][k].id = id}
           having == {p \in DOMAIN pages : onPage(p) # {}}
<1>1. DOMAIN pages \subseteq Nat /\ \A p \in DOMAIN pages : DOMAIN pages[p] \subseteq Nat
  BY DEF InboxInvariant, InboxTyped
<1>2. \A t : t \in Spots <=> \E p \in DOMAIN pages : \E k \in DOMAIN pages[p] : t = <<p, k>>
  BY DEF Spots
<1>3. \E q \in DOMAIN pages : \E m \in DOMAIN pages[q] : s = <<q, m>>
  BY <1>2
<1> PICK q \in DOMAIN pages : \E m \in DOMAIN pages[q] : s = <<q, m>>
  BY <1>3
<1>13. PICK m \in DOMAIN pages[q] : s = <<q, m>>
  OBVIOUS
<1>4. pages[q][m].id = id
  BY <1>13 DEF RowAt
<1> HIDE DEF id
<1>5. m \in onPage(q) /\ q \in having
  BY <1>13, <1>4
<1>6. PICK p \in having : \A other \in having : p <= other
  <2>1. having \in SUBSET Nat /\ having # {}
    BY <1>1, <1>5
  <2> HIDE DEF having
  <2> QED
    BY <2>1, LeastNumber
<1>7. PICK k \in onPage(p) : \A other \in onPage(p) : k <= other
  <2>1. onPage(p) \in SUBSET Nat /\ onPage(p) # {}
    BY <1>1, <1>6
  <2> HIDE DEF onPage
  <2> QED
    BY <2>1, LeastNumber
<1> DEFINE f == <<p, k>>
<1>8. f \in SpotsOf(id)
  BY <1>2, <1>6, <1>7 DEF SpotsOf, RowAt
<1>9. ASSUME NEW t \in SpotsOf(id)
      PROVE  ~Above(t, f) /\ (f = t \/ Above(f, t))
  <2>1. t \in Spots /\ RowAt(t).id = id
    BY DEF SpotsOf
  <2> PICK a \in DOMAIN pages : \E b \in DOMAIN pages[a] : t = <<a, b>>
    BY <1>2, <2>1
  <2>2. PICK b \in DOMAIN pages[a] : t = <<a, b>>
    OBVIOUS
  <2>3. b \in onPage(a) /\ a \in having
    BY <2>1, <2>2 DEF RowAt
  <2>4. p \in Nat /\ k \in Nat /\ a \in Nat /\ b \in Nat
    BY <1>1, <1>6, <1>7, <2>2
  <2>5. p <= a /\ (p = a => k <= b)
    BY <1>6, <1>7, <2>3
  <2>6. (a = p /\ b = k) \/ p < a \/ (p = a /\ k < b)
    BY <2>4, <2>5
  <2>7. ~(a < p) /\ ~(a = p /\ b < k)
    BY <2>4, <2>5
  <2> QED
    BY <2>2, <2>6, <2>7 DEF Above
<1>10. s \in SpotsOf(id)
  BY DEF SpotsOf, id
<1>11. f \in Firsts(id)
  BY <1>8, <1>9 DEF Firsts
<1> QED
  BY <1>9, <1>10, <1>11 DEF id

\* A notification is in one place.
LEMMA PlaceOf ==
  ASSUME InboxTyped, NEW id \in IdsOf(inbox)
  PROVE  PlaceIn(inbox, id) \in DOMAIN inbox /\ inbox[PlaceIn(inbox, id)] = id
BY DEF PlaceIn, IdsOf

LEMMA InboxTells == InboxInvariant => NothingIsSkipped
<1> SUFFICES ASSUME InboxInvariant PROVE NothingIsSkipped
  OBVIOUS
<1>1. \A t : t \in Spots <=> \E p \in DOMAIN pages : \E k \in DOMAIN pages[p] : t = <<p, k>>
  BY DEF Spots
<1>2. ASSUME NEW s \in Spots
      PROVE  /\ RowAt(s).id \in IdsOf(inbox) /\ (RowAt(s).read => RowAt(s).id \in seen)
             /\ \A i, j \in DOMAIN inbox :
                  i < j /\ inbox[i] \in whole /\ inbox[j] = RowAt(s).id =>
                    \E t \in SpotsOf(inbox[i]) : Above(t, s)
  <2> PICK p \in DOMAIN pages : \E k \in DOMAIN pages[p] : s = <<p, k>>
    BY <1>1
  <2>1. PICK k \in DOMAIN pages[p] : s = <<p, k>>
    OBVIOUS
  <2>2. RowAt(s) = pages[p][k]
    BY <2>1 DEF RowAt
  <2>3. ASSUME NEW i \in DOMAIN inbox, NEW j \in DOMAIN inbox,
               i < j, inbox[i] \in whole, inbox[j] = RowAt(s).id
        PROVE  \E t \in SpotsOf(inbox[i]) : Above(t, s)
    <3>1. HasAbove(pages, inbox[i], p, k)
      BY <2>2, <2>3 DEF InboxInvariant, NoGap
    <3>2. PICK q \in DOMAIN pages : \E m \in DOMAIN pages[q] :
            pages[q][m].id = inbox[i] /\ (q < p \/ (q = p /\ m < k))
      BY <3>1 DEF HasAbove
    <3>3. PICK m \in DOMAIN pages[q] :
            pages[q][m].id = inbox[i] /\ (q < p \/ (q = p /\ m < k))
      BY <3>2
    <3>4. <<q, m>> \in SpotsOf(inbox[i])
      BY <1>1, <3>3 DEF SpotsOf, RowAt
    <3>5. Above(<<q, m>>, s)
      BY <2>1, <3>3 DEF Above
    <3> QED
      BY <3>4, <3>5
  <2> QED
    BY <2>2, <2>3 DEF InboxInvariant, NoGap
<1>3. ASSUME NEW entry \in Shown, NEW id \in whole,
             PlaceIn(inbox, id) < PlaceIn(inbox, entry.id)
      PROVE  \E other \in Shown : other.id = id /\ Above(other.place, entry.place)
  <2>1. PICK s \in Spots : entry.id = RowAt(s).id /\ entry.place = s
    BY DEF Shown
  <2>2. InboxTyped /\ id \in IdsOf(inbox)
    BY DEF InboxInvariant, NoGap
  <2>3. PICK t \in SpotsOf(id) : Above(t, s)
    BY <1>2, <1>3, <2>1, <2>2, PlaceOf
  <2>4. t \in Spots /\ RowAt(t).id = id
    BY DEF SpotsOf
  <2>5. PICK f \in Firsts(id) : f = t \/ Above(f, t)
    BY <2>4, FirstSpot
  <2>6. f \in Spots /\ RowAt(f).id = id
    BY DEF Firsts, SpotsOf
  <2>7. Above(f, s)
    <3>1. \A u \in Spots : u[1] \in Nat /\ u[2] \in Nat
      <4>1. DOMAIN pages \subseteq Nat /\ \A p \in DOMAIN pages : DOMAIN pages[p] \subseteq Nat
        BY DEF InboxInvariant, InboxTyped
      <4> QED
        BY <1>1, <4>1
    <3> QED
      BY <2>3, <2>4, <2>5, <2>6, <3>1 DEF Above
  <2> DEFINE other == [id |-> RowAt(f).id, place |-> f,
                       read |-> \E u \in Latest(RowAt(f).id) : RowAt(u).read]
  <2>8. other \in Shown /\ other.id = id /\ other.place = f
    BY <2>5, <2>6 DEF Shown
  <2> QED
    BY <2>1, <2>7, <2>8
<1>4. ASSUME NEW entry \in Shown, entry.read
      PROVE  entry.id \in seen
  <2>1. PICK s \in Spots : /\ entry.id = RowAt(s).id
                           /\ entry.read => \E t \in Latest(RowAt(s).id) : RowAt(t).read
    BY DEF Shown
  <2>2. PICK t \in Latest(RowAt(s).id) : RowAt(t).read
    BY <1>4, <2>1
  <2>3. t \in Spots /\ RowAt(t).id = RowAt(s).id
    BY DEF Latest, SpotsOf
  <2> QED
    BY <1>2, <2>1, <2>2, <2>3
<1>5. WalkReadsAll
  <2> SUFFICES ASSUME Walked, NEW id \in before, id \notin seen
               PROVE  FALSE
    BY DEF WalkReadsAll
  <2>1. PICK i \in DOMAIN inbox : inbox[i] = id
    BY DEF InboxInvariant, WalkIsAhead, IdsOf
  <2>2. \/ \E m \in Unread(walk.page) : walk.page[m].id = inbox[i]
        \/ Len(walk.page) = PageSize
    BY <2>1 DEF InboxInvariant, WalkIsAhead, Walked
  <2>3. Len(walk.page) \in Nat /\ PageSize \in Nat
    BY InboxAssumption DEF InboxInvariant, InboxTyped
  <2> QED
    BY <2>2, <2>3 DEF Walked
<1> QED
  BY <1>3, <1>4, <1>5 DEF NothingIsSkipped, ListHasNoGap

LEMMA InboxInvariantHolds == InboxSpec => []InboxInvariant
BY InboxStarts, InboxStep, InboxStutters, PTL DEF InboxSpec

(***************************************************************************)
(* For any size of a page, number of notifications and depth at which a    *)
(* late one may come in: the pages of the list, read by offset while it    *)
(* grows, show everything that was in the inbox above what they show, and  *)
(* nothing as read that is not; and marking all as read, which walks by    *)
(* offset too, leaves nothing that was there when it began.                *)
(***************************************************************************)
THEOREM NoNotificationIsSkipped == InboxSpec => []NothingIsSkipped
BY InboxTells, InboxInvariantHolds, PTL

-----------------------------------------------------------------------------
(***************************************************************************)
(* A behaviour of the account is one of each of its parts, so that what is *)
(* proved of a part holds in the account.                                  *)
(***************************************************************************)
THEOREM AccountIsItsParts == AccountSpec => Spec /\ CodeSpec /\ BookSpec /\ InboxSpec
<1>1. AccountInit => Init /\ CodeInit /\ BookInit /\ InboxInit
  BY DEF AccountInit
<1>2. [AccountNext]_accountVars =>
        [Next]_vars /\ [CodeNext]_codeVars /\ [BookNext]_bookVars /\ [InboxNext]_inboxVars
  BY DEF AccountNext, accountVars
<1> QED
  BY <1>1, <1>2, PTL DEF AccountSpec, Spec, CodeSpec, BookSpec, InboxSpec
=============================================================================
