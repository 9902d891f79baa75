--------------------------- MODULE SessionFamilies ---------------------------
(***************************************************************************)
(* Authentication sessions as the API keeps them, for the modules of the   *)
(* two clients.  A session is one row; a refresh token names its session   *)
(* and a generation, and the row remembers the hash of the one generation  *)
(* it will accept.  Presenting an older one revokes the session.  The      *)
(* access token issued with a generation is accepted until it ages or the  *)
(* session is revoked.                                                     *)
(***************************************************************************)
EXTENDS Naturals

CONSTANTS
  Users,        \* customers, or staff
  Nobody,       \* no user
  MaxSessions,  \* bound: sessions opened
  MaxGen        \* bound: generations of one session before it expires

ASSUME FamilyAssumption ==
  Nobody \notin Users /\ MaxSessions \in Nat \ {0} /\ MaxGen \in Nat \ {0}

Sessions == 1 .. MaxSessions
Tokens == Sessions \X (1 .. MaxGen)
NoToken == <<0, 0>>

Families == [Sessions -> [user: Users \union {Nobody}, gen: 0 .. MaxGen, open: BOOLEAN]]
NoFamilies == [s \in Sessions |-> [user |-> Nobody, gen |-> 0, open |-> FALSE]]

UserOf(family, t) == IF t \in Tokens THEN family[t[1]].user ELSE Nobody

\* The row's hash is that of token t.
Hashed(family, t) == t \in Tokens /\ family[t[1]].gen = t[2]
IsOpen(family, t) == t \in Tokens /\ family[t[1]].open

\* get_current_actor(): the token has not aged and its session is not revoked.
\* Access tokens age in the order they were issued in: aged[s] generations.
Authenticates(family, aged, t) == IsOpen(family, t) /\ t[2] > aged[t[1]]

NoneAged == [s \in Sessions |-> 0]

\* expires_at has come when generation MaxGen is presented (bound).
Expired(t) == t[2] = MaxGen

\* refresh(): the row is locked, so presentations of a token are one after
\* the other.
Rotates(family, t) == IsOpen(family, t) /\ ~Expired(t) /\ Hashed(family, t)
Reuses(family, t) == IsOpen(family, t) /\ ~Expired(t) /\ ~Hashed(family, t)
Rotated(t) == <<t[1], t[2] + 1>>

Refreshed(family, t) ==
  IF Rotates(family, t) THEN [family EXCEPT ![t[1]].gen = @ + 1]
  ELSE IF Reuses(family, t) THEN [family EXCEPT ![t[1]].open = FALSE]
  ELSE family

\* logout(): a token that is not the current one ends nothing.
LoggedOut(family, t) ==
  IF IsOpen(family, t) /\ Hashed(family, t)
  THEN [family EXCEPT ![t[1]].open = FALSE] ELSE family

\* _create_session(), after the one-time code was verified.
Unopened(family) == {s \in Sessions : family[s].user = Nobody}
Opened(family, s, u) == [family EXCEPT ![s] = [user |-> u, gen |-> 1, open |-> TRUE]]
=============================================================================
