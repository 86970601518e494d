---- MODULE AuthTokens ----
(* Access and refresh tokens: login, refresh and logout (src/api/auth.rs),
   JwtManager and its blacklist (src/auth/jwt.rs), and the middleware that
   lets a request through.  A token is a record of what is signed into it;
   `login` is the login it goes back to.  A request reads the user from the
   database at an await and signs later, with the time it is then.  The
   blacklist is in memory: a restart empties it, and as the secret comes
   from the environment the tokens stay good.  Without a user repository, which
   is how server.rs sets it up, every login and every refresh invents a
   user id; with one, the id and the role are the stored ones. *)
EXTENDS Naturals, FiniteSets

CONSTANTS Users,
          Roles,
          AccessLife, RefreshLife,  \* lifetimes: 15 minutes and a day
          MaxClock, MaxSubjects      \* bounds, the second on users that are read

ASSUME TokensAssumption == {AccessLife, RefreshLife, MaxClock} \subseteq Nat /\ AccessLife < RefreshLife

VARIABLES
  stored,    \* is there a user repository?  Set once
  roleOf,    \* the stored role of each user
  changed,   \* since when it is their role
  asked,     \* refresh tokens let in, whose user is being looked up
  found,     \* users read for a login or a refresh that has yet to sign
  issued,    \* tokens given out
  blacklist, \* marks of revoked tokens
  ended,     \* tokens a logout was made with since the last restart, for the properties
  logins, subjects, clock

authVars == <<stored, roleOf, changed, asked, found, issued, blacklist, ended, logins, subjects, clock>>

AuthInit ==
  /\ stored \in BOOLEAN
  /\ roleOf \in [Users -> Roles]
  /\ changed = [u \in Users |-> 0]
  /\ asked = {} /\ found = {} /\ issued = {} /\ blacklist = {} /\ ended = {}
  /\ logins = 0 /\ subjects = 0 /\ clock = 0

----
MarkWhole(t) == t  \* the defect: the whole token
(* The first 64 characters: the header, and the claims up to the first
   digits of the user id. *)
Mark(t) == t.sub

Life(t) == IF t.kind = "access" THEN AccessLife ELSE RefreshLife

(* pre_validate_token, decode, post_validate_claims. *)
Accepted(t, kind) ==
  /\ t.kind = kind
  /\ clock < t.iat + Life(t)
  /\ Mark(t) \notin blacklist

\* The n-th user id there is: the stored one of u, or one that is drawn.
Subject(u, n) == IF stored THEN <<u, 0>> ELSE <<u, n>>

(* A user as read for a request that signs tokens of `kinds`; `late` is set
   when the stored role changes before it does. *)
Reading(u, role, kinds, login) ==
  [user |-> u, sub |-> Subject(u, subjects'), role |-> role, kinds |-> kinds, login |-> login, late |-> FALSE]

Token(q, kind) ==
  [user |-> q.user, sub |-> q.sub, role |-> q.role, kind |-> kind, iat |-> clock,
   login |-> q.login, late |-> q.late]

(* login, up to the answer of the database. *)
Login(u) ==
  /\ subjects < MaxSubjects
  /\ logins' = logins + 1 /\ subjects' = subjects + 1
  /\ found' = found \cup {Reading(u, roleOf[u], {"access", "refresh"}, logins')}
  /\ UNCHANGED <<stored, roleOf, changed, asked, issued, blacklist, ended, clock>>

(* refresh_token: the token is validated and its user looked up; the
   database may fail and the client may go while it is. *)
Refresh(t) ==
  /\ Accepted(t, "refresh")
  /\ asked' = asked \cup {t}
  /\ UNCHANGED <<stored, roleOf, changed, found, issued, blacklist, ended, logins, subjects, clock>>

RoleOfClaims(t) == t.role  \* the defect: the role of the claims
RoleNow(t) == roleOf[t.user]

LookUp(t) ==
  /\ subjects < MaxSubjects
  /\ subjects' = subjects + 1
  /\ asked' = asked \ {t}
  /\ found' = found \cup {Reading(t.user, RoleNow(t), {"access"}, t.login)}
  /\ UNCHANGED <<stored, roleOf, changed, issued, blacklist, ended, logins, clock>>

NotLookedUp(t) ==
  /\ asked' = asked \ {t}
  /\ UNCHANGED <<stored, roleOf, changed, found, issued, blacklist, ended, logins, subjects, clock>>

(* Nothing is awaited between the tokens of one request. *)
Sign(q) ==
  /\ found' = found \ {q}
  /\ issued' = issued \cup {Token(q, k) : k \in q.kinds}
  /\ UNCHANGED <<stored, roleOf, changed, asked, blacklist, ended, logins, subjects, clock>>

(* logout, behind jwt_auth: the access token is revoked. *)
Logout(t) ==
  /\ Accepted(t, "access")
  /\ blacklist' = blacklist \cup {Mark(t)}
  /\ ended' = ended \cup {t}
  /\ UNCHANGED <<stored, roleOf, changed, asked, found, issued, logins, subjects, clock>>

(* The process ends, with its requests, and is started again. *)
RestartServer ==
  /\ asked' = {} /\ found' = {} /\ blacklist' = {} /\ ended' = {}
  /\ UNCHANGED <<stored, roleOf, changed, issued, logins, subjects, clock>>

SetRole(u, r) ==
  /\ stored /\ roleOf[u] # r
  /\ roleOf' = [roleOf EXCEPT ![u] = r]
  /\ changed' = [changed EXCEPT ![u] = clock]
  /\ found' = {[q EXCEPT !.late = @ \/ q.user = u] : q \in found}
  /\ UNCHANGED <<stored, asked, issued, blacklist, ended, logins, subjects, clock>>

AuthTick ==
  /\ clock < MaxClock
  /\ clock' = clock + 1
  /\ UNCHANGED <<stored, roleOf, changed, asked, found, issued, blacklist, ended, logins, subjects>>

AuthNext ==
  \/ \E u \in Users : Login(u) \/ \E r \in Roles : SetRole(u, r)
  \/ \E t \in issued : Refresh(t) \/ Logout(t)
  \/ \E t \in asked : LookUp(t) \/ NotLookedUp(t)
  \/ \E q \in found : Sign(q)
  \/ RestartServer
  \/ AuthTick

AuthSpec == AuthInit /\ [][AuthNext]_authVars

----
AuthTypeOK ==
  /\ roleOf \in [Users -> Roles] /\ changed \in [Users -> 0..MaxClock]
  /\ ended \subseteq issued /\ asked \subseteq issued
  /\ \A t \in issued : t.user \in Users /\ t.role \in Roles /\ t.iat <= clock
  /\ found \subseteq [user : Users, sub : Users \X Nat, role : Roles, kinds : SUBSET {"access", "refresh"},
                     login : Nat, late : BOOLEAN]

(* Who logs out with an access token has logged out until the server is
   restarted: the refresh token it came with, or was made from, is refused
   as well, although no one revoked it, and so is what a refresh gives that
   was under way (logout 268-306, revoke_token 256-269). *)
LogoutEndsTheLogin ==
  stored => \A t \in ended, r \in issued : r.login = t.login => ~Accepted(r, r.kind)

(* A role that was taken from a user is gone from what is let through once
   an access token's life has passed, whatever refresh tokens say, but for
   tokens of a request that had read the user when the role changed and
   had yet to sign (login 147-212, refresh_token 215-265). *)
TakenRolesFade ==
  \A t \in issued : Accepted(t, "access") /\ t.role # roleOf[t.user] =>
      t.late \/ clock < changed[t.user] + AccessLife

(* A token that nobody revoked is good until it expires ("the unique
   identifier of the token"). *)
OnlyRevokedAreRefused ==
  \A t \in issued : t.kind = "access" /\ clock < t.iat + Life(t) /\ ~Accepted(t, "access") =>
      \E s \in ended : s.login = t.login

(* What a login gave out ends with it, and what it said fades. *)
TokensInv == AuthTypeOK /\ LogoutEndsTheLogin /\ TakenRolesFade
====
