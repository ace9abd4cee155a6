------------------------------- MODULE WebAccess -------------------------------
(***************************************************************************)
(* Who may use the web interface: the sessions, their renewal, and the     *)
(* credentials, which are two fields of the settings.  Requests run at the *)
(* same time; each step of one is a transaction of the store, a read of    *)
(* the cached settings, or the taking of the renewal's lock.               *)
(***************************************************************************)
EXTENDS Naturals, Sequences, FiniteSets

CONSTANTS
  Requests,   \* requests at the same time
  Ids,        \* session ids, drawn at random: each is given once
  Users,      \* names and
  Passwords   \* passwords the administrator may have

None == "none"

AccessAssumption == Requests # {} /\ Users # {} /\ Passwords # {} /\ None \notin Requests

Nobody == [user |-> None, age |-> "old"]
Ages == {"fresh", "stale", "old"}  \* below 5 minutes, below 3 days, above
Credentials == [user : Users, pw : Passwords]

VARIABLES
  stored,    \* the settings in the store,
  cache,     \* and in memory
  session,   \* the bucket "auth"; Nobody: no such key
  lock,      \* authSessionRefreshMu: who holds it
  job,       \* the requests
  drawn,     \* ids that have been given
  revoked    \* history: ids taken back while no renewal was under way

vars == <<stored, cache, session, lock, job, drawn, revoked>>
setting == <<stored, cache>>

Idle == [todo |-> <<>>, id |-> None, read |-> Nobody,
         set |-> [user |-> None, pw |-> None], cached |-> [user |-> None, pw |-> None]]

At(r, label) == job[r].todo # <<>> /\ Head(job[r].todo) = label
Done(r, known) ==
  job' = [job EXCEPT ![r] = IF Len(@.todo) = 1 THEN Idle ELSE [known EXCEPT !.todo = Tail(@)]]
Leave(r) == job' = [job EXCEPT ![r] = Idle]

Valid(s) == s.age # "old" /\ s.user = cache.user
Quiet == \A r \in Requests : job[r] = Idle

Init ==
  /\ stored \in Credentials /\ cache = stored
  /\ session = [i \in Ids |-> Nobody] /\ drawn = {} /\ revoked = {}
  /\ lock = None
  /\ job = [r \in Requests |-> Idle]

-----------------------------------------------------------------------------
(* login reads the credentials, then stores a session.                     *)
Login(r, typed) ==
  /\ job[r] = Idle
  /\ typed = cache
  /\ job' = [job EXCEPT ![r] = [Idle EXCEPT !.todo = <<"login">>,
                                !.read = [user |-> typed.user, age |-> "fresh"]]]
  /\ UNCHANGED <<setting, session, lock, drawn, revoked>>

StoreLogin(r, i) ==
  /\ At(r, "login") /\ i \notin drawn
  /\ session' = [session EXCEPT ![i] = job[r].read]
  /\ drawn' = drawn \union {i}
  /\ Leave(r)
  /\ UNCHANGED <<setting, lock, revoked>>

(* Every other request begins with validateSession.                        *)
Request(r, i, rest, set) ==
  /\ job[r] = Idle /\ i \in drawn
  /\ job' = [job EXCEPT ![r] = [Idle EXCEPT !.todo = <<"get", "lock", "reread", "renew">> \o rest,
                                            !.id = i, !.set = set]]
  /\ UNCHANGED <<setting, session, lock, drawn, revoked>>

Skip(r, n) ==
  LET todo == job[r].todo
  IN job' = [job EXCEPT ![r] = IF Len(todo) = n THEN Idle
                               ELSE [@ EXCEPT !.todo = SubSeq(todo, n + 1, Len(todo)),
                                              !.read = Nobody]]

(* GetSession: no such session, one that is not valid (it is deleted), one *)
(* that was renewed lately, or one to renew.                               *)
Get(r) ==
  LET s == session[job[r].id]
  IN /\ At(r, "get")
     /\ CASE s = Nobody -> Leave(r)
          [] s # Nobody /\ ~Valid(s) -> job' = [job EXCEPT ![r].todo = <<"drop">>]
          [] Valid(s) /\ s.age = "fresh" -> Skip(r, 4)
          [] OTHER -> Done(r, [job[r] EXCEPT !.read = s])
     /\ UNCHANGED <<setting, session, lock, drawn, revoked>>

Drop(r) ==
  /\ At(r, "drop")
  /\ session' = [session EXCEPT ![job[r].id] = Nobody]
  /\ lock' = IF lock = r THEN None ELSE lock
  /\ Leave(r)
  /\ UNCHANGED <<setting, drawn, revoked>>

Lock(r) ==
  /\ At(r, "lock") /\ lock = None
  /\ lock' = r
  /\ Done(r, job[r])
  /\ UNCHANGED <<setting, session, drawn, revoked>>

(* Variant: what was read before the lock is used.                         *)
RereadNot(r) ==
  /\ At(r, "reread")
  /\ Done(r, job[r])
  /\ UNCHANGED <<setting, session, lock, drawn, revoked>>

Reread(r) ==
  LET s == session[job[r].id]
  IN /\ At(r, "reread")
     /\ \/ /\ s = Nobody
           /\ lock' = None /\ Leave(r)
        \/ /\ s # Nobody /\ ~Valid(s)
           /\ job' = [job EXCEPT ![r].todo = <<"drop">>] /\ UNCHANGED lock
        \/ /\ Valid(s) /\ s.age = "fresh"
           /\ lock' = None /\ Skip(r, 2)
        \/ /\ Valid(s) /\ s.age = "stale"
           /\ Done(r, [job[r] EXCEPT !.read = s]) /\ UNCHANGED lock
     /\ UNCHANGED <<setting, session, drawn, revoked>>

Renew(r) ==
  /\ At(r, "renew")
  /\ session' = [session EXCEPT ![job[r].id] = [job[r].read EXCEPT !.age = "fresh"]]
  /\ lock' = None
  /\ Done(r, job[r])
  /\ UNCHANGED <<setting, drawn, revoked>>

-----------------------------------------------------------------------------
Revoke(ids) == revoked' = IF lock = None THEN revoked \union ids ELSE revoked

(* clearSession, at a logout and after a change of the password.           *)
Logout(r) ==
  /\ At(r, "logout")
  /\ session' = [session EXCEPT ![job[r].id] = Nobody]
  /\ Revoke({job[r].id})
  /\ Done(r, job[r])
  /\ UNCHANGED <<setting, lock, drawn>>

(* changePassword and setSetting complete their settings from the ones in  *)
(* memory: the first changes the password only, the second the rest.       *)
ReadSetting(r) ==
  /\ At(r, "setting")
  /\ Done(r, [job[r] EXCEPT
       !.set = [user |-> IF @.user = None THEN cache.user ELSE @.user,
                pw   |-> IF @.pw = None THEN cache.pw ELSE @.pw]])
  /\ UNCHANGED <<setting, session, lock, drawn, revoked>>

(* SetSetting: stored, read back, and then put in memory.                  *)
PutSetting(r) ==
  /\ At(r, "put")
  /\ stored' = job[r].set
  /\ Done(r, job[r])
  /\ UNCHANGED <<cache, session, lock, drawn, revoked>>

LoadSetting(r) ==
  /\ At(r, "load")
  /\ Done(r, [job[r] EXCEPT !.cached = stored])
  /\ UNCHANGED <<setting, session, lock, drawn, revoked>>

CacheSetting(r) ==
  /\ At(r, "cache")
  /\ cache' = job[r].cached
  /\ Done(r, job[r])
  /\ UNCHANGED <<stored, session, lock, drawn, revoked>>

ClearAll(r) ==
  /\ At(r, "clear")
  /\ session' = [i \in Ids |-> Nobody]
  /\ Revoke(drawn)
  /\ Done(r, job[r])
  /\ UNCHANGED <<setting, lock, drawn>>

(* Time passes while no request is under way (a request takes no minutes). *)
Age(i) ==
  /\ Quiet /\ session[i] # Nobody /\ session[i].age # "old"
  /\ session' = [session EXCEPT ![i].age = IF @ = "fresh" THEN "stale" ELSE "old"]
  /\ UNCHANGED <<setting, lock, job, drawn, revoked>>

(* The process boots: CleanExpiredSessions, and the settings are read.     *)
Boot ==
  /\ session' = [i \in Ids |-> IF session[i].age = "old" THEN Nobody ELSE session[i]]
  /\ cache' = stored
  /\ lock' = None /\ job' = [r \in Requests |-> Idle]
  /\ UNCHANGED <<stored, drawn, revoked>>

-----------------------------------------------------------------------------
Put == <<"setting", "put", "load", "cache">>
NoChange == [user |-> None, pw |-> None]

Next ==
  \/ \E r \in Requests :
       \/ \E typed \in Credentials : Login(r, typed)
       \/ \E i \in Ids :
            \/ StoreLogin(r, i)
            \/ Request(r, i, <<>>, NoChange) \/ Request(r, i, <<"logout">>, NoChange)
            \/ \E pw \in Passwords :
                 Request(r, i, Put \o <<"clear", "logout">>, [NoChange EXCEPT !.pw = pw])
            \/ \E user \in Users, pw \in Passwords \union {None} :
                 Request(r, i, Put, [user |-> user, pw |-> pw])
       \/ Get(r) \/ Drop(r) \/ Lock(r) \/ Reread(r) \/ Renew(r)
       \/ Logout(r) \/ ReadSetting(r) \/ PutSetting(r) \/ LoadSetting(r)
       \/ CacheSetting(r) \/ ClearAll(r)
  \/ \E i \in Ids : Age(i)
  \/ Boot

Spec == Init /\ [][Next]_vars

-----------------------------------------------------------------------------
TypeOK ==
  /\ stored \in Credentials /\ cache \in Credentials
  /\ \A i \in Ids : session[i] = Nobody \/ session[i] \in [user : Users, age : Ages]
  /\ lock \in Requests \union {None}
  /\ \A r \in Requests : job[r].id \in Ids \union {None}

(* "The password is changed, please log in again" (App.vue:763): a session *)
(* that was taken back stays so, although requests that have found it      *)
(* valid are still under way and will renew it; and of those that find it  *)
(* due for renewal one renews it (auth.go:190).  The renewal that holds    *)
(* the lock at that very moment is the exception, see the README.          *)
RevokedStay ==
  /\ \A i \in revoked : session[i] = Nobody
  /\ \A r \in Requests : At(r, "renew") /\ session[job[r].id] # Nobody =>
       session[job[r].id].age = "stale"
=============================================================================
