----------------------------- MODULE GoogleSignIn -----------------------------
(***************************************************************************)
(* The credentials that the Drive and the Sheets client share              *)
(* (services/drive/drive_auth.py): kept in memory and, encrypted, in       *)
(* token.json, refreshed silently, and obtained in a browser only when the *)
(* user asks for it.  One lock guards all of it and is held throughout.    *)
(*                                                                         *)
(* A credential is valid, has expired (its refresh token may be good or    *)
(* revoked: the answer to a refresh is free), or is not there.             *)
(***************************************************************************)
EXTENDS Integers, FiniteSets

CONSTANTS
  Callers,        \* the threads that call get_credentials or sign_out
  Nobody,         \* who holds the lock when it is free
  MaxAuthCalls,   \* bound: calls made
  MaxExpiries     \* bound: times the access token expires

ASSUME SignInAssumption ==
  /\ Nobody \notin Callers
  /\ MaxAuthCalls \in Nat /\ MaxExpiries \in Nat

VARIABLES
  memory,      \* _credentials
  token,       \* token.json
  authStatus,  \* _status
  lock,        \* who holds _lock
  asking,      \* asking[t]: the call of thread t: where it is, and its argument
  authCalls, expiries    \* what the bounds count

signInVars == <<memory, token, authStatus, lock, asking, authCalls, expiries>>

Quiet == [at |-> "idle", interactive |-> FALSE]

SignInTypeOK ==
  /\ memory \in {"none", "valid", "expired"}
  /\ token \in {"none", "valid", "expired", "unreadable"}
  /\ authStatus \in {"SIGNED_OUT", "AUTHENTICATING", "AUTHENTICATED", "EXPIRED", "ERROR"}
  /\ lock \in Callers \cup {Nobody}
  /\ asking \in [Callers ->
       [at : {"idle", "get", "out", "load", "refresh", "decide", "consent", "persist"},
        interactive : BOOLEAN]]
  /\ authCalls \in 0..MaxAuthCalls /\ expiries \in 0..MaxExpiries

\* An installation that nobody has signed in yet.
SignInInit ==
  /\ memory = "none" /\ token = "none" /\ authStatus = "SIGNED_OUT"
  /\ lock = Nobody
  /\ asking = [t \in Callers |-> Quiet]
  /\ authCalls = 0 /\ expiries = 0

At(t, at)   == asking[t].at = at
Move(t, at) == asking' = [asking EXCEPT ![t].at = at]

\* The call returns or raises, and the lock is released.
Leaving(t) == asking' = [asking EXCEPT ![t] = Quiet] /\ lock' = Nobody

-----------------------------------------------------------------------------

GetCredentials(t, interactive) ==
  /\ At(t, "idle") /\ authCalls < MaxAuthCalls
  /\ asking' = [asking EXCEPT ![t] = [at |-> "get", interactive |-> interactive]]
  /\ authCalls' = authCalls + 1
  /\ UNCHANGED <<memory, token, authStatus, lock, expiries>>

\* Credentials in memory that are valid are returned at once.
Acquire(t) ==
  /\ At(t, "get") /\ lock = Nobody
  /\ IF memory = "valid" THEN Leaving(t) /\ UNCHANGED authStatus
     ELSE lock' = t /\ Move(t, "load") /\ authStatus' = "AUTHENTICATING"
  /\ UNCHANGED <<memory, token, authCalls, expiries>>

\* _load_encrypted_token: a file that cannot be read or decrypted counts as none.
Load(t) ==
  /\ At(t, "load")
  /\ IF token = "valid"
     THEN memory' = "valid" /\ authStatus' = "AUTHENTICATED" /\ Leaving(t)
     ELSE /\ Move(t, IF token = "expired" THEN "refresh" ELSE "decide")
          /\ UNCHANGED <<memory, authStatus, lock>>
  /\ UNCHANGED <<token, authCalls, expiries>>

\* creds.refresh(): accepted; refused with a RefreshError; or the network is
\* down, and an exception that nobody here catches leaves the call.
RefreshAccepted(t) ==
  /\ At(t, "refresh") /\ Move(t, "persist")
  /\ UNCHANGED <<memory, token, authStatus, lock, authCalls, expiries>>

RefreshRefused(t) ==
  /\ At(t, "refresh") /\ Move(t, "decide")
  /\ authStatus' = "EXPIRED"
  /\ UNCHANGED <<memory, token, lock, authCalls, expiries>>

MutantEscape(t) ==
  /\ At(t, "refresh") \/ At(t, "persist")
  /\ asking' = [asking EXCEPT ![t] = Quiet]
  /\ UNCHANGED <<memory, token, authStatus, lock, authCalls, expiries>>

Escape(t) ==
  /\ At(t, "refresh") \/ At(t, "persist")
  /\ Leaving(t)
  /\ UNCHANGED <<memory, token, authStatus, authCalls, expiries>>

MutantNoToken(t) ==
  /\ At(t, "decide") /\ Move(t, "consent")
  /\ UNCHANGED <<memory, token, authStatus, lock, authCalls, expiries>>

\* Without a usable token a silent call raises DriveAuthError; an interactive
\* one opens the browser, if there is a credentials.json.
NoToken(t) ==
  /\ At(t, "decide")
  /\ \/ /\ ~asking[t].interactive
        /\ authStatus' = IF token = "expired" THEN "EXPIRED" ELSE "SIGNED_OUT"
        /\ Leaving(t)
     \/ asking[t].interactive /\ authStatus' = "ERROR" /\ Leaving(t)
     \/ asking[t].interactive /\ Move(t, "consent") /\ UNCHANGED <<authStatus, lock>>
  /\ UNCHANGED <<memory, token, authCalls, expiries>>

\* run_local_server has no timeout: the user may never answer.
Consent(t) ==
  /\ At(t, "consent")
  /\ \/ Move(t, "persist") /\ UNCHANGED <<authStatus, lock>>
     \/ authStatus' = "ERROR" /\ Leaving(t)
  /\ UNCHANGED <<memory, token, authCalls, expiries>>

\* _persist, and the assignment of what it kept.
Persist(t) ==
  /\ At(t, "persist")
  /\ token' = "valid" /\ memory' = "valid" /\ authStatus' = "AUTHENTICATED"
  /\ Leaving(t)
  /\ UNCHANGED <<authCalls, expiries>>

-----------------------------------------------------------------------------

AskSignOut(t) ==
  /\ At(t, "idle") /\ authCalls < MaxAuthCalls
  /\ asking' = [asking EXCEPT ![t].at = "out"]
  /\ authCalls' = authCalls + 1
  /\ UNCHANGED <<memory, token, authStatus, lock, expiries>>

\* sign_out: the memory, the token and its key.
SignOut(t) ==
  /\ At(t, "out") /\ lock = Nobody
  /\ memory' = "none" /\ token' = "none" /\ authStatus' = "SIGNED_OUT"
  /\ Leaving(t)
  /\ UNCHANGED <<authCalls, expiries>>

\* An hour passes.
Expire ==
  /\ expiries < MaxExpiries
  /\ memory' = IF memory = "valid" THEN "expired" ELSE memory
  /\ token' = IF token = "valid" THEN "expired" ELSE token
  /\ expiries' = expiries + 1
  /\ UNCHANGED <<authStatus, lock, asking, authCalls>>

\* The file or its key is damaged.
Spoil ==
  /\ expiries < MaxExpiries /\ token # "none"
  /\ token' = "unreadable" /\ expiries' = expiries + 1
  /\ UNCHANGED <<memory, authStatus, lock, asking, authCalls>>

SignInStep(t) ==
  \/ Acquire(t) \/ Load(t) \/ RefreshAccepted(t) \/ RefreshRefused(t) \/ Escape(t)
  \/ NoToken(t) \/ Persist(t) \/ SignOut(t)

SignInNext ==
  \/ \E t \in Callers : \/ \E b \in BOOLEAN : GetCredentials(t, b)
                        \/ AskSignOut(t) \/ Consent(t) \/ SignInStep(t)
  \/ Expire \/ Spoil

\* The threads go on and the network answers or fails; the user need not.
SignInFairness == \A t \in Callers : SF_signInVars(SignInStep(t))

SignInSpec == SignInInit /\ [][SignInNext]_signInVars /\ SignInFairness

-----------------------------------------------------------------------------
(* Properties. *)

\* A sign-out sticks: whoever was refreshing or waiting for the lock at the
\* time, a token comes back only from a browser that a user was asked in.
SignedOutStaysOut ==
  [][(token = "none" /\ token' # "none") =>
       \E t \in Callers : At(t, "persist") /\ asking[t].interactive]_signInVars

\* A silent call ("never opens a browser") returns or raises, unless somebody
\* else's browser window is open: that one holds the lock as long as it likes.
SilentCallsReturn ==
  []<>(\/ \A t \in Callers : At(t, "idle") \/ asking[t].interactive
       \/ \E u \in Callers : At(u, "consent") /\ asking[u].interactive)

=============================================================================
