----------------------------- MODULE LoginSwitch -----------------------------
(***************************************************************************)
(* The ordinary user of the cluster.  To make a client for that user,      *)
(* unprivileged_client logs the kubeconfig in as the user, takes the       *)
(* current context out of it and logs it back in; test_idp_user does the   *)
(* same to find out whether a new user exists yet.  The kubeconfig is one  *)
(* file, and every pytest process of the machine uses it; so does every    *)
(* "oc" a test calls.  A login may be refused, in one of two ways: oc      *)
(* prints "error", which raises, or anything else, which returns False.    *)
(***************************************************************************)
EXTENDS Naturals

CONSTANTS
    Workers,
    Probes,    \* those that run test_idp_user; the others make a client
    Unasked,   \* what a worker does not have: a client, a user to go back to
    MaxRefused \* bound: logins refused

ASSUME LoginAssumption ==
    Probes \subseteq Workers /\ Unasked \notin {"admin", "user"} /\ MaxRefused \in Nat

\* use_unprivileged_client is off; there is no such user; the cluster's
\* authentication is of type OIDC; or none of these.
Modes == {"off", "nobody", "oidc", "login"}

VARIABLES
    mode,
    kubeconfig,  \* who it is logged in as
    at,          \* where a worker is
    before,      \* current_user, original_user: whom to go back to
    client,      \* as whom the worker's client acts
    refused,     \* logins refused so far
    together     \* history: two workers were switching at once

loginVars == <<mode, kubeconfig, at, before, client, refused, together>>

Switching == {"login", "context", "back"}

LoginInit ==
    /\ mode \in Modes /\ kubeconfig = "admin"
    /\ at = [w \in Workers |-> "start"] /\ before = [w \in Workers |-> Unasked]
    /\ client = [w \in Workers |-> Unasked]
    /\ refused = 0 /\ together = FALSE

To(w, place) ==
    /\ at' = [at EXCEPT ![w] = place]
    /\ together' = (together \/ \E v \in Workers : at[v] \in Switching /\ v # w)

Switches(w) == mode = "login" \/ (w \in Probes /\ mode # "oidc")

\* Without a login: the admin's client stands in for the user's; there is no
\* client; or it is made of tokens, and the kubeconfig left as it is.  With
\* OIDC a probe has nothing to find out.
NoSwitch(w) ==
    /\ at[w] = "start" /\ ~Switches(w)
    /\ at' = [at EXCEPT ![w] = IF mode = "nobody" THEN "failed" ELSE "ready"]
    /\ client' = [client EXCEPT ![w] =
                    IF w \in Probes \/ mode = "nobody" THEN Unasked
                    ELSE IF mode = "off" THEN "admin" ELSE "user"]
    /\ UNCHANGED <<mode, kubeconfig, before, refused, together>>

\* "oc whoami".
WhoAmI(w) ==
    /\ at[w] = "start" /\ Switches(w)
    /\ before' = [before EXCEPT ![w] = kubeconfig] /\ To(w, "login")
    /\ UNCHANGED <<mode, kubeconfig, client, refused>>

Login(w) ==
    /\ at[w] = "login" /\ kubeconfig' = "user"
    /\ To(w, IF w \in Probes THEN "back" ELSE "context")
    /\ UNCHANGED <<mode, before, client, refused>>

\* A probe tries again if the login returned False, while there is time; an
\* error ends it, and so does either for the client.
LoginRefused(w) ==
    /\ at[w] = "login" /\ refused < MaxRefused /\ refused' = refused + 1
    /\ \/ w \in Probes /\ To(w, "login")
       \/ To(w, "failed")
    /\ UNCHANGED <<mode, kubeconfig, before, client>>

\* Fault: the client is made before the kubeconfig is logged in.
ReadContextEarly(w) ==
    /\ at[w] = "context" /\ client' = [client EXCEPT ![w] = before[w]] /\ To(w, "back")
    /\ UNCHANGED <<mode, kubeconfig, before, refused>>

\* current-context names an entry of its own for each user.
ReadContext(w) ==
    /\ at[w] = "context" /\ client' = [client EXCEPT ![w] = kubeconfig] /\ To(w, "back")
    /\ UNCHANGED <<mode, kubeconfig, before, refused>>

\* The context is not to be had: get_client raises.
NoClient(w) ==
    /\ at[w] = "context" /\ refused < MaxRefused /\ refused' = refused + 1 /\ To(w, "failed")
    /\ UNCHANGED <<mode, kubeconfig, before, client>>

\* Without a password: the token of that user is in the kubeconfig.
LogBack(w) ==
    /\ at[w] = "back" /\ kubeconfig' = before[w] /\ To(w, "ready")
    /\ UNCHANGED <<mode, before, client, refused>>

\* The result is not looked at; an error raises.
LogBackRefused(w) ==
    /\ at[w] = "back" /\ refused < MaxRefused /\ refused' = refused + 1
    /\ To(w, "ready") \/ To(w, "failed")
    /\ UNCHANGED <<mode, kubeconfig, before, client>>

LoginStep(w) ==
    \/ NoSwitch(w) \/ WhoAmI(w) \/ Login(w) \/ LoginRefused(w) \/ ReadContext(w) \/ NoClient(w)
    \/ LogBack(w) \/ LogBackRefused(w)
=============================================================================
