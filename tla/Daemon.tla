------------------------------- MODULE Daemon -------------------------------
(***************************************************************************)
(* iiLocalLLMD (service_main.cpp): processes that come up on one Models    *)
(* directory and one local endpoint, serve, and stop or die.  Each holds   *)
(* two lock files: the catalog's, from its first operation on, and the     *)
(* endpoint's (LocalIpcServer::listen), while it listens.  Qt's bind       *)
(* replaces whatever is at the path, so that nothing but the lock and a    *)
(* look at the path keeps a daemon from taking another's endpoint away.    *)
(***************************************************************************)
EXTENDS Catalog

CONSTANT Leftover    \* a file whose process died

ASSUME LeftoverAssumption == Leftover \notin Processes \cup {Nobody}

VARIABLES
    stage,          \* stage[p]: how far main() is
    socket,         \* whose socket is at the endpoint's path
    endpointLock    \* who holds <path>.lock

endpointVars == <<socket, endpointLock>>
daemonVars == <<stage, socket, endpointLock>>
allVars == <<vars, daemonVars>>

DaemonInit ==
    /\ Init
    /\ stage = [p \in Processes |-> "off"]
    /\ socket = Nobody /\ endpointLock = Nobody

Go(p, from, to) ==
    /\ stage[p] = from
    /\ stage' = [stage EXCEPT ![p] = to]

\* Requests are served, and before that models are installed (--install) and loaded
\* (--config).
CatalogStep ==
    /\ Next
    /\ \A p \in Processes :
          (op'[p] # op[p] \/ loaded'[p] # loaded[p]) => stage[p] \in {"up", "serving", "closing", "closed"}
    /\ lock # Nobody => lock' # Nobody
    /\ UNCHANGED daemonVars

\* main() up to the listeners.
Start(p) ==
    /\ Go(p, "off", "up")
    /\ UNCHANGED <<vars, endpointVars>>

-----------------------------------------------------------------------------
(* LocalIpcServer::listen() and close().                                   *)

\* Mutant: the lock is made and not waited for.
TryLockIgnored(p) ==
    /\ At(p, "rest") /\ Go(p, "up", "locked")
    /\ endpointLock' = p
    /\ UNCHANGED <<vars, socket>>

\* tryLock(0).  The lock of a process that died is stale.
TryLock(p) ==
    /\ At(p, "rest") /\ Go(p, "up", "locked")
    /\ endpointLock \in {Nobody, Leftover}
    /\ endpointLock' = p
    /\ UNCHANGED <<vars, socket>>

\* The look at the path.
PathFree(p) ==
    /\ socket = Nobody
    /\ Go(p, "locked", "checked")
    /\ UNCHANGED <<vars, endpointVars>>

\* QLocalServer::listen() puts its socket there.
Bind(p) ==
    /\ Go(p, "checked", "bound")
    /\ socket' = p
    /\ UNCHANGED <<vars, endpointLock>>

\* listen() is false: the path is taken, or the bind fails; the lock goes with its owner.
ListenFails(p) ==
    /\ \/ socket # Nobody /\ Go(p, "locked", "closed")
       \/ Go(p, "checked", "closed")
    /\ endpointLock' = Nobody
    /\ UNCHANGED <<vars, socket>>

\* listen() is false before it has anything: the lock is another's.
Locked(p) ==
    /\ At(p, "rest") /\ Go(p, "up", "closed")
    /\ endpointLock \notin {Nobody, Leftover}
    /\ UNCHANGED <<vars, endpointVars>>

\* The HTTP server is up too, or not asked for, and the event loop runs.
Serve(p) ==
    /\ Go(p, "bound", "serving")
    /\ UNCHANGED <<vars, endpointVars>>

\* Only HTTP is asked for.
ServeHttp(p) ==
    /\ At(p, "rest") /\ Go(p, "up", "serving")
    /\ UNCHANGED <<vars, endpointVars>>

-----------------------------------------------------------------------------
\* quit(), or an exception in main(): the destructors run.  The server's is first.
Quit(p) ==
    /\ Go(p, "serving", "closing") \/ Go(p, "bound", "closing") \/ Go(p, "up", "closing")
    /\ UNCHANGED <<vars, endpointVars>>

\* server.close() removes what is at the path, if it listens.
CloseServer(p) ==
    /\ Go(p, "closing", "unlocking")
    /\ socket' = IF endpointLock = p THEN Nobody ELSE socket
    /\ UNCHANGED <<vars, endpointLock>>

\* endpointLock.reset()
Unlock(p) ==
    /\ Go(p, "unlocking", "closed")
    /\ endpointLock' = IF endpointLock = p THEN Nobody ELSE endpointLock
    /\ UNCHANGED <<vars, socket>>

\* The catalog's lock goes with the process, with what it was doing and had loaded.
GiveUpCatalog(p) == Crash(p) \/ (lock # p /\ UNCHANGED vars)

\* ~Service(), once its worker is done.
Stop(p) ==
    /\ At(p, "rest") /\ Go(p, "closed", "off")
    /\ GiveUpCatalog(p)
    /\ UNCHANGED endpointVars

\* The process dies at any moment, and its files stay.
Die(p) ==
    /\ stage[p] # "off"
    /\ stage' = [stage EXCEPT ![p] = "off"]
    /\ socket' = IF socket = p THEN Leftover ELSE socket
    /\ endpointLock' = IF endpointLock = p THEN Leftover ELSE endpointLock
    /\ GiveUpCatalog(p)

\* Somebody removes the socket of a daemon that died; no daemon does.
CleanUp ==
    /\ socket = Leftover
    /\ socket' = Nobody
    /\ UNCHANGED <<vars, stage, endpointLock>>

DaemonNext ==
    \/ CatalogStep
    \/ \E p \in Processes :
          \/ Start(p) \/ TryLock(p) \/ PathFree(p) \/ Bind(p) \/ ListenFails(p) \/ Locked(p)
          \/ Serve(p) \/ ServeHttp(p) \/ Quit(p) \/ CloseServer(p) \/ Unlock(p) \/ Stop(p) \/ Die(p)
    \/ CleanUp

DaemonSpec == DaemonInit /\ [][DaemonNext]_allVars

-----------------------------------------------------------------------------
\* A daemon that listens is the one a client reaches: nobody else's socket takes the place
\* of its own until it closes, and the socket at the path is that of a daemon that
\* listens or a leftover of one that died, never one that a daemon that stopped forgot.
EndpointIsServed ==
    /\ \A p \in Processes : stage[p] = "bound" => socket = p
    /\ \A p \in Processes : (stage[p] = "serving" /\ endpointLock = p) => socket = p
    /\ socket \in Processes => stage[socket] \in {"bound", "serving", "closing"} /\ endpointLock = socket
=============================================================================
